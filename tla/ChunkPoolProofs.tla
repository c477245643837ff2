--------------------------- MODULE ChunkPoolProofs ---------------------------
(***************************************************************************)
(* Proofs about ChunkPool: the reference counts are exact, whatever the    *)
(* players, the size of the pool and the order of its queue.               *)
(***************************************************************************)
EXTENDS ChunkPool, FiniteSetTheorems, TLAPS

-----------------------------------------------------------------------------
(* Counting the writes. *)

\* A place is a player and a position.
LEMMA PlacesAre ==
  ASSUME NEW b, NEW out \in [Player -> Seq(Bucket)]
  PROVE  \A x : x \in Places(b, Player, out) <=>
           \E p \in Player, i \in Nat :
             i \in 1..Len(out[p]) /\ out[p][i] = b /\ x = <<p, i>>
<1>1. \A p \in Player : DOMAIN out[p] = 1..Len(out[p])
  OBVIOUS
<1>. QED  BY <1>1 DEF Places

\* A position where b is found is a place of b.
LEMMA PlaceIn ==
  ASSUME NEW b, NEW out \in [Player -> Seq(Bucket)],
         NEW p \in Player, NEW i \in 1..Len(out[p]), out[p][i] = b
  PROVE  <<p, i>> \in Places(b, Player, out)
<1>1. DOMAIN out[p] = 1..Len(out[p])
  OBVIOUS
<1>. QED  BY <1>1 DEF Places

\* There are finitely many.
LEMMA PlacesFinite ==
  ASSUME NEW b, NEW out \in [Player -> Seq(Bucket)]
  PROVE  IsFiniteSet(Places(b, Player, out)) /\ Times(b, out) \in Nat
<1> DEFINE at(p) == {p} \X {i \in DOMAIN out[p] : out[p][i] = b}
           T == {at(p) : p \in Player}
           f == [p \in Player |-> at(p)]
<1>1. f \in Surjection(Player, T)
  BY DEF Surjection
<1>2. IsFiniteSet(T)
  BY <1>1, FS_Surjection, PlayerAssumption
<1>3. \A t \in T : IsFiniteSet(t)
  <2> SUFFICES ASSUME NEW p \in Player  PROVE IsFiniteSet(at(p))
    OBVIOUS
  <2>1. Len(out[p]) \in Nat /\ DOMAIN out[p] = 1..Len(out[p])
    OBVIOUS
  <2>2. IsFiniteSet(1..Len(out[p]))
    BY <2>1, FS_Interval
  <2>3. IsFiniteSet({i \in DOMAIN out[p] : out[p][i] = b})
    BY <2>1, <2>2, FS_Subset
  <2>4. IsFiniteSet({p})
    BY FS_Singleton
  <2>. QED  BY <2>3, <2>4, FS_Product
<1>4. IsFiniteSet(UNION T)
  BY <1>2, <1>3, FS_UNION
<1>5. IsFiniteSet(Places(b, Player, out))
  BY <1>4 DEF Places
<1>. QED  BY <1>5, FS_CardinalityType DEF Times

\* What is written next is counted on top of what was written before.
LEMMA TimesAdd ==
  ASSUME NEW b, NEW w \in [Player -> Seq(Bucket)], NEW out \in [Player -> Seq(Bucket)]
  PROVE  Times(b, [p \in Player |-> w[p] \o out[p]]) = Times(b, w) + Times(b, out)
<1> DEFINE both == [p \in Player |-> w[p] \o out[p]]
           shifted == {x \in Places(b, Player, both) : x[2] > Len(w[x[1]])}
           f == [x \in Places(b, Player, out) |-> <<x[1], Len(w[x[1]]) + x[2]>>]
<1>1. /\ both \in [Player -> Seq(Bucket)]
      /\ \A p \in Player : /\ Len(w[p]) \in Nat /\ Len(out[p]) \in Nat
                           /\ Len(both[p]) = Len(w[p]) + Len(out[p])
                           /\ \A i \in 1..Len(w[p]) : both[p][i] = w[p][i]
                           /\ \A i \in 1..Len(out[p]) : both[p][Len(w[p]) + i] = out[p][i]
  OBVIOUS
<1> HIDE DEF both
<1>2. /\ Places(b, Player, both) = Places(b, Player, w) \cup shifted
      /\ Places(b, Player, w) \cap shifted = {}
  <2>1. ASSUME NEW x \in Places(b, Player, both), x \notin shifted
        PROVE  x \in Places(b, Player, w)
    <3>1. PICK p \in Player, i \in Nat : i \in 1..Len(both[p]) /\ both[p][i] = b /\ x = <<p, i>>
      BY <1>1, PlacesAre
    <3>2. i \in 1..Len(w[p]) /\ w[p][i] = b
      BY <1>1, <2>1, <3>1
    <3>. QED  BY <3>1, <3>2, PlaceIn
  <2>2. ASSUME NEW x \in Places(b, Player, w)
        PROVE  x \in Places(b, Player, both) /\ x \notin shifted
    <3>1. PICK p \in Player, i \in Nat : i \in 1..Len(w[p]) /\ w[p][i] = b /\ x = <<p, i>>
      BY PlacesAre
    <3>2. i \in 1..Len(both[p]) /\ both[p][i] = b /\ ~(i > Len(w[p]))
      BY <1>1, <3>1
    <3>3. x \in Places(b, Player, both)
      BY <1>1, <3>1, <3>2, PlaceIn
    <3>. QED  BY <3>1, <3>2, <3>3
  <2>. QED  BY <2>1, <2>2
<1>3. f \in Bijection(Places(b, Player, out), shifted)
  <2>1. ASSUME NEW x \in Places(b, Player, out)
        PROVE  f[x] \in shifted
    <3>1. PICK p \in Player, i \in Nat : i \in 1..Len(out[p]) /\ out[p][i] = b /\ x = <<p, i>>
      BY PlacesAre
    <3>2. /\ Len(w[p]) + i \in 1..Len(both[p])
          /\ both[p][Len(w[p]) + i] = b
          /\ Len(w[p]) + i > Len(w[p])
          /\ f[x] = <<p, Len(w[p]) + i>>
      BY <1>1, <3>1
    <3>. QED  BY <1>1, <3>2, PlaceIn
  <2>2. ASSUME NEW x \in Places(b, Player, out), NEW y \in Places(b, Player, out), f[x] = f[y]
        PROVE  x = y
    <3>0. \A z \in Places(b, Player, out) :
            \E p \in Player, i \in Nat : i \in 1..Len(out[p]) /\ z = <<p, i>>
      BY PlacesAre
    <3>1. PICK p \in Player, i \in Nat : i \in 1..Len(out[p]) /\ x = <<p, i>>
      BY <3>0
    <3>2. PICK q \in Player, j \in Nat : j \in 1..Len(out[q]) /\ y = <<q, j>>
      BY <3>0
    <3>3. <<p, Len(w[p]) + i>> = <<q, Len(w[q]) + j>>
      BY <2>2, <3>1, <3>2
    <3>. QED  BY <1>1, <3>1, <3>2, <3>3
  <2>3. ASSUME NEW y \in shifted
        PROVE  \E x \in Places(b, Player, out) : f[x] = y
    <3>1. PICK p \in Player, i \in Nat : i \in 1..Len(both[p]) /\ both[p][i] = b /\ y = <<p, i>>
      BY <1>1, PlacesAre
    <3>2. i - Len(w[p]) \in 1..Len(out[p]) /\ i = Len(w[p]) + (i - Len(w[p]))
      BY <1>1, <3>1
    <3>3. out[p][i - Len(w[p])] = b
      BY <1>1, <3>1, <3>2
    <3>4. <<p, i - Len(w[p])>> \in Places(b, Player, out)
      BY <3>2, <3>3, PlaceIn
    <3>. QED  BY <3>1, <3>2, <3>4
  <2>4. f \in [Places(b, Player, out) -> shifted]
    BY <2>1
  <2> HIDE DEF f, shifted
  <2>. QED  BY <2>2, <2>3, <2>4 DEF Bijection, Injection, Surjection, IsInjective
<1>4. IsFiniteSet(shifted) /\ Cardinality(shifted) = Cardinality(Places(b, Player, out))
  <2> HIDE DEF f, shifted
  <2>1. ExistsBijection(Places(b, Player, out), shifted)
    BY <1>3 DEF ExistsBijection
  <2>. QED  BY <2>1, PlacesFinite, FS_Bijection
<1> HIDE DEF shifted
<1>5. Cardinality(Places(b, Player, both))
        = Cardinality(Places(b, Player, w)) + Cardinality(shifted)
  <2>1. IsFiniteSet(Places(b, Player, w)) /\ IsFiniteSet(shifted)
    BY <1>4, PlacesFinite
  <2>2. /\ Cardinality({}) = 0
        /\ Cardinality(Places(b, Player, w)) \in Nat /\ Cardinality(shifted) \in Nat
    BY <2>1, FS_EmptySet, FS_CardinalityType
  <2>3. Cardinality(Places(b, Player, w) \cup shifted) =
          Cardinality(Places(b, Player, w)) + Cardinality(shifted)
            - Cardinality(Places(b, Player, w) \cap shifted)
    BY <2>1, FS_Union
  <2>4. Cardinality(Places(b, Player, w) \cap shifted) = 0
    BY <1>2, <2>2
  <2>5. Cardinality(Places(b, Player, both)) = Cardinality(Places(b, Player, w) \cup shifted)
    BY <1>2
  <2>. QED  BY <2>2, <2>3, <2>4, <2>5
<1>6. Times(b, both) = Times(b, w) + Times(b, out)
  BY <1>4, <1>5 DEF Times
<1>. QED  BY <1>6 DEF both

\* What is not among the sequences is not counted, what is among them is.
LEMMA TimesZero ==
  ASSUME NEW b, NEW out \in [Player -> Seq(Bucket)]
  PROVE  Times(b, out) = 0 <=> \A p \in Player : b \notin Elements(out[p])
<1>0. Times(b, out) = Cardinality(Places(b, Player, out))
  BY DEF Times
<1>1. Times(b, out) = 0 <=> Places(b, Player, out) = {}
  BY <1>0, PlacesFinite, FS_EmptySet
<1>2. Places(b, Player, out) = {} <=> \A p \in Player : \A i \in 1..Len(out[p]) : out[p][i] # b
  <2>1. ASSUME NEW x \in Places(b, Player, out)
        PROVE  \E p \in Player : \E i \in 1..Len(out[p]) : out[p][i] = b
    BY PlacesAre
  <2>2. ASSUME NEW p \in Player, NEW i \in 1..Len(out[p]), out[p][i] = b
        PROVE  Places(b, Player, out) # {}
    BY <2>2, PlaceIn
  <2>. QED  BY <2>1, <2>2
<1>3. \A p \in Player : DOMAIN out[p] = 1..Len(out[p])
  OBVIOUS
<1>. QED  BY <1>1, <1>2, <1>3 DEF Elements

\* One write is one place.
LEMMA TimesOne ==
  ASSUME NEW b \in Bucket, NEW p \in Player
  PROVE  Times(b, [q \in Player |-> IF q = p THEN <<b>> ELSE <<>>]) = 1
<1> DEFINE one == [q \in Player |-> IF q = p THEN <<b>> ELSE <<>>]
<1>1. /\ one \in [Player -> Seq(Bucket)]
      /\ \A q \in Player : Len(one[q]) = IF q = p THEN 1 ELSE 0
      /\ one[p][1] = b
  OBVIOUS
<1> HIDE DEF one
<1>2. Places(b, Player, one) = {<<p, 1>>}
  <2>1. \A x : x \in Places(b, Player, one) <=> x = <<p, 1>>
    BY <1>1, PlacesAre
  <2>. QED  BY <2>1
<1>3. Cardinality(Places(b, Player, one)) = 1
  BY <1>2, FS_Singleton
<1>4. Times(b, one) = 1
  BY <1>3 DEF Times
<1>. QED  BY <1>4 DEF one

-----------------------------------------------------------------------------
(* The sequences that keep buckets. *)

\* The elements of a sequence, and of two that are joined.
LEMMA ElementsAre ==
  ASSUME NEW S, NEW s \in Seq(S)
  PROVE  /\ \A x : x \in Elements(s) <=> \E i \in Nat : i \in 1..Len(s) /\ s[i] = x
         /\ Elements(s) \subseteq S
<1>1. DOMAIN s = 1..Len(s) /\ Len(s) \in Nat /\ \A i \in 1..Len(s) : s[i] \in S
  OBVIOUS
<1>. QED  BY <1>1 DEF Elements

\* What stands at a place of a sequence is one of its elements.
LEMMA ElementIn ==
  ASSUME NEW S, NEW s \in Seq(S), NEW i \in 1..Len(s)
  PROVE  s[i] \in Elements(s)
<1>1. DOMAIN s = 1..Len(s)
  OBVIOUS
<1>. QED  BY <1>1 DEF Elements

\* The elements of two sequences one after the other.
LEMMA ElementsConcat ==
  ASSUME NEW S, NEW s \in Seq(S), NEW t \in Seq(S)
  PROVE  Elements(s \o t) = Elements(s) \cup Elements(t)
<1>1. /\ s \o t \in Seq(S) /\ Len(s) \in Nat /\ Len(t) \in Nat
      /\ Len(s \o t) = Len(s) + Len(t)
      /\ \A i \in 1..Len(s \o t) :
           (s \o t)[i] = IF i <= Len(s) THEN s[i] ELSE t[i - Len(s)]
      /\ \A i \in 1..Len(s) : (s \o t)[i] = s[i]
      /\ \A i \in 1..Len(t) : (s \o t)[Len(s) + i] = t[i]
  OBVIOUS
<1>2. ASSUME NEW x \in Elements(s \o t)  PROVE x \in Elements(s) \cup Elements(t)
  <2>1. PICK i \in Nat : i \in 1..Len(s \o t) /\ (s \o t)[i] = x
    BY <1>1, ElementsAre
  <2>2. CASE i <= Len(s)
    BY <1>1, <2>1, <2>2, ElementsAre
  <2>3. CASE i > Len(s)
    <3>1. i - Len(s) \in 1..Len(t) /\ t[i - Len(s)] = x
      BY <1>1, <2>1, <2>3
    <3>. QED  BY <3>1, ElementsAre
  <2>. QED  BY <1>1, <2>1, <2>2, <2>3
<1>3. ASSUME NEW x \in Elements(s)  PROVE x \in Elements(s \o t)
  <2>1. PICK i \in Nat : i \in 1..Len(s) /\ s[i] = x
    BY ElementsAre
  <2>2. i \in 1..Len(s \o t) /\ (s \o t)[i] = x
    BY <1>1, <2>1
  <2>. QED  BY <1>1, <2>2, ElementIn
<1>4. ASSUME NEW x \in Elements(t)  PROVE x \in Elements(s \o t)
  <2>1. PICK i \in Nat : i \in 1..Len(t) /\ t[i] = x
    BY ElementsAre
  <2>2. Len(s) + i \in 1..Len(s \o t) /\ (s \o t)[Len(s) + i] = x
    BY <1>1, <2>1
  <2>. QED  BY <1>1, <2>2, ElementIn
<1>. QED  BY <1>2, <1>3, <1>4

\* The last bucket of a message, and what is before it.
LEMMA ElementsAppend ==
  ASSUME NEW S, NEW s \in Seq(S), NEW e \in S
  PROVE  /\ Append(s, e) \in Seq(S)
         /\ Elements(Append(s, e)) = Elements(s) \cup {e}
         /\ IsInjective(s) /\ e \notin Elements(s) => IsInjective(Append(s, e))
         /\ IsInjective(Append(s, e)) => IsInjective(s) /\ e \notin Elements(s)
<1> DEFINE t == Append(s, e)
<1>1. /\ t \in Seq(S) /\ Len(s) \in Nat /\ Len(t) = Len(s) + 1
      /\ DOMAIN s = 1..Len(s) /\ DOMAIN t = 1..Len(t)
      /\ t[Len(s) + 1] = e
      /\ \A i \in 1..Len(s) : t[i] = s[i]
  OBVIOUS
<1> HIDE DEF t
<1>2. \A i \in 1..Len(t) : i \in 1..Len(s) \/ i = Len(s) + 1
  BY <1>1
<1>3. Elements(t) = Elements(s) \cup {e}
  <2>1. \A i \in DOMAIN t : t[i] \in Elements(s) \cup {e}
    BY <1>1, <1>2 DEF Elements
  <2>2. \A i \in DOMAIN s : i \in DOMAIN t /\ t[i] = s[i]
    BY <1>1
  <2>3. Len(s) + 1 \in DOMAIN t
    BY <1>1
  <2>. QED  BY <1>1, <2>1, <2>2, <2>3 DEF Elements
<1>4. IsInjective(s) /\ e \notin Elements(s) => IsInjective(t)
  BY <1>1, <1>2 DEF IsInjective, Elements
<1>5. ASSUME IsInjective(t)  PROVE IsInjective(s) /\ e \notin Elements(s)
  <2>1. \A i, j \in 1..Len(t) : t[i] = t[j] => i = j
    BY <1>1, <1>5 DEF IsInjective
  <2>2. \A i \in 1..Len(s) : i \in 1..Len(t) /\ i # Len(s) + 1
    BY <1>1
  <2>3. Len(s) + 1 \in 1..Len(t)
    BY <1>1
  <2>. QED  BY <1>1, <2>1, <2>2, <2>3 DEF IsInjective, Elements
<1>. QED  BY <1>1, <1>3, <1>4, <1>5 DEF t

\* The half of it that an event uses which adds a bucket.
LEMMA InjectiveAppend ==
  ASSUME NEW S, NEW s \in Seq(S), NEW e \in S, IsInjective(s), e \notin Elements(s)
  PROVE  IsInjective(Append(s, e))
  BY ElementsAppend

\* A message begins with one bucket.
LEMMA FirstBucket ==
  ASSUME NEW b
  PROVE  Elements(Append(<<>>, b)) = {b} /\ IsInjective(Append(<<>>, b))
<1>1. Append(<<>>, b) = <<b>> /\ DOMAIN <<b>> = {1} /\ <<b>>[1] = b
  OBVIOUS
<1>. QED  BY <1>1 DEF Elements, IsInjective

\* Two sequences without a bucket in common make one without a bucket twice.
LEMMA InjectiveConcat ==
  ASSUME NEW S, NEW s \in Seq(S), NEW t \in Seq(S), IsInjective(s), IsInjective(t),
         Elements(s) \cap Elements(t) = {}
  PROVE  IsInjective(s \o t)
<1>1. /\ Len(s) \in Nat /\ Len(t) \in Nat
      /\ DOMAIN s = 1..Len(s) /\ DOMAIN t = 1..Len(t)
      /\ DOMAIN (s \o t) = 1..(Len(s) + Len(t))
      /\ \A i \in DOMAIN (s \o t) :
           (s \o t)[i] = IF i <= Len(s) THEN s[i] ELSE t[i - Len(s)]
  OBVIOUS
<1>2. \A i \in DOMAIN (s \o t) : IF i <= Len(s) THEN i \in DOMAIN s
                                 ELSE i - Len(s) \in DOMAIN t
  BY <1>1
<1>3. \A i \in DOMAIN s, j \in DOMAIN t : s[i] # t[j]
  BY DEF Elements
<1>4. SUFFICES ASSUME NEW i \in DOMAIN (s \o t), NEW j \in DOMAIN (s \o t),
                      (s \o t)[i] = (s \o t)[j]
               PROVE  i = j
  BY DEF IsInjective
<1>5. CASE i <= Len(s) /\ j <= Len(s)
  BY <1>1, <1>2, <1>4, <1>5 DEF IsInjective
<1>6. CASE ~(i <= Len(s)) /\ ~(j <= Len(s))
  <2>1. i - Len(s) = j - Len(s)
    BY <1>1, <1>2, <1>4, <1>6 DEF IsInjective
  <2>. QED  BY <1>1, <2>1
<1>7. CASE (i <= Len(s)) # (j <= Len(s))
  BY <1>1, <1>2, <1>3, <1>4, <1>7
<1>. QED  BY <1>5, <1>6, <1>7

\* A family of sequences that keep every bucket in one place, and what they keep.
Apart(I, f) ==
  \A x, y \in I : \A i \in DOMAIN f[x] : \A j \in DOMAIN f[y] :
    f[x][i] = f[y][j] => x = y /\ i = j

Kept(I, f) == UNION {Elements(f[x]) : x \in I}

\* One of them is replaced by a sequence of other buckets.
LEMMA Replaced ==
  ASSUME NEW I, NEW f \in [I -> Seq(Bucket)], NEW g \in [I -> Seq(Bucket)], NEW x \in I,
         \A y \in I : y # x => g[y] = f[y],
         Apart(I, f), IsInjective(g[x]),
         Elements(g[x]) \cap Kept(I, f) \subseteq Elements(f[x])
  PROVE  Apart(I, g)
<1>1. \A y \in I : y # x => Elements(f[y]) \cap Elements(f[x]) = {}
  BY DEF Apart, Elements
<1>2. \A y \in I : y # x => Elements(f[y]) \cap Elements(g[x]) = {}
  BY <1>1 DEF Kept
<1> SUFFICES ASSUME NEW y \in I, NEW z \in I, NEW i \in DOMAIN g[y],
                    NEW j \in DOMAIN g[z], g[y][i] = g[z][j]
             PROVE  y = z /\ i = j
  BY DEF Apart
<1>3. CASE y = x /\ z = x
  BY <1>3 DEF IsInjective
<1>4. CASE y # x /\ z # x
  BY <1>4 DEF Apart
<1>5. g[y][i] \in Elements(g[y]) /\ g[z][j] \in Elements(g[z])
  BY DEF Elements
<1>6. CASE y = x /\ z # x
  BY <1>2, <1>5, <1>6
<1>7. CASE y # x /\ z = x
  BY <1>2, <1>5, <1>7
<1>. QED  BY <1>3, <1>4, <1>6, <1>7

\* What is kept when some buckets are replaced by others.
Exchanged(kept, out, in) == (kept \ out) \cup in

\* What the family keeps then.
LEMMA KeptReplaced ==
  ASSUME NEW I, NEW f \in [I -> Seq(Bucket)], NEW g \in [I -> Seq(Bucket)], NEW x \in I,
         \A y \in I : y # x => g[y] = f[y],
         Apart(I, f)
  PROVE  Kept(I, g) = Exchanged(Kept(I, f), Elements(f[x]), Elements(g[x]))
<1>1. \A y \in I : y # x => Elements(f[y]) \cap Elements(f[x]) = {}
  BY DEF Apart, Elements
<1>2. ASSUME NEW b \in Kept(I, g)
      PROVE  b \in (Kept(I, f) \ Elements(f[x])) \cup Elements(g[x])
  <2>1. PICK y \in I : b \in Elements(g[y])
    BY DEF Kept
  <2>. QED  BY <1>1, <2>1 DEF Kept
<1>3. ASSUME NEW b \in Kept(I, f), b \notin Elements(f[x])
      PROVE  b \in Kept(I, g)
  <2>1. PICK y \in I : b \in Elements(f[y])
    BY DEF Kept
  <2>. QED  BY <1>3, <2>1 DEF Kept
<1>4. Elements(g[x]) \subseteq Kept(I, g)
  BY DEF Kept
<1>. QED  BY <1>2, <1>3, <1>4 DEF Exchanged

-----------------------------------------------------------------------------
(* The invariant. *)

\* What the reader keeps: the chunks of its message and the bucket it reads into.
Received == IF current_chunk = None THEN <<>> ELSE Append(chain, current_chunk)

\* The chains of a cache.
ChainsOf(cache) == [k \in Cached |-> IF cache[k] = None THEN <<>> ELSE cache[k]]

Chains == ChainsOf(key_cache)

\* The buckets that are kept outside of the sockets.
Owned == Elements(Received) \cup Kept(Cached, Chains) \cup Kept(Player, headers)

\* Each of them is kept in one place.
KeptInv ==
  /\ IsInjective(Received)
  /\ Apart(Cached, Chains)
  /\ Apart(Player, headers)
  /\ Elements(Received) \cap Kept(Cached, Chains) = {}
  /\ Elements(Received) \cap Kept(Player, headers) = {}
  /\ Kept(Cached, Chains) \cap Kept(Player, headers) = {}

\* The counts are exact, and the queue has the buckets that are made and not counted.
PoolInv ==
  /\ \A b \in Bucket : ref_count[b] = (IF b \in Owned THEN 1 ELSE 0) + Times(b, writes)
  /\ \A b \in Bucket : b \in g_queue <=> b <= g_bucket_id /\ ref_count[b] = 0
  /\ \A b \in Bucket : b > g_bucket_id => ref_count[b] = 0

\* The reader: a bucket whose last chunk is not complete is the last of the message,
\* and no socket has a bucket that is received into or waits for the rest.
ReaderInv ==
  /\ current_chunk = None => chain = <<>>
  /\ merging => chain # <<>> /\ current_chunk # None
  /\ \A b \in Elements(Received) : Times(b, writes) = 0

\* A consumer keeps its header buckets as long as it lives.
HeaderInv ==
  \A p \in Player : Len(headers[p]) = IF consumer[p] = "none" THEN 0 ELSE HeaderNum

IInv == TypeOK /\ PoolInv /\ KeptInv /\ ReaderInv /\ HeaderInv


-----------------------------------------------------------------------------
(* What an event does to the buckets. *)

\* The pool grows by buckets that nobody has seen yet.
LEMMA FreshFacts ==
  ASSUME TypeOK
  PROVE  /\ Fresh \subseteq Bucket
         /\ \A b \in Fresh : b > g_bucket_id /\ b <= g_bucket_id + g_pool_size
         /\ Fresh # {} => /\ g_add_pool_count + 1 \in 1..MAX_ADD_POOL_SIZE_COUNT
                          /\ g_bucket_id + g_pool_size = g_pool_size * (g_add_pool_count + 1)
                          /\ Fresh = (g_bucket_id + 1)..(g_bucket_id + g_pool_size)
         /\ g_bucket_id \in Nat
         /\ 1..g_bucket_id \subseteq Bucket
         /\ Bucket \subseteq Nat /\ 0 \notin Bucket
<1> DEFINE n == g_pool_size
           a == g_add_pool_count
           m == MAX_ADD_POOL_SIZE_COUNT
<1>1. n \in Nat \ {0} /\ m \in Nat \ {0} /\ a \in 1..m /\ g_bucket_id = n * a
  BY SizeAssumption DEF TypeOK
<1>2. n * m = n * a + n * (m - a) /\ n * (m - a) \in Nat /\ n * a \in Nat
  BY <1>1
<1>3. ASSUME a < m
      PROVE  n * (a + 1) = n * a + n /\ n * a + n <= n * m /\ a + 1 \in 1..m
  <2>1. m - a - 1 \in Nat /\ n * (m - a - 1) \in Nat
    BY <1>1, <1>3
  <2>2. n * (m - a) = n * (m - a - 1) + n
    BY <1>1
  <2>. QED  BY <1>1, <1>2, <2>1, <2>2
<1> HIDE DEF n, a, m
<1>4. Bucket = 1..(n * m)
  BY DEF Bucket, n, m
<1>5. Fresh = IF a < m THEN (g_bucket_id + 1)..(g_bucket_id + n) ELSE {}
  BY DEF Fresh, a, m, n
<1>6. /\ Fresh \subseteq Bucket
      /\ \A b \in Fresh : b > g_bucket_id /\ b <= g_bucket_id + n
      /\ Fresh # {} => a + 1 \in 1..m /\ g_bucket_id + n = n * (a + 1)
      /\ g_bucket_id \in Nat
      /\ 1..g_bucket_id \subseteq Bucket
      /\ Bucket \subseteq Nat /\ 0 \notin Bucket
  BY <1>1, <1>2, <1>3, <1>4, <1>5
<1>. QED  BY <1>5, <1>6 DEF n, a, m

\* A bucket of the queue, or a new one, is kept by nobody and in no socket.
LEMMA FreeFacts ==
  ASSUME TypeOK, PoolInv, NEW b \in g_queue \cup Fresh
  PROVE  b \in Bucket /\ b \notin Owned /\ Times(b, writes) = 0 /\ ref_count[b] = 0
<1>1. b \in Bucket /\ ref_count[b] = 0
  BY FreshFacts DEF TypeOK, PoolInv
<1>2. Times(b, writes) \in Nat
  BY PlacesFinite DEF TypeOK
<1>. QED  BY <1>1, <1>2 DEF PoolInv

\* The buckets an event is about.
Taking(lent, own, out, drop) ==
  /\ lent \subseteq Bucket /\ own \subseteq Bucket /\ drop \subseteq Owned
  /\ out \in [Player -> Seq(Bucket)]
  /\ \A p \in Player : Elements(out[p]) \subseteq (Owned \cup lent) \cup own
  /\ \A b \in lent : \E p \in Player : b \in Elements(out[p])

\* What becomes of the counts.
LEMMA CountFacts ==
  ASSUME TypeOK, PoolInv, NEW lent, NEW own, NEW out, NEW drop,
         Taking(lent, own, out, drop), Buckets(lent, own, out, drop)
  PROVE  /\ writes' \in [Player -> Seq(Bucket)]
         /\ \A b \in Bucket :
              /\ Times(b, writes) \in Nat /\ Times(b, out) \in Nat
              /\ Times(b, writes') = Times(b, writes) + Times(b, out)
              /\ Times(b, out) = 0 <=> \A p \in Player : b \notin Elements(out[p])
         /\ \A b \in Bucket : ref_count'[b] =
              ((ref_count[b] + Times(b, out)) + (IF b \in own THEN 1 ELSE 0))
                - (IF b \in drop THEN 1 ELSE 0)
         /\ DOMAIN ref_count' = Bucket
<1>1. writes \in [Player -> Seq(Bucket)] /\ out \in [Player -> Seq(Bucket)]
  BY DEF TypeOK, Taking
<1>2. writes' = [p \in Player |-> writes[p] \o out[p]]
  BY DEF Buckets
<1>3. writes' \in [Player -> Seq(Bucket)]
  BY <1>1, <1>2
<1>4. ASSUME NEW b \in Bucket
      PROVE  /\ Times(b, writes) \in Nat /\ Times(b, out) \in Nat
             /\ Times(b, writes') = Times(b, writes) + Times(b, out)
             /\ Times(b, out) = 0 <=> \A p \in Player : b \notin Elements(out[p])
  BY <1>1, <1>2, PlacesFinite, TimesAdd, TimesZero
<1>5. ref_count' = [b \in Bucket |->
                      ((ref_count[b] + Times(b, out)) + (IF b \in own THEN 1 ELSE 0))
                        - (IF b \in drop THEN 1 ELSE 0)]
  BY DEF Buckets, HeldByWrites
<1>. QED  BY <1>3, <1>4, <1>5

\* Whatever is kept is a bucket.
LEMMA OwnedBuckets ==
  ASSUME TypeOK
  PROVE  /\ Received \in Seq(Bucket)
         /\ Chains \in [Cached -> Seq(Bucket)]
         /\ Elements(Received) \subseteq Bucket
         /\ Kept(Cached, Chains) \subseteq Bucket
         /\ Kept(Player, headers) \subseteq Bucket
         /\ Owned \subseteq Bucket
<1>1. Received \in Seq(Bucket)
  <2>1. CASE current_chunk = None
    BY <2>1 DEF Received
  <2>2. CASE current_chunk # None
    BY <2>2, ElementsAppend DEF Received, TypeOK
  <2>. QED  BY <2>1, <2>2
<1>2. Chains \in [Cached -> Seq(Bucket)]
  BY DEF Chains, ChainsOf, Chain, TypeOK
<1>3. headers \in [Player -> Seq(Bucket)]
  BY DEF TypeOK
<1>4. ASSUME NEW I, NEW f \in [I -> Seq(Bucket)]
      PROVE  Kept(I, f) \subseteq Bucket
  <2>1. \A x \in I : Elements(f[x]) \subseteq Bucket
    BY <1>4, ElementsAre
  <2>. QED  BY <2>1 DEF Kept
<1>. QED  BY <1>1, <1>2, <1>3, <1>4, ElementsAre DEF Owned

\* The buckets that return to the queue, and what is left of the queue.
LEMMA QueueFacts ==
  ASSUME TypeOK, NEW lent, NEW own, NEW out, NEW drop,
         Taking(lent, own, out, drop), Buckets(lent, own, out, drop)
  PROVE  LET back == {b \in drop : ref_count[b] + Times(b, out) = 1}
             free == g_queue \cup back
             new == lent \cup own
         IN  /\ lent \cap own = {}
             /\ lent \subseteq g_queue \cup Fresh
             /\ new \subseteq free \cup Fresh
             /\ \/ /\ new \subseteq free
                   /\ g_queue' = free \ new
                   /\ g_bucket_id' = g_bucket_id /\ g_add_pool_count' = g_add_pool_count
                \/ /\ Fresh # {}
                   /\ g_queue' = (free \cup Fresh) \ new
                   /\ g_bucket_id' = g_bucket_id + g_pool_size
                   /\ g_add_pool_count' = g_add_pool_count + 1
<1> DEFINE used == [b \in Bucket |-> ref_count[b] + HeldByWrites(b, out)]
           back == {b \in drop : ref_count[b] + Times(b, out) = 1}
<1>1. drop \subseteq Bucket
  BY OwnedBuckets DEF Taking
<1>2. {b \in drop : used[b] = 1} = back
  BY <1>1 DEF HeldByWrites
<1>3. Allocated(lent, own, {b \in drop : used[b] = 1})
  BY DEF Buckets
<1>4. Allocated(lent, own, back)
  BY <1>2, <1>3
<1>5. lent \cap own = {} /\ lent \subseteq g_queue \cup Fresh
  BY DEF Buckets
<1> HIDE DEF used, back
<1>6. /\ lent \cup own \subseteq (g_queue \cup back) \cup Fresh
      /\ \/ /\ lent \cup own \subseteq g_queue \cup back
            /\ g_queue' = (g_queue \cup back) \ (lent \cup own)
            /\ g_bucket_id' = g_bucket_id /\ g_add_pool_count' = g_add_pool_count
         \/ /\ ~(lent \cup own \subseteq g_queue \cup back)
            /\ g_queue' = ((g_queue \cup back) \cup Fresh) \ (lent \cup own)
            /\ g_bucket_id' = g_bucket_id + g_pool_size
            /\ g_add_pool_count' = g_add_pool_count + 1
  BY <1>4 DEF Allocated
<1>. QED  BY <1>5, <1>6 DEF back

\* Nobody else needs what is allocated.
LEMMA TakenAlone ==
  ASSUME TypeOK, PoolInv, NEW lent, NEW own, NEW out, NEW drop,
         Taking(lent, own, out, drop), Buckets(lent, own, out, drop)
  PROVE  /\ own \cap (Owned \ drop) = {}
         /\ lent \cap Owned = {} /\ lent \cap own = {}
         /\ (\A p \in Player : Elements(out[p]) \subseteq Owned \cup lent)
              => \A b \in own : Times(b, writes') = 0
<1>1. ASSUME NEW b \in own
      PROVE  /\ b \notin Owned \ drop
             /\ (\A p \in Player : Elements(out[p]) \subseteq Owned \cup lent)
                  => Times(b, writes') = 0
  <2>0. b \in Bucket /\ b \notin lent
    BY QueueFacts DEF Taking
  <2>1. CASE b \in g_queue \cup Fresh
    <3>1. b \notin Owned /\ Times(b, writes) = 0
      BY <2>1, FreeFacts
    <3>2. (\A p \in Player : Elements(out[p]) \subseteq Owned \cup lent) => Times(b, out) = 0
      BY <2>0, <3>1, CountFacts
    <3>. QED  BY <2>0, <3>1, <3>2, CountFacts
  <2>2. CASE b \in drop /\ ref_count[b] + Times(b, out) = 1
    <3>1. b \in Owned /\ ref_count[b] = 1 + Times(b, writes)
      BY <2>0, <2>2 DEF Taking, PoolInv
    <3>2. Times(b, writes) = 0 /\ Times(b, out) = 0
      BY <2>0, <2>2, <3>1, CountFacts
    <3>. QED  BY <2>0, <2>2, <3>2, CountFacts
  <2>3. b \in g_queue \cup Fresh \/ (b \in drop /\ ref_count[b] + Times(b, out) = 1)
    BY QueueFacts
  <2>. QED  BY <2>1, <2>2, <2>3
<1>2. lent \cap Owned = {} /\ lent \cap own = {}
  BY QueueFacts, FreeFacts
<1>. QED  BY <1>1, <1>2

\* The counts stay exact and the queue idle, when what is kept changes as it should.
LEMMA BucketsStep ==
  ASSUME TypeOK, PoolInv, NEW lent, NEW own, NEW out, NEW drop,
         Taking(lent, own, out, drop), Buckets(lent, own, out, drop),
         Owned' = (Owned \ drop) \cup own
  PROVE  /\ PoolInv'
         /\ g_queue' \in SUBSET Bucket
         /\ g_bucket_id' = g_pool_size * g_add_pool_count'
         /\ g_add_pool_count' \in 1..MAX_ADD_POOL_SIZE_COUNT
         /\ ref_count' \in [Bucket -> Nat]
         /\ writes' \in [Player -> Seq(Bucket)]
<1>0. drop \subseteq Owned /\ drop \subseteq Bucket /\ Owned \subseteq Bucket
  BY OwnedBuckets DEF Taking
<1>1. \A b \in Bucket :
        /\ Times(b, writes) \in Nat /\ Times(b, out) \in Nat
        /\ Times(b, writes') = Times(b, writes) + Times(b, out)
        /\ ref_count'[b] = ((ref_count[b] + Times(b, out)) + (IF b \in own THEN 1 ELSE 0))
                             - (IF b \in drop THEN 1 ELSE 0)
        /\ ref_count[b] = (IF b \in Owned THEN 1 ELSE 0) + Times(b, writes)
  BY CountFacts DEF PoolInv
<1>2. \A b \in Bucket :
        /\ ref_count'[b] = (IF b \in Owned' THEN 1 ELSE 0) + Times(b, writes')
        /\ ref_count'[b] \in Nat
  <2> SUFFICES ASSUME NEW b \in Bucket
               PROVE  /\ ref_count'[b] = (IF b \in Owned' THEN 1 ELSE 0) + Times(b, writes')
                      /\ ref_count'[b] \in Nat
    OBVIOUS
  <2>1. b \in own => b \notin Owned \/ b \in drop
    BY TakenAlone
  <2>2. b \in Owned' <=> (b \in Owned /\ b \notin drop) \/ b \in own
    OBVIOUS
  <2>. QED  BY <1>0, <1>1, <2>1, <2>2
<1>3. ref_count' \in [Bucket -> Nat]
  <2>1. ref_count' = [b \in Bucket |-> ref_count'[b]]
    BY DEF Buckets
  <2>. QED  BY <1>2, <2>1
<1> DEFINE back == {b \in drop : ref_count[b] + Times(b, out) = 1}
           new == lent \cup own
<1>4. \A b \in Bucket : ref_count'[b] = 0 <=>
        /\ b \notin new
        /\ b \in back \/ ref_count[b] = 0
  <2> SUFFICES ASSUME NEW b \in Bucket
               PROVE  ref_count'[b] = 0 <=> /\ b \notin new
                                            /\ b \in back \/ ref_count[b] = 0
    OBVIOUS
  <2>1. CASE b \in own
    BY <1>1, <1>2, <2>1
  <2>2. CASE b \in lent
    <3>1. Times(b, out) # 0
      BY <2>2, CountFacts DEF Taking
    <3>2. b \notin own /\ b \notin drop
      BY <1>0, <2>2, TakenAlone
    <3>. QED  BY <1>1, <2>2, <3>1, <3>2
  <2>3. CASE b \notin own /\ b \notin lent /\ b \in drop
    <3>1. b \in Owned /\ ref_count[b] # 0
      BY <1>0, <1>1, <2>3
    <3>. QED  BY <1>1, <2>3, <3>1
  <2>4. CASE b \notin own /\ b \notin lent /\ b \notin drop
    <3>1. ref_count[b] = 0 => Times(b, out) = 0
      <4>1. ref_count[b] = 0 => b \notin Owned
        BY <1>1
      <4>. QED  BY <2>4, <4>1, CountFacts DEF Taking
    <3>. QED  BY <1>1, <2>4, <3>1
  <2>. QED  BY <2>1, <2>2, <2>3, <2>4
<1>5. /\ new \subseteq (g_queue \cup back) \cup Fresh
      /\ \/ /\ new \subseteq g_queue \cup back
            /\ g_queue' = (g_queue \cup back) \ new
            /\ g_bucket_id' = g_bucket_id /\ g_add_pool_count' = g_add_pool_count
         \/ /\ Fresh # {}
            /\ g_queue' = ((g_queue \cup back) \cup Fresh) \ new
            /\ g_bucket_id' = g_bucket_id + g_pool_size
            /\ g_add_pool_count' = g_add_pool_count + 1
  BY QueueFacts
<1>6. /\ g_queue \subseteq Bucket /\ back \subseteq Bucket /\ Fresh \subseteq Bucket
      /\ \A b \in back : b <= g_bucket_id
      /\ \A b \in Bucket : b \in g_queue <=> b <= g_bucket_id /\ ref_count[b] = 0
      /\ \A b \in Bucket : b > g_bucket_id => ref_count[b] = 0
  <2>1. \A b \in back : ref_count[b] # 0
    BY <1>0, <1>1
  <2>. QED  BY <1>0, <2>1, FreshFacts DEF TypeOK, PoolInv
<1> HIDE DEF back, new
<1>7. CASE /\ new \subseteq g_queue \cup back
           /\ g_queue' = (g_queue \cup back) \ new
           /\ g_bucket_id' = g_bucket_id /\ g_add_pool_count' = g_add_pool_count
  <2>1. \A b \in Bucket : b \in g_queue' <=> b <= g_bucket_id' /\ ref_count'[b] = 0
    BY <1>4, <1>6, <1>7
  <2>2. \A b \in Bucket : b > g_bucket_id' => ref_count'[b] = 0
    BY <1>4, <1>6, <1>7, FreshFacts
  <2>. QED  BY <1>2, <1>3, <1>6, <1>7, <2>1, <2>2, CountFacts DEF PoolInv, TypeOK
<1>8. CASE /\ Fresh # {}
           /\ g_queue' = ((g_queue \cup back) \cup Fresh) \ new
           /\ g_bucket_id' = g_bucket_id + g_pool_size
           /\ g_add_pool_count' = g_add_pool_count + 1
  <2>0. Fresh = (g_bucket_id + 1)..(g_bucket_id + g_pool_size) /\ g_bucket_id \in Nat
        /\ g_pool_size \in Nat /\ Bucket \subseteq Nat
    BY <1>8, FreshFacts, SizeAssumption
  <2>1. \A b \in Bucket : b \in g_queue' <=> b <= g_bucket_id' /\ ref_count'[b] = 0
    BY <1>4, <1>6, <1>8, <2>0
  <2>2. \A b \in Bucket : b > g_bucket_id' => ref_count'[b] = 0
    BY <1>4, <1>5, <1>6, <1>8, <2>0
  <2>. QED  BY <1>2, <1>3, <1>6, <1>8, <2>1, <2>2, FreshFacts, CountFacts DEF PoolInv
<1>. QED  BY <1>5, <1>7, <1>8

-----------------------------------------------------------------------------
(* The steps of the reader. *)

\* An event that writes nothing.
LEMMA NothingWritten ==
  ASSUME TypeOK, PoolInv, NEW own \in SUBSET Bucket, NEW drop \in SUBSET Owned,
         Buckets({}, own, Nothing, drop)
  PROVE  /\ Taking({}, own, Nothing, drop)
         /\ \A b \in Bucket : Times(b, writes') = Times(b, writes)
         /\ \A p \in Player : Elements(Nothing[p]) \subseteq Owned \cup {}
<1>1. Nothing \in [Player -> Seq(Bucket)] /\ \A p \in Player : Elements(Nothing[p]) = {}
  BY DEF Nothing, Elements
<1>2. Taking({}, own, Nothing, drop)
  BY <1>1 DEF Taking
<1>3. ASSUME NEW b \in Bucket  PROVE Times(b, writes') = Times(b, writes)
  <2>1. Times(b, Nothing) = 0
    BY <1>1, TimesZero
  <2>. QED  BY <1>2, <2>1, CountFacts
<1>. QED  BY <1>1, <1>2, <1>3

\* The cache and the headers keep what they kept.
LEMMA OthersKeep ==
  ASSUME TypeOK, UNCHANGED <<key_cache, headers>>
  PROVE  /\ Chains' = Chains
         /\ Kept(Cached, Chains)' = Kept(Cached, Chains)
         /\ Kept(Player, headers)' = Kept(Player, headers)
         /\ Apart(Cached, Chains) => Apart(Cached, Chains)'
         /\ Apart(Player, headers) => Apart(Player, headers)'
  BY DEF Chains, ChainsOf, Chain, Kept, Apart

\* The bucket for the first chunk.
LEMMA ConnectStep ==
  ASSUME IInv, NEW b \in Bucket, Connect(b)
  PROVE  IInv'
<1> USE DEF IInv
<1>1. /\ current_chunk = None /\ chain = <<>> /\ Received = <<>> /\ Elements(Received) = {}
      /\ merging = FALSE
  BY DEF Connect, ReaderInv, Received, Elements, TypeOK
<1>2. b # None /\ current_chunk' = b /\ chain' = <<>>
  BY <1>1, NoneAssumption, FreshFacts DEF Connect
<1>3. Received' = Append(<<>>, b)
  BY <1>2 DEF Received
<1>4. Elements(Received') = {b} /\ IsInjective(Received')
  BY <1>3, FirstBucket
<1>5. Buckets({}, {b}, Nothing, {})
  BY DEF Connect
<1>6. Taking({}, {b}, Nothing, {})
  BY <1>5, NothingWritten
<1>7. {b} \cap Owned = {} /\ Times(b, writes') = 0
  BY <1>5, <1>6, NothingWritten, TakenAlone
<1>8. Owned' = (Owned \ {}) \cup {b}
  BY <1>1, <1>4, OthersKeep DEF Owned, Connect
<1>9. /\ PoolInv' /\ g_queue' \in SUBSET Bucket
      /\ g_bucket_id' = g_pool_size * g_add_pool_count'
      /\ g_add_pool_count' \in 1..MAX_ADD_POOL_SIZE_COUNT
      /\ ref_count' \in [Bucket -> Nat]
      /\ writes' \in [Player -> Seq(Bucket)]
  BY <1>5, <1>6, <1>8, BucketsStep
<1>10. TypeOK'
  BY <1>2, <1>9 DEF TypeOK, Connect
<1>11. KeptInv'
  BY <1>4, <1>7, OthersKeep DEF KeptInv, Owned, Connect
<1>12. ReaderInv'
  BY <1>1, <1>2, <1>4, <1>7 DEF ReaderInv, Connect
<1>13. HeaderInv'
  BY DEF HeaderInv, Connect
<1>. QED  BY <1>9, <1>10, <1>11, <1>12, <1>13

\* The next bucket of a message.
LEMMA ReadChunkStep ==
  ASSUME IInv, NEW b \in Bucket, NEW merge \in BOOLEAN, ReadChunk(b, merge)
  PROVE  IInv'
<1> USE DEF IInv
<1>1. /\ current_chunk # None /\ current_chunk \in Bucket /\ chain \in Seq(Bucket)
      /\ Received = Append(chain, current_chunk) /\ Received \in Seq(Bucket)
  BY OwnedBuckets DEF ReadChunk, Received, TypeOK
<1>2. b # None /\ current_chunk' = b /\ chain' = Received
  BY <1>1, NoneAssumption, FreshFacts DEF ReadChunk
<1>3. Received' = Append(Received, b)
  BY <1>2 DEF Received
<1>4. Buckets({}, {b}, Nothing, {})
  BY DEF ReadChunk
<1>5. Taking({}, {b}, Nothing, {}) /\ \A c \in Bucket : Times(c, writes') = Times(c, writes)
  BY <1>4, NothingWritten
<1>6. {b} \cap Owned = {} /\ Times(b, writes') = 0
  BY <1>4, <1>5, NothingWritten, TakenAlone
<1>7. Elements(Received') = Elements(Received) \cup {b} /\ IsInjective(Received')
  <2>0. Received \in Seq(Bucket)
    BY <1>1
  <2>1. b \notin Elements(Received) /\ IsInjective(Received)
    BY <1>6 DEF Owned, KeptInv
  <2>2. Elements(Append(Received, b)) = Elements(Received) \cup {b}
    BY <2>0, ElementsAppend
  <2>3. IsInjective(Append(Received, b))
    BY <2>0, <2>1, InjectiveAppend
  <2>. QED  BY <1>3, <2>2, <2>3
<1>8. Owned' = (Owned \ {}) \cup {b}
  BY <1>7, OthersKeep DEF Owned, ReadChunk
<1>9. /\ PoolInv' /\ g_queue' \in SUBSET Bucket
      /\ g_bucket_id' = g_pool_size * g_add_pool_count'
      /\ g_add_pool_count' \in 1..MAX_ADD_POOL_SIZE_COUNT
      /\ ref_count' \in [Bucket -> Nat]
      /\ writes' \in [Player -> Seq(Bucket)]
  BY <1>4, <1>5, <1>8, BucketsStep
<1>10. TypeOK'
  BY <1>1, <1>2, <1>9 DEF TypeOK, ReadChunk
<1>11. KeptInv'
  BY <1>6, <1>7, OthersKeep DEF KeptInv, Owned, ReadChunk
<1>12. ReaderInv'
  <2>1. Received # <<>>
    BY <1>1
  <2>. QED  BY <1>2, <1>5, <1>6, <1>7, <2>1, OwnedBuckets DEF ReaderInv, ReadChunk
<1>13. HeaderInv'
  BY DEF HeaderInv, ReadChunk
<1>. QED  BY <1>9, <1>10, <1>11, <1>12, <1>13

\* The bucket of the header goes, the one before it is read into again.
LEMMA ReadMergedHeaderStep ==
  ASSUME IInv, ReadMergedHeader
  PROVE  IInv'
<1> USE DEF IInv
<1>1. /\ current_chunk # None /\ current_chunk \in Bucket
      /\ chain \in Seq(Bucket) /\ chain # <<>>
      /\ Received = Append(chain, current_chunk)
  BY DEF ReadMergedHeader, ReaderInv, Received, TypeOK
<1>2. /\ current_chunk' = chain[Len(chain)] /\ chain' = SubSeq(chain, 1, Len(chain) - 1)
      /\ current_chunk' \in Bucket /\ chain' \in Seq(Bucket)
      /\ Append(chain', current_chunk') = chain
  BY <1>1 DEF ReadMergedHeader
<1>3. current_chunk' # None
  BY <1>2, NoneAssumption, FreshFacts
<1>4. Received' = chain
  BY <1>2, <1>3 DEF Received
<1>5. /\ Elements(Received) = Elements(Received') \cup {current_chunk}
      /\ current_chunk \notin Elements(Received') /\ IsInjective(Received')
  BY <1>1, <1>4, ElementsAppend DEF KeptInv
<1>6. Buckets({}, {}, Nothing, {current_chunk}) /\ {current_chunk} \subseteq Owned
  BY <1>5 DEF ReadMergedHeader, Owned
<1>7. /\ Taking({}, {}, Nothing, {current_chunk})
      /\ \A c \in Bucket : Times(c, writes') = Times(c, writes)
  BY <1>6, NothingWritten
<1>8. Owned' = (Owned \ {current_chunk}) \cup {}
  <2>1. current_chunk \notin Kept(Cached, Chains) \cup Kept(Player, headers)
    BY <1>5 DEF KeptInv
  <2>. QED  BY <1>5, <2>1, OthersKeep DEF Owned, ReadMergedHeader
<1>9. /\ PoolInv' /\ g_queue' \in SUBSET Bucket
      /\ g_bucket_id' = g_pool_size * g_add_pool_count'
      /\ g_add_pool_count' \in 1..MAX_ADD_POOL_SIZE_COUNT
      /\ ref_count' \in [Bucket -> Nat]
      /\ writes' \in [Player -> Seq(Bucket)]
  BY <1>6, <1>7, <1>8, BucketsStep
<1>10. TypeOK'
  BY <1>2, <1>9 DEF TypeOK, ReadMergedHeader
<1>11. KeptInv'
  BY <1>5, OthersKeep DEF KeptInv, ReadMergedHeader
<1>12. ReaderInv'
  BY <1>3, <1>5, <1>7, OwnedBuckets DEF ReaderInv, ReadMergedHeader
<1>13. HeaderInv'
  BY DEF HeaderInv, ReadMergedHeader
<1>. QED  BY <1>9, <1>10, <1>11, <1>12, <1>13

-----------------------------------------------------------------------------
(* The end of a stream. *)

\* The cache that clear_cache leaves is empty.
LEMMA StopStreamFacts ==
  ASSUME IInv, StopStream
  PROVE  /\ AllCached = Kept(Cached, Chains)
         /\ Kept(Cached, Chains)' = {}
         /\ Apart(Cached, Chains)'
         /\ publishing' \in BOOLEAN
         /\ key_cache' \in [Cached -> Seq(Bucket) \cup {None}]
         /\ consumer' \in [Player -> {"none", "waiting", "running", "ended"}]
         /\ \A p \in Player : consumer'[p] = "none" <=> consumer[p] = "none"
<1>1. AllCached = Kept(Cached, Chains)
  BY DEF AllCached, Kept, Chains, ChainsOf, Chain
<1>2. \A k \in Cached : Chains'[k] = <<>> /\ DOMAIN Chains'[k] = {}
  BY DEF StopStream, Chains, ChainsOf, Chain
<1>3. \A k \in Cached : Elements(Chains'[k]) = {}
  BY <1>2 DEF Elements
<1>4. Kept(Cached, Chains)' = {} /\ Apart(Cached, Chains)'
  BY <1>2, <1>3 DEF Kept, Apart
<1>. QED  BY <1>1, <1>4 DEF StopStream

\* The invariant is about everything but whether the stream is published.
LEMMA SameInv ==
  ASSUME IInv, publishing' \in BOOLEAN,
         UNCHANGED <<g_queue, g_bucket_id, g_add_pool_count, ref_count, current_chunk,
                     chain, merging, key_cache, consumer, headers, writes>>
  PROVE  IInv'
<1>1. Received' = Received /\ Chains' = Chains
  BY DEF Received, Chains, ChainsOf, Chain
<1>2. /\ Kept(Cached, Chains)' = Kept(Cached, Chains)
      /\ Kept(Player, headers)' = Kept(Player, headers)
      /\ Owned' = Owned
  BY <1>1 DEF Kept, Owned
<1>3. TypeOK'
  BY DEF IInv, TypeOK
<1>4. PoolInv'
  BY <1>2 DEF IInv, PoolInv
<1>5. KeptInv'
  BY <1>1, <1>2 DEF IInv, KeptInv, Apart
<1>6. ReaderInv'
  BY <1>1 DEF IInv, ReaderInv
<1>7. HeaderInv'
  BY DEF IInv, HeaderInv
<1>. QED  BY <1>3, <1>4, <1>5, <1>6, <1>7 DEF IInv

\* publish_stream touches no bucket.
LEMMA PublishStep ==
  ASSUME IInv, Publish
  PROVE  IInv'
<1>1. /\ UNCHANGED <<g_queue, g_bucket_id, g_add_pool_count, ref_count, current_chunk,
                     chain, merging, key_cache, consumer, headers, writes>>
      /\ publishing' = TRUE
  BY DEF Publish, poolVars, readerVars
<1>. QED  BY <1>1, SameInv DEF IInv

\* The stream ends and its publisher stays.
LEMMA UnpublishStep ==
  ASSUME IInv, Unpublish
  PROVE  IInv'
<1> USE DEF IInv
<1>1. StopStream /\ Buckets({}, {}, Nothing, AllCached) /\ headers' = headers
      /\ current_chunk' = current_chunk /\ chain' = chain /\ merging' = merging
  BY DEF Unpublish, readerVars
<1>2. /\ Kept(Cached, Chains)' = {} /\ Apart(Cached, Chains)'
      /\ AllCached = Kept(Cached, Chains) /\ AllCached \subseteq Owned
  BY <1>1, StopStreamFacts DEF Owned
<1>3. Received' = Received
  BY <1>1 DEF Received
<1>4. Kept(Player, headers)' = Kept(Player, headers) /\ Apart(Player, headers)'
  BY <1>1 DEF KeptInv, Kept, Apart
<1>5. /\ Taking({}, {}, Nothing, AllCached)
      /\ \A b \in Bucket : Times(b, writes') = Times(b, writes)
  BY <1>1, <1>2, NothingWritten
<1>6. Owned' = (Owned \ AllCached) \cup {}
  BY <1>2, <1>3, <1>4 DEF Owned, KeptInv
<1>7. /\ PoolInv' /\ g_queue' \in SUBSET Bucket
      /\ g_bucket_id' = g_pool_size * g_add_pool_count'
      /\ g_add_pool_count' \in 1..MAX_ADD_POOL_SIZE_COUNT
      /\ ref_count' \in [Bucket -> Nat]
      /\ writes' \in [Player -> Seq(Bucket)]
  BY <1>1, <1>5, <1>6, BucketsStep
<1>8. TypeOK'
  BY <1>1, <1>7, StopStreamFacts DEF TypeOK
<1>9. KeptInv'
  BY <1>2, <1>3, <1>4 DEF KeptInv
<1>10. ReaderInv'
  BY <1>1, <1>3, <1>5, OwnedBuckets DEF ReaderInv
<1>11. HeaderInv'
  BY <1>1, StopStreamFacts DEF HeaderInv
<1>. QED  BY <1>7, <1>8, <1>9, <1>10, <1>11

\* The publisher goes, with its stream and what it was receiving.
LEMMA DisconnectStep ==
  ASSUME IInv, Disconnect
  PROVE  IInv'
<1> USE DEF IInv
<1> DEFINE drop == AllCached \cup Elements(chain) \cup {current_chunk}
<1>1. StopStream /\ Buckets({}, {}, Nothing, drop) /\ headers' = headers
      /\ current_chunk' = None /\ chain' = <<>> /\ merging' = FALSE
      /\ current_chunk # None
  BY DEF Disconnect
<1>2. /\ Kept(Cached, Chains)' = {} /\ Apart(Cached, Chains)'
      /\ AllCached = Kept(Cached, Chains)
  BY <1>1, StopStreamFacts
<1>3. Elements(Received) = Elements(chain) \cup {current_chunk}
  <2>1. chain \in Seq(Bucket) /\ current_chunk \in Bucket
    BY <1>1 DEF TypeOK
  <2>. QED  BY <1>1, <2>1, ElementsAppend DEF Received
<1>4. Received' = <<>> /\ Elements(Received') = {} /\ IsInjective(Received')
  <2>1. Received' = <<>> /\ DOMAIN <<>> = {}
    BY <1>1 DEF Received
  <2>. QED  BY <2>1 DEF Elements, IsInjective
<1>5. drop = Kept(Cached, Chains) \cup Elements(Received) /\ drop \subseteq Owned
  BY <1>2, <1>3 DEF Owned
<1>6. Kept(Player, headers)' = Kept(Player, headers) /\ Apart(Player, headers)'
  BY <1>1 DEF KeptInv, Kept, Apart
<1> HIDE DEF drop
<1>7. Taking({}, {}, Nothing, drop)
  BY <1>1, <1>5, NothingWritten
<1>8. Owned' = (Owned \ drop) \cup {}
  BY <1>2, <1>4, <1>5, <1>6 DEF Owned, KeptInv
<1>9. /\ PoolInv' /\ g_queue' \in SUBSET Bucket
      /\ g_bucket_id' = g_pool_size * g_add_pool_count'
      /\ g_add_pool_count' \in 1..MAX_ADD_POOL_SIZE_COUNT
      /\ ref_count' \in [Bucket -> Nat]
      /\ writes' \in [Player -> Seq(Bucket)]
  BY <1>1, <1>7, <1>8, BucketsStep
<1>10. TypeOK'
  <2>1. <<>> \in Seq(Bucket)
    OBVIOUS
  <2>2. headers' \in [Player -> Seq(Bucket)]
    BY <1>1 DEF TypeOK
  <2>3. /\ publishing' \in BOOLEAN
        /\ key_cache' \in [Cached -> Seq(Bucket) \cup {None}]
        /\ consumer' \in [Player -> {"none", "waiting", "running", "ended"}]
    BY <1>1, StopStreamFacts
  <2>. QED  BY <1>1, <1>9, <2>1, <2>2, <2>3 DEF TypeOK
<1>11. KeptInv'
  BY <1>2, <1>4, <1>6 DEF KeptInv
<1>12. ReaderInv'
  BY <1>1, <1>4 DEF ReaderInv
<1>13. HeaderInv'
  BY <1>1, StopStreamFacts DEF HeaderInv
<1>. QED  BY <1>9, <1>10, <1>11, <1>12, <1>13

-----------------------------------------------------------------------------
(* The players. *)

\* The reader and the cache keep what they kept.
LEMMA ReaderKeeps ==
  ASSUME TypeOK, UNCHANGED <<key_cache, current_chunk, chain>>
  PROVE  /\ Received' = Received
         /\ Chains' = Chains
         /\ Kept(Cached, Chains)' = Kept(Cached, Chains)
         /\ Apart(Cached, Chains) => Apart(Cached, Chains)'
  BY DEF Received, Chains, ChainsOf, Chain, Kept, Apart

\* A consumer gets or gives up its header buckets.
LEMMA HeadersReplaced ==
  ASSUME headers \in [Player -> Seq(Bucket)], headers' \in [Player -> Seq(Bucket)],
         Apart(Player, headers), NEW p \in Player,
         \A q \in Player : q # p => headers'[q] = headers[q]
  PROVE  Kept(Player, headers') =
           Exchanged(Kept(Player, headers), Elements(headers[p]), Elements(headers'[p]))
  BY KeptReplaced

\* free_consumer frees the header buckets of the consumer.
LEMMA UnplayStep ==
  ASSUME IInv, NEW p \in Player, Unplay(p)
  PROVE  IInv'
<1> USE DEF IInv
<1> DEFINE empty == <<>>
<1>1. /\ Buckets({}, {}, Nothing, Elements(headers[p]))
      /\ headers' = [headers EXCEPT ![p] = empty]
      /\ consumer' = [consumer EXCEPT ![p] = "none"]
      /\ current_chunk' = current_chunk /\ chain' = chain /\ merging' = merging
      /\ publishing' = publishing /\ key_cache' = key_cache
  BY DEF Unplay, readerVars
<1>2. headers \in [Player -> Seq(Bucket)] /\ Apart(Player, headers)
  BY DEF TypeOK, KeptInv
<1>3. /\ empty \in Seq(Bucket) /\ Len(empty) = 0
      /\ Elements(empty) = {} /\ IsInjective(empty)
  BY DEF Elements, IsInjective
<1> HIDE DEF empty
<1>4. /\ headers' \in [Player -> Seq(Bucket)] /\ Apart(Player, headers')
      /\ Kept(Player, headers') = (Kept(Player, headers) \ Elements(headers[p])) \cup {}
      /\ Elements(headers[p]) \subseteq Kept(Player, headers)
  <2>1. /\ headers' \in [Player -> Seq(Bucket)] /\ headers'[p] = empty
        /\ \A q \in Player : q # p => headers'[q] = headers[q]
    BY <1>1, <1>2, <1>3
  <2>2. /\ IsInjective(headers'[p])
        /\ Elements(headers'[p]) \cap Kept(Player, headers) \subseteq Elements(headers[p])
    BY <1>3, <2>1
  <2>3. Apart(Player, headers')
    BY <1>2, <2>1, <2>2, Replaced
  <2>4. Kept(Player, headers') =
          Exchanged(Kept(Player, headers), Elements(headers[p]), Elements(headers'[p]))
    BY <1>2, <2>1, HeadersReplaced
  <2>5. Elements(headers[p]) \subseteq Kept(Player, headers)
    BY DEF Kept
  <2>. QED  BY <1>3, <2>1, <2>3, <2>4, <2>5 DEF Exchanged
<1>5. Elements(headers[p]) \subseteq Owned
  BY <1>4 DEF Owned
<1>6. /\ Taking({}, {}, Nothing, Elements(headers[p]))
      /\ \A b \in Bucket : Times(b, writes') = Times(b, writes)
  BY <1>1, <1>5, NothingWritten
<1>7. Owned' = (Owned \ Elements(headers[p])) \cup {}
  BY <1>1, <1>4, ReaderKeeps DEF Owned, KeptInv
<1>8. /\ PoolInv' /\ g_queue' \in SUBSET Bucket
      /\ g_bucket_id' = g_pool_size * g_add_pool_count'
      /\ g_add_pool_count' \in 1..MAX_ADD_POOL_SIZE_COUNT
      /\ ref_count' \in [Bucket -> Nat]
      /\ writes' \in [Player -> Seq(Bucket)]
  BY <1>1, <1>6, <1>7, BucketsStep
<1>9. TypeOK'
  BY <1>1, <1>4, <1>8 DEF TypeOK
<1>10. KeptInv'
  BY <1>1, <1>4, ReaderKeeps DEF KeptInv
<1>11. ReaderInv'
  BY <1>1, <1>6, ReaderKeeps, OwnedBuckets DEF ReaderInv
<1>12. HeaderInv'
  BY <1>1, <1>2, <1>3, SizeAssumption DEF HeaderInv, TypeOK
<1>. QED  BY <1>8, <1>9, <1>10, <1>11, <1>12

\* A bucket that is only written is counted by its write alone.
LEMMA SendStep ==
  ASSUME IInv, NEW p \in Player, NEW t \in Bucket, Send(p, t)
  PROVE  IInv'
<1> USE DEF IInv
<1> DEFINE out == [Nothing EXCEPT ![p] = <<t>>]
<1>1. /\ Buckets({t}, {}, out, {})
      /\ headers' = headers /\ consumer' = consumer
      /\ current_chunk' = current_chunk /\ chain' = chain /\ merging' = merging
      /\ publishing' = publishing /\ key_cache' = key_cache
  BY DEF Send, readerVars
<1>2. Elements(<<t>>) = {t} /\ Elements(<<>>) = {}
  <2>1. DOMAIN <<t>> = {1} /\ <<t>>[1] = t /\ DOMAIN <<>> = {}
    OBVIOUS
  <2>. QED  BY <2>1 DEF Elements
<1>3. /\ out \in [Player -> Seq(Bucket)]
      /\ out[p] = <<t>> /\ \A q \in Player : q # p => out[q] = <<>>
  <2>1. <<t>> \in Seq(Bucket) /\ <<>> \in Seq(Bucket)
    OBVIOUS
  <2>2. Nothing \in [Player -> Seq(Bucket)] /\ \A q \in Player : Nothing[q] = <<>>
    BY <2>1 DEF Nothing
  <2>. QED  BY <2>1, <2>2
<1> HIDE DEF out
<1>4. Taking({t}, {}, out, {})
  BY <1>2, <1>3 DEF Taking
<1>5. Kept(Player, headers)' = Kept(Player, headers) /\ Apart(Player, headers)'
  BY <1>1 DEF KeptInv, Kept, Apart
<1>6. Owned' = (Owned \ {}) \cup {}
  BY <1>1, <1>5, ReaderKeeps DEF Owned
<1>7. /\ PoolInv' /\ g_queue' \in SUBSET Bucket
      /\ g_bucket_id' = g_pool_size * g_add_pool_count'
      /\ g_add_pool_count' \in 1..MAX_ADD_POOL_SIZE_COUNT
      /\ ref_count' \in [Bucket -> Nat]
      /\ writes' \in [Player -> Seq(Bucket)]
  BY <1>1, <1>4, <1>6, BucketsStep
<1>8. TypeOK'
  BY <1>1, <1>7 DEF TypeOK
<1>9. KeptInv'
  BY <1>1, <1>5, ReaderKeeps DEF KeptInv
<1>10. ReaderInv'
  <2>1. ASSUME NEW b \in Elements(Received)  PROVE Times(b, writes') = 0
    <3>1. b \in Bucket /\ b \in Owned /\ Times(b, writes) = 0
      BY OwnedBuckets DEF ReaderInv, Owned
    <3>2. b # t
      BY <1>1, <1>4, <3>1, TakenAlone
    <3>3. \A q \in Player : b \notin Elements(out[q])
      BY <1>2, <1>3, <3>2
    <3>4. Times(b, out) = 0
      BY <1>1, <1>4, <3>1, <3>3, CountFacts
    <3>. QED  BY <1>1, <1>4, <3>1, <3>4, CountFacts
  <2>. QED  BY <1>1, <2>1, ReaderKeeps DEF ReaderInv
<1>11. HeaderInv'
  BY <1>1 DEF HeaderInv
<1>. QED  BY <1>7, <1>8, <1>9, <1>10, <1>11

\* The callback of a write gives its reference back, and the last one the bucket.
LEMMA WriteDoneStep ==
  ASSUME IInv, NEW p \in Player, WriteDone(p)
  PROVE  IInv'
<1> USE DEF IInv
<1> DEFINE b == Head(writes[p])
           one == [q \in Player |-> IF q = p THEN <<b>> ELSE <<>>]
<1>1. /\ writes \in [Player -> Seq(Bucket)] /\ ref_count \in [Bucket -> Nat]
      /\ writes[p] \in Seq(Bucket) /\ writes[p] # <<>>
  BY DEF WriteDone, TypeOK
<1>2. /\ b \in Bucket /\ Tail(writes[p]) \in Seq(Bucket)
      /\ <<b>> \o Tail(writes[p]) = writes[p]
  BY <1>1
<1>3. /\ writes' = [writes EXCEPT ![p] = Tail(writes[p])]
      /\ ref_count' = [ref_count EXCEPT ![b] = @ - 1]
      /\ g_queue' = IF ref_count'[b] = 0 THEN g_queue \cup {b} ELSE g_queue
      /\ g_bucket_id' = g_bucket_id /\ g_add_pool_count' = g_add_pool_count
      /\ headers' = headers /\ consumer' = consumer
      /\ current_chunk' = current_chunk /\ chain' = chain /\ merging' = merging
      /\ publishing' = publishing /\ key_cache' = key_cache
  BY DEF WriteDone, Freed, readerVars
<1> HIDE DEF b
<1>4. /\ one \in [Player -> Seq(Bucket)]
      /\ writes' \in [Player -> Seq(Bucket)]
      /\ \A q \in Player : one[q] = IF q = p THEN <<b>> ELSE <<>>
      /\ \A q \in Player : writes'[q] = IF q = p THEN Tail(writes[p]) ELSE writes[q]
  BY <1>1, <1>2, <1>3
<1>5. writes = [q \in Player |-> one[q] \o writes'[q]]
  <2>1. \A q \in Player : one[q] \o writes'[q] = writes[q]
    <3> SUFFICES ASSUME NEW q \in Player  PROVE one[q] \o writes'[q] = writes[q]
      OBVIOUS
    <3>1. CASE q = p
      BY <1>2, <1>4, <3>1
    <3>2. CASE q # p
      <4>1. one[q] = <<>> /\ writes'[q] = writes[q] /\ writes[q] \in Seq(Bucket)
        BY <1>1, <1>4, <3>2
      <4>2. <<>> \o writes[q] = writes[q]
        BY <4>1
      <4>. QED  BY <4>1, <4>2
    <3>. QED  BY <3>1, <3>2
  <2>2. writes = [q \in Player |-> writes[q]]
    BY <1>1
  <2>. QED  BY <2>1, <2>2
<1>6. Times(b, one) = 1
  BY <1>2, TimesOne
<1> HIDE DEF one
<1>7. \A c \in Bucket : /\ Times(c, writes) \in Nat /\ Times(c, writes') \in Nat
                        /\ Times(c, writes) = Times(c, one) + Times(c, writes')
                        /\ c # b => Times(c, one) = 0
  <2> SUFFICES ASSUME NEW c \in Bucket
               PROVE  /\ Times(c, writes) \in Nat /\ Times(c, writes') \in Nat
                      /\ Times(c, writes) = Times(c, one) + Times(c, writes')
                      /\ c # b => Times(c, one) = 0
    OBVIOUS
  <2>1. Times(c, writes) \in Nat /\ Times(c, writes') \in Nat
    BY <1>1, <1>4, PlacesFinite
  <2>2. Times(c, [q \in Player |-> one[q] \o writes'[q]]) = Times(c, one) + Times(c, writes')
    BY <1>4, TimesAdd
  <2>3. Times(c, writes) = Times(c, one) + Times(c, writes')
    BY <1>5, <2>2
  <2>4. ASSUME c # b  PROVE Times(c, one) = 0
    <3>1. DOMAIN <<b>> = {1} /\ <<b>>[1] = b /\ DOMAIN <<>> = {}
      OBVIOUS
    <3>2. Elements(<<b>>) = {b} /\ Elements(<<>>) = {}
      BY <3>1 DEF Elements
    <3>3. \A q \in Player : c \notin Elements(one[q])
      BY <1>4, <2>4, <3>2
    <3>. QED  BY <1>4, <3>3, TimesZero
  <2>. QED  BY <2>1, <2>3, <2>4
<1>8. /\ \A c \in Bucket : c # b => /\ ref_count'[c] = ref_count[c]
                                    /\ Times(c, writes') = Times(c, writes)
      /\ ref_count'[b] = ref_count[b] - 1 /\ Times(b, writes) = 1 + Times(b, writes')
  <2>1. /\ \A c \in Bucket : c # b => ref_count'[c] = ref_count[c]
        /\ ref_count'[b] = ref_count[b] - 1
    BY <1>1, <1>2, <1>3
  <2>2. /\ \A c \in Bucket : c # b => Times(c, writes') = Times(c, writes)
        /\ Times(b, writes) = 1 + Times(b, writes')
    BY <1>2, <1>6, <1>7
  <2>. QED  BY <2>1, <2>2
<1>9. Kept(Player, headers)' = Kept(Player, headers) /\ Apart(Player, headers)'
  BY <1>3 DEF KeptInv, Kept, Apart
<1>10. Owned' = Owned
  BY <1>3, <1>9, ReaderKeeps DEF Owned
<1>11. \A c \in Bucket : ref_count'[c] = (IF c \in Owned' THEN 1 ELSE 0) + Times(c, writes')
  <2>1. \A c \in Bucket : ref_count[c] = (IF c \in Owned THEN 1 ELSE 0) + Times(c, writes)
    BY DEF PoolInv
  <2>2. ASSUME NEW c \in Bucket, c # b
        PROVE  ref_count'[c] = (IF c \in Owned' THEN 1 ELSE 0) + Times(c, writes')
    BY <1>8, <1>10, <2>1, <2>2
  <2>3. ref_count'[b] = (IF b \in Owned' THEN 1 ELSE 0) + Times(b, writes')
    BY <1>2, <1>7, <1>8, <1>10, <2>1
  <2>. QED  BY <2>2, <2>3
<1>12. \A c \in Bucket : ref_count'[c] \in Nat
  BY <1>7, <1>11
<1>13. PoolInv'
  <2>1. \A c \in Bucket : /\ c \in g_queue <=> c <= g_bucket_id /\ ref_count[c] = 0
                          /\ c > g_bucket_id => ref_count[c] = 0
    BY DEF PoolInv
  <2>2. ref_count[b] # 0 /\ b <= g_bucket_id
    <3>1. ref_count[b] = ref_count'[b] + 1 /\ ref_count'[b] \in Nat
      BY <1>1, <1>2, <1>8, <1>12
    <3>2. b \in Nat /\ g_bucket_id \in Nat
      BY <1>2, FreshFacts
    <3>. QED  BY <1>2, <2>1, <3>1, <3>2
  <2>3. \A c \in Bucket : c \in g_queue' <=> c <= g_bucket_id' /\ ref_count'[c] = 0
    BY <1>2, <1>3, <1>8, <2>1, <2>2
  <2>4. \A c \in Bucket : c > g_bucket_id' => ref_count'[c] = 0
    <3>1. b \in Nat /\ g_bucket_id \in Nat
      BY <1>2, FreshFacts
    <3>. QED  BY <1>3, <1>8, <2>1, <2>2, <3>1
  <2>. QED  BY <1>11, <2>3, <2>4 DEF PoolInv
<1>14. TypeOK'
  <2>1. ref_count' = [c \in Bucket |-> ref_count'[c]]
    BY <1>1, <1>3
  <2>2. ref_count' \in [Bucket -> Nat]
    BY <1>12, <2>1
  <2>3. g_queue' \in SUBSET Bucket
    BY <1>2, <1>3 DEF TypeOK
  <2>. QED  BY <1>3, <1>4, <2>2, <2>3 DEF TypeOK
<1>15. KeptInv'
  BY <1>3, <1>9, ReaderKeeps DEF KeptInv
<1>16. ReaderInv'
  <2>1. ASSUME NEW c \in Elements(Received)  PROVE Times(c, writes') = 0
    <3>1. c \in Bucket /\ Times(c, writes) = 0
      BY OwnedBuckets DEF ReaderInv
    <3>. QED  BY <1>7, <1>8, <3>1
  <2>. QED  BY <1>3, <2>1, ReaderKeeps DEF ReaderInv
<1>17. HeaderInv'
  BY <1>3 DEF HeaderInv
<1>. QED  BY <1>13, <1>14, <1>15, <1>16, <1>17

\* What a player may be sent from the cache and from its header buckets.
LEMMA ChainFacts ==
  ASSUME TypeOK, NEW k \in Cached
  PROVE  Chain(k) \in Seq(Bucket) /\ Elements(Chain(k)) \subseteq Kept(Cached, Chains)
<1>1. Chain(k) \in Seq(Bucket)
  BY DEF Chain, TypeOK
<1>2. Chains[k] = Chain(k)
  BY DEF Chains, ChainsOf, Chain
<1>. QED  BY <1>1, <1>2 DEF Kept

\* The headers that are written for a player are among those its consumer keeps.
LEMMA WrappedFacts ==
  ASSUME NEW s \in Seq(Bucket), NEW n \in 1..Len(s)
  PROVE  Wrapped(s, n) \in Seq(Bucket) /\ Elements(Wrapped(s, n)) \subseteq Elements(s)
<1>1. /\ SubSeq(s, 1, n) \in Seq(Bucket)
      /\ DOMAIN SubSeq(s, 1, n) = 1..n
      /\ \A i \in 1..n : i \in DOMAIN s /\ SubSeq(s, 1, n)[i] = s[i]
  OBVIOUS
<1>. QED  BY <1>1 DEF Wrapped, Elements

\* A new consumer keeps new buckets, whatever it is sent at once.
LEMMA NewConsumer ==
  ASSUME IInv, NEW p \in Player, NEW own \in Seq(Bucket), Len(own) = HeaderNum,
         IsInjective(own), consumer[p] = "none",
         headers' \in [Player -> Seq(Bucket)], headers'[p] = own,
         \A q \in Player : q # p => headers'[q] = headers[q],
         consumer' \in [Player -> {"none", "waiting", "running", "ended"}],
         consumer'[p] # "none",
         \A q \in Player : q # p => consumer'[q] = consumer[q],
         UNCHANGED <<current_chunk, chain, merging, publishing, key_cache>>,
         NEW lent, NEW out, Taking(lent, Elements(own), out, {}),
         Buckets(lent, Elements(own), out, {}),
         \A q \in Player : Elements(out[q]) \cap Elements(Received) = {}
  PROVE  IInv'
<1> USE DEF IInv
<1>1. headers \in [Player -> Seq(Bucket)] /\ Apart(Player, headers)
  BY DEF TypeOK, KeptInv
<1>2. Elements(own) \cap Owned = {}
  BY TakenAlone
<1>3. /\ headers' \in [Player -> Seq(Bucket)] /\ headers'[p] = own
      /\ \A q \in Player : q # p => headers'[q] = headers[q]
  BY <1>1
<1>4. Elements(headers[p]) = {}
  <2>1. Len(headers[p]) = 0 /\ headers[p] \in Seq(Bucket)
    BY <1>1 DEF HeaderInv
  <2>2. DOMAIN headers[p] = {}
    BY <2>1
  <2>. QED  BY <2>2 DEF Elements
<1>5. Elements(own) \cap Kept(Player, headers) = {}
  BY <1>2 DEF Owned
<1>6. Apart(Player, headers')
  <2>1. /\ IsInjective(headers'[p])
        /\ Elements(headers'[p]) \cap Kept(Player, headers) \subseteq Elements(headers[p])
    BY <1>3, <1>5
  <2>. QED  BY <1>1, <1>3, <2>1, Replaced
<1>7. Kept(Player, headers') = Kept(Player, headers) \cup Elements(own)
  <2>1. Kept(Player, headers') =
          Exchanged(Kept(Player, headers), Elements(headers[p]), Elements(headers'[p]))
    BY <1>1, <1>3, HeadersReplaced
  <2>. QED  BY <1>3, <1>4, <2>1 DEF Exchanged
<1>8. Owned' = (Owned \ {}) \cup Elements(own)
  BY <1>7, ReaderKeeps DEF Owned
<1>9. /\ PoolInv' /\ g_queue' \in SUBSET Bucket
      /\ g_bucket_id' = g_pool_size * g_add_pool_count'
      /\ g_add_pool_count' \in 1..MAX_ADD_POOL_SIZE_COUNT
      /\ ref_count' \in [Bucket -> Nat]
      /\ writes' \in [Player -> Seq(Bucket)]
  BY <1>8, BucketsStep
<1>10. TypeOK'
  BY <1>3, <1>9 DEF TypeOK
<1>11. KeptInv'
  BY <1>2, <1>6, <1>7, ReaderKeeps DEF KeptInv, Owned
<1>12. ReaderInv'
  <2>1. ASSUME NEW b \in Elements(Received)  PROVE Times(b, writes') = 0
    <3>1. b \in Bucket /\ Times(b, writes) = 0 /\ \A q \in Player : b \notin Elements(out[q])
      BY OwnedBuckets DEF ReaderInv
    <3>2. /\ Times(b, writes') = Times(b, writes) + Times(b, out)
          /\ Times(b, out) = 0 <=> \A q \in Player : b \notin Elements(out[q])
      BY <3>1, CountFacts
    <3>. QED  BY <3>1, <3>2
  <2>. QED  BY <2>1, ReaderKeeps DEF ReaderInv
<1>13. HeaderInv'
  <2>1. HeaderNum # 0
    BY SizeAssumption
  <2>. QED  BY <1>3, <2>1 DEF HeaderInv
<1>. QED  BY <1>9, <1>10, <1>11, <1>12, <1>13

\* play_stream: the player waits, or is sent the cache at once.
LEMMA PlayStep ==
  ASSUME IInv, NEW p \in Player, NEW own \in HeaderBuckets, NEW t \in Bucket,
         NEW n \in Written, Play(p, own, t, n)
  PROVE  IInv'
<1> USE DEF IInv
<1>1. own \in Seq(Bucket) /\ Len(own) = HeaderNum /\ IsInjective(own)
  <2>1. own \in [1..HeaderNum -> Bucket] /\ IsInjective(own) /\ HeaderNum \in Nat
    BY SizeAssumption DEF HeaderBuckets, Injection
  <2>. QED  BY <2>1
<1>2. /\ consumer[p] = "none"
      /\ headers' \in [Player -> Seq(Bucket)] /\ headers'[p] = own
      /\ \A q \in Player : q # p => headers'[q] = headers[q]
      /\ UNCHANGED <<current_chunk, chain, merging, publishing, key_cache>>
      /\ consumer \in [Player -> {"none", "waiting", "running", "ended"}]
  BY <1>1 DEF Play, readerVars, TypeOK
<1>3. Elements(own) \subseteq Bucket
  BY <1>1, ElementsAre
<1>4. CASE /\ consumer' = [consumer EXCEPT ![p] = "waiting"]
           /\ Buckets({}, Elements(own), Nothing, {})
  <2>1. Taking({}, Elements(own), Nothing, {})
    BY <1>3, <1>4, NothingWritten
  <2>2. \A q \in Player : Elements(Nothing[q]) \cap Elements(Received) = {}
    BY DEF Nothing, Elements
  <2>3. /\ consumer' \in [Player -> {"none", "waiting", "running", "ended"}]
        /\ consumer'[p] # "none"
        /\ \A q \in Player : q # p => consumer'[q] = consumer[q]
    BY <1>2, <1>4
  <2>. QED  BY <1>1, <1>2, <1>4, <2>1, <2>2, <2>3, NewConsumer
<1>5. ASSUME NEW out, consumer' = [consumer EXCEPT ![p] = "running"],
             out = [Nothing EXCEPT ![p] =
                      <<t>> \o Wrapped(own, n) \o Chain("video_sh")
                            \o Chain("audio_sh") \o Chain("gop")],
             Buckets({t}, Elements(own), out, {})
      PROVE  IInv'
  <2> DEFINE a == <<t>>
             b == Wrapped(own, n)
             c == Chain("video_sh")
             d == Chain("audio_sh")
             e == Chain("gop")
             K == Kept(Cached, Chains)
  <2>1. a \in Seq(Bucket) /\ Elements(a) = {t}
    <3>1. a \in Seq(Bucket) /\ DOMAIN a = {1} /\ a[1] = t
      OBVIOUS
    <3>. QED  BY <3>1 DEF Elements
  <2>2. b \in Seq(Bucket) /\ Elements(b) \subseteq Elements(own)
    BY <1>1, WrappedFacts DEF Written
  <2>3. /\ c \in Seq(Bucket) /\ Elements(c) \subseteq K
        /\ d \in Seq(Bucket) /\ Elements(d) \subseteq K
        /\ e \in Seq(Bucket) /\ Elements(e) \subseteq K
    BY ChainFacts DEF Cached
  <2> HIDE DEF a, b, c, d, e, K
  <2>4. a \o b \in Seq(Bucket) /\ Elements(a \o b) = Elements(a) \cup Elements(b)
    BY <2>1, <2>2, ElementsConcat
  <2> DEFINE ab == a \o b
  <2> HIDE DEF ab
  <2>5. ab \o c \in Seq(Bucket) /\ Elements(ab \o c) = Elements(ab) \cup Elements(c)
    <3>1. ab \in Seq(Bucket)
      BY <2>4 DEF ab
    <3>. QED  BY <2>3, <3>1, ElementsConcat
  <2> DEFINE abc == ab \o c
  <2> HIDE DEF abc
  <2>6. abc \o d \in Seq(Bucket) /\ Elements(abc \o d) = Elements(abc) \cup Elements(d)
    <3>1. abc \in Seq(Bucket)
      BY <2>5 DEF abc
    <3>. QED  BY <2>3, <3>1, ElementsConcat
  <2> DEFINE abcd == abc \o d
  <2> HIDE DEF abcd
  <2>7. abcd \o e \in Seq(Bucket) /\ Elements(abcd \o e) = Elements(abcd) \cup Elements(e)
    <3>1. abcd \in Seq(Bucket)
      BY <2>6 DEF abcd
    <3>. QED  BY <2>3, <3>1, ElementsConcat
  <2> DEFINE sent == abcd \o e
  <2>8. Elements(sent) \subseteq {t} \cup Elements(own) \cup K /\ t \in Elements(sent)
    <3>1. /\ Elements(ab) = Elements(a) \cup Elements(b)
          /\ Elements(abc) = Elements(ab) \cup Elements(c)
          /\ Elements(abcd) = Elements(abc) \cup Elements(d)
          /\ Elements(sent) = Elements(abcd) \cup Elements(e)
      BY <2>4, <2>5, <2>6, <2>7 DEF ab, abc, abcd
    <3>. QED  BY <2>1, <2>2, <2>3, <3>1
  <2>9. out = [Nothing EXCEPT ![p] = sent] /\ sent \in Seq(Bucket)
    BY <1>5, <2>7 DEF abcd, abc, ab, a, b, c, d, e
  <2> HIDE DEF sent
  <2>10. /\ out \in [Player -> Seq(Bucket)] /\ out[p] = sent
         /\ \A q \in Player : q # p => Elements(out[q]) = {}
    <3>1. Nothing \in [Player -> Seq(Bucket)] /\ \A q \in Player : Elements(Nothing[q]) = {}
      BY DEF Nothing, Elements
    <3>. QED  BY <2>9, <3>1
  <2>11. /\ K \subseteq Owned /\ K \cap Elements(Received) = {}
         /\ Elements(Received) \subseteq Owned
    BY DEF K, KeptInv, Owned
  <2>12. Taking({t}, Elements(own), out, {})
    BY <1>3, <2>8, <2>10, <2>11 DEF Taking
  <2>13. \A q \in Player : Elements(out[q]) \cap Elements(Received) = {}
    <3>1. t \notin Owned /\ Elements(own) \cap Owned = {}
      BY <1>5, <2>12, TakenAlone
    <3>. QED  BY <2>8, <2>10, <2>11, <3>1
  <2>14. /\ consumer' \in [Player -> {"none", "waiting", "running", "ended"}]
         /\ consumer'[p] # "none"
         /\ \A q \in Player : q # p => consumer'[q] = consumer[q]
    BY <1>2, <1>5
  <2>15. Buckets({t}, Elements(own), out, {})
    BY <1>5
  <2>. QED  BY <1>1, <1>2, <2>12, <2>13, <2>14, <2>15, NewConsumer
<1>. QED  BY <1>4, <1>5 DEF Play

-----------------------------------------------------------------------------
(* A message goes to the cache. *)

\* What the cache keeps and what is freed of a message and of the cache before: all of
\* it is one or the other, and the cache keeps every bucket in one place.
CachedWell(cache, freed, message) ==
  /\ cache \in [Cached -> Seq(Bucket) \cup {None}]
  /\ Apart(Cached, ChainsOf(cache))
  /\ freed \subseteq Kept(Cached, Chains) \cup Elements(message)
  /\ Kept(Cached, ChainsOf(cache)) =
       Exchanged(Kept(Cached, Chains) \cup Elements(message), freed, {})

\* A sequence of buckets is not NULL.
LEMMA ChainIsNotNone ==
  ASSUME NEW s \in Seq(Bucket)
  PROVE  s # None
<1>1. \A b \in Bucket : b \in Nat
  BY DEF Bucket
<1>2. s \in [1..Len(s) -> Bucket] /\ Len(s) \in Nat
  OBVIOUS
<1>3. s \in [1..Len(s) -> Nat]
  BY <1>1, <1>2
<1>4. s \in Seq(Nat)
  BY <1>2, <1>3
<1>. QED  BY <1>4, NoneAssumption

\* The chains of a cache are sequences of buckets.
LEMMA ChainsOfType ==
  ASSUME NEW cache \in [Cached -> Seq(Bucket) \cup {None}]
  PROVE  ChainsOf(cache) \in [Cached -> Seq(Bucket)]
  BY DEF ChainsOf

\* A chain is replaced.
LEMMA ChainReplaced ==
  ASSUME NEW f \in [Cached -> Seq(Bucket)], NEW g \in [Cached -> Seq(Bucket)],
         Apart(Cached, f), NEW k \in Cached, \A j \in Cached : j # k => g[j] = f[j]
  PROVE  Kept(Cached, g) = Exchanged(Kept(Cached, f), Elements(f[k]), Elements(g[k]))
  BY KeptReplaced

\* The same of a cache, which may also be without a chain.
LEMMA CacheReplaced ==
  ASSUME NEW cache \in [Cached -> Seq(Bucket) \cup {None}],
         NEW next \in [Cached -> Seq(Bucket) \cup {None}],
         NEW k \in Cached, \A j \in Cached : j # k => next[j] = cache[j],
         Apart(Cached, ChainsOf(cache)),
         IsInjective(ChainsOf(next)[k]),
         Elements(ChainsOf(next)[k]) \cap Kept(Cached, ChainsOf(cache))
           \subseteq Elements(ChainsOf(cache)[k])
  PROVE  /\ Apart(Cached, ChainsOf(next))
         /\ Kept(Cached, ChainsOf(next)) =
              Exchanged(Kept(Cached, ChainsOf(cache)), Elements(ChainsOf(cache)[k]),
                        Elements(ChainsOf(next)[k]))
<1> DEFINE f == ChainsOf(cache)
           g == ChainsOf(next)
<1>1. /\ f \in [Cached -> Seq(Bucket)] /\ g \in [Cached -> Seq(Bucket)]
      /\ \A j \in Cached : j # k => g[j] = f[j]
  BY ChainsOfType DEF ChainsOf
<1>2. /\ Apart(Cached, f) /\ IsInjective(g[k])
      /\ Elements(g[k]) \cap Kept(Cached, f) \subseteq Elements(f[k])
  OBVIOUS
<1> HIDE DEF f, g
<1>3. Apart(Cached, g)
  BY <1>1, <1>2, Replaced, ZenonT(40)
<1>4. Kept(Cached, g) = Exchanged(Kept(Cached, f), Elements(f[k]), Elements(g[k]))
  BY <1>1, <1>2, ChainReplaced
<1>. QED  BY <1>3, <1>4 DEF f, g

\* A message of its own takes the place of a chain.
LEMMA PutInPlace ==
  ASSUME IInv, NEW message \in Seq(Bucket), IsInjective(message),
         Elements(message) \cap Kept(Cached, Chains) = {},
         NEW k \in Cached, NEW cache \in [Cached -> Seq(Bucket) \cup {None}],
         cache[k] = message, \A j \in Cached : j # k => cache[j] = key_cache[j]
  PROVE  CachedWell(cache, Elements(Chain(k)), message)
<1>1. /\ key_cache \in [Cached -> Seq(Bucket) \cup {None}]
      /\ cache \in [Cached -> Seq(Bucket) \cup {None}]
      /\ cache[k] = message /\ \A j \in Cached : j # k => cache[j] = key_cache[j]
  BY DEF IInv, TypeOK
<1>2. ChainsOf(cache)[k] = message /\ ChainsOf(key_cache)[k] = Chain(k)
  BY <1>1, ChainIsNotNone DEF ChainsOf, Chain
<1>3. Apart(Cached, ChainsOf(key_cache)) /\ Elements(Chain(k)) \subseteq Kept(Cached, Chains)
  BY ChainFacts DEF IInv, KeptInv, Chains
<1>4. /\ Apart(Cached, ChainsOf(cache))
      /\ Kept(Cached, ChainsOf(cache)) =
           Exchanged(Kept(Cached, ChainsOf(key_cache)), Elements(Chain(k)), Elements(message))
  <2>1. Elements(ChainsOf(cache)[k]) \cap Kept(Cached, ChainsOf(key_cache))
          \subseteq Elements(ChainsOf(key_cache)[k])
    BY <1>2 DEF Chains
  <2>. QED  BY <1>1, <1>2, <1>3, <2>1, CacheReplaced
<1>5. Kept(Cached, ChainsOf(cache)) =
        Exchanged(Kept(Cached, Chains) \cup Elements(message), Elements(Chain(k)), {})
  BY <1>3, <1>4 DEF Exchanged, Chains
<1>. QED  BY <1>1, <1>3, <1>4, <1>5 DEF CachedWell

\* The group of pictures goes, or becomes an empty one.
LEMMA DropGop ==
  ASSUME NEW message, NEW freed, NEW cache, CachedWell(cache, freed, message),
         NEW next \in [Cached -> Seq(Bucket) \cup {None}], next["gop"] \in {None, <<>>},
         \A j \in Cached : j # "gop" => next[j] = cache[j]
  PROVE  CachedWell(next, freed \cup Elements(ChainsOf(cache)["gop"]), message)
<1> DEFINE group == Elements(ChainsOf(cache)["gop"])
<1>1. /\ cache \in [Cached -> Seq(Bucket) \cup {None}] /\ "gop" \in Cached
      /\ next \in [Cached -> Seq(Bucket) \cup {None}]
      /\ \A j \in Cached : j # "gop" => next[j] = cache[j]
      /\ Apart(Cached, ChainsOf(cache))
  BY DEF CachedWell, Cached
<1>2. ChainsOf(next)["gop"] = <<>>
  BY <1>1 DEF ChainsOf
<1>3. Elements(ChainsOf(next)["gop"]) = {} /\ IsInjective(ChainsOf(next)["gop"])
  <2>1. DOMAIN <<>> = {}
    OBVIOUS
  <2>. QED  BY <1>2, <2>1 DEF Elements, IsInjective
<1>4. /\ Apart(Cached, ChainsOf(next))
      /\ Kept(Cached, ChainsOf(next)) =
           Exchanged(Kept(Cached, ChainsOf(cache)), group, Elements(ChainsOf(next)["gop"]))
  <2>1. Elements(ChainsOf(next)["gop"]) \cap Kept(Cached, ChainsOf(cache))
          \subseteq Elements(ChainsOf(cache)["gop"])
    BY <1>3
  <2>. QED  BY <1>1, <1>3, <2>1, CacheReplaced
<1>5. group \subseteq Kept(Cached, ChainsOf(cache))
  BY <1>1 DEF Kept
<1>. QED  BY <1>1, <1>3, <1>4, <1>5 DEF CachedWell, Exchanged

\* Nobody caches the message.
LEMMA NotCached ==
  ASSUME IInv, NEW message \in Seq(Bucket),
         Elements(message) \cap Kept(Cached, Chains) = {}
  PROVE  CachedWell(key_cache, Elements(message), message)
<1>1. key_cache \in [Cached -> Seq(Bucket) \cup {None}] /\ Apart(Cached, ChainsOf(key_cache))
  BY DEF IInv, TypeOK, KeptInv, Chains
<1>. QED  BY <1>1 DEF CachedWell, Chains, Exchanged

\* The message is added to the group of pictures, or ends it.
LEMMA AddToGop ==
  ASSUME IInv, NEW message \in Seq(Bucket), IsInjective(message),
         Elements(message) \cap Kept(Cached, Chains) = {},
         key_cache["gop"] # None
  PROVE  /\ CachedWell([key_cache EXCEPT !["gop"] = key_cache["gop"] \o message], {}, message)
         /\ CachedWell([key_cache EXCEPT !["gop"] = None],
                       Elements(key_cache["gop"] \o message), message)
<1> DEFINE gop == key_cache["gop"]
           longer == [key_cache EXCEPT !["gop"] = gop \o message]
           ended == [key_cache EXCEPT !["gop"] = None]
<1>1. /\ key_cache \in [Cached -> Seq(Bucket) \cup {None}] /\ "gop" \in Cached
      /\ Apart(Cached, ChainsOf(key_cache)) /\ Chains = ChainsOf(key_cache)
      /\ gop \in Seq(Bucket) /\ ChainsOf(key_cache)["gop"] = gop
  BY DEF IInv, TypeOK, KeptInv, Chains, ChainsOf, Cached
<1>2. IsInjective(gop) /\ Elements(gop) \subseteq Kept(Cached, Chains)
  BY <1>1 DEF Apart, IsInjective, Kept
<1>3. gop \o message \in Seq(Bucket) /\ gop \o message # None
  <2>1. gop \o message \in Seq(Bucket)
    BY <1>1
  <2>. QED  BY <2>1, ChainIsNotNone
<1>4. Elements(gop \o message) = Elements(gop) \cup Elements(message)
  BY <1>1, ElementsConcat
<1>5. IsInjective(gop \o message)
  <2>1. Elements(gop) \cap Elements(message) = {}
    BY <1>2
  <2>. QED  BY <1>1, <1>2, <2>1, InjectiveConcat
<1>6. /\ longer \in [Cached -> Seq(Bucket) \cup {None}]
      /\ \A j \in Cached : j # "gop" => longer[j] = key_cache[j]
      /\ ChainsOf(longer)["gop"] = gop \o message
  BY <1>1, <1>3 DEF ChainsOf
<1>7. /\ ended \in [Cached -> Seq(Bucket) \cup {None}]
      /\ \A j \in Cached : j # "gop" => ended[j] = key_cache[j]
      /\ ChainsOf(ended)["gop"] = <<>>
  BY <1>1 DEF ChainsOf
<1> HIDE DEF longer, ended, gop
<1>8. CachedWell(longer, {}, message)
  <2>1. Elements(ChainsOf(longer)["gop"]) \cap Kept(Cached, ChainsOf(key_cache))
          \subseteq Elements(ChainsOf(key_cache)["gop"])
    BY <1>1, <1>4, <1>6
  <2>2. /\ Apart(Cached, ChainsOf(longer))
        /\ Kept(Cached, ChainsOf(longer)) =
             Exchanged(Kept(Cached, ChainsOf(key_cache)),
                       Elements(ChainsOf(key_cache)["gop"]),
                       Elements(ChainsOf(longer)["gop"]))
    <3>1. IsInjective(ChainsOf(longer)["gop"])
      BY <1>5, <1>6
    <3>2. /\ key_cache \in [Cached -> Seq(Bucket) \cup {None}] /\ "gop" \in Cached
          /\ longer \in [Cached -> Seq(Bucket) \cup {None}]
          /\ \A j \in Cached : j # "gop" => longer[j] = key_cache[j]
          /\ Apart(Cached, ChainsOf(key_cache))
      BY <1>1, <1>6
    <3>. QED  BY <2>1, <3>1, <3>2, CacheReplaced, Zenon
  <2>3. Kept(Cached, ChainsOf(longer)) =
          Exchanged(Kept(Cached, Chains) \cup Elements(message), {}, {})
    BY <1>1, <1>2, <1>4, <1>6, <2>2 DEF Exchanged
  <2>. QED  BY <1>6, <2>2, <2>3 DEF CachedWell
<1>9. CachedWell(ended, Elements(gop \o message), message)
  <2>1. Elements(ChainsOf(ended)["gop"]) = {} /\ IsInjective(ChainsOf(ended)["gop"])
    <3>1. DOMAIN <<>> = {}
      OBVIOUS
    <3>. QED  BY <1>7, <3>1 DEF Elements, IsInjective
  <2>2. /\ Apart(Cached, ChainsOf(ended))
        /\ Kept(Cached, ChainsOf(ended)) =
             Exchanged(Kept(Cached, ChainsOf(key_cache)),
                       Elements(ChainsOf(key_cache)["gop"]),
                       Elements(ChainsOf(ended)["gop"]))
    <3>1. Elements(ChainsOf(ended)["gop"]) \cap Kept(Cached, ChainsOf(key_cache))
            \subseteq Elements(ChainsOf(key_cache)["gop"])
      BY <2>1
    <3>. QED  BY <1>1, <1>7, <2>1, <3>1, CacheReplaced
  <2>3. Kept(Cached, ChainsOf(ended)) =
          Exchanged(Kept(Cached, Chains) \cup Elements(message),
                    Elements(gop \o message), {})
    BY <1>1, <1>2, <1>4, <2>1, <2>2 DEF Exchanged
  <2>. QED  BY <1>2, <1>4, <1>7, <2>2, <2>3 DEF CachedWell
<1>. QED  BY <1>8, <1>9 DEF longer, ended, gop

\* The source loses no bucket of a message, and frees none that it keeps.
LEMMA CachingFacts ==
  ASSUME IInv, NEW message \in Seq(Bucket), IsInjective(message),
         Elements(message) \cap Kept(Cached, Chains) = {},
         NEW kind \in Kind, NEW kept \in Caching(kind, message)
  PROVE  CachedWell(kept.cache, kept.freed, message)
<1>1. key_cache \in [Cached -> Seq(Bucket) \cup {None}]
  BY DEF IInv, TypeOK
<1>2. ASSUME NEW k \in Cached
      PROVE  CachedWell([key_cache EXCEPT ![k] = message], Elements(Chain(k)), message)
  <2> DEFINE cache == [key_cache EXCEPT ![k] = message]
  <2>1. /\ cache \in [Cached -> Seq(Bucket) \cup {None}] /\ cache[k] = message
        /\ \A j \in Cached : j # k => cache[j] = key_cache[j]
    BY <1>1
  <2> HIDE DEF cache
  <2>2. CachedWell(cache, Elements(Chain(k)), message)
    BY <2>1, PutInPlace
  <2>. QED  BY <2>2 DEF cache
<1>3. CASE kind = "metadata"
  <2>1. /\ kept.cache = [key_cache EXCEPT !["metadata"] = message]
        /\ kept.freed = Elements(Chain("metadata")) /\ "metadata" \in Cached
    BY <1>3 DEF Caching, Cached
  <2>. QED  BY <1>2, <2>1
<1>4. CASE kind \in {"video_sh", "audio_sh"}
  <2> DEFINE mid == [key_cache EXCEPT ![kind] = message]
  <2> DEFINE left(gop) ==
        [cache |-> [key_cache EXCEPT ![kind] = message, !.gop = gop],
         freed |-> Elements(Chain(kind))
                     \cup (IF gop = key_cache.gop THEN {} ELSE Elements(Chain("gop")))]
  <2>0. Caching(kind, message) = {left(gop) : gop \in {key_cache.gop, None, <<>>}}
    BY <1>4 DEF Caching
  <2>1. PICK gop \in {key_cache["gop"], None, <<>>} :
          /\ kept.cache = [key_cache EXCEPT ![kind] = message, !["gop"] = gop]
          /\ kept.freed = Elements(Chain(kind))
               \cup (IF gop = key_cache["gop"] THEN {} ELSE Elements(Chain("gop")))
    <3>1. PICK gop \in {key_cache.gop, None, <<>>} : kept = left(gop)
      <4> HIDE DEF left
      <4>. QED  BY <2>0
    <3>2. /\ left(gop).cache = [key_cache EXCEPT ![kind] = message, !["gop"] = gop]
          /\ left(gop).freed = Elements(Chain(kind))
               \cup (IF gop = key_cache["gop"] THEN {} ELSE Elements(Chain("gop")))
      OBVIOUS
    <3>. QED  BY <3>1, <3>2
  <2>2. kind \in Cached /\ kind # "gop" /\ "gop" \in Cached
    BY <1>4 DEF Cached
  <2>3. CachedWell(mid, Elements(Chain(kind)), message)
    BY <1>2, <2>2
  <2>4. CASE gop = key_cache["gop"]
    <3>1. kept.cache = mid
      BY <1>1, <2>1, <2>2, <2>4
    <3>. QED  BY <2>1, <2>3, <2>4, <3>1
  <2>5. CASE gop # key_cache["gop"]
    <3>1. /\ kept.cache \in [Cached -> Seq(Bucket) \cup {None}]
          /\ kept.cache["gop"] \in {None, <<>>}
          /\ \A j \in Cached : j # "gop" => kept.cache[j] = mid[j]
      <4>1. gop \in {None, <<>>} /\ <<>> \in Seq(Bucket)
        BY <2>1, <2>5
      <4>. QED  BY <1>1, <2>1, <2>2, <4>1
    <3>2. ChainsOf(mid)["gop"] = Chain("gop")
      BY <1>1, <2>2 DEF ChainsOf, Chain
    <3> HIDE DEF mid
    <3>3. CachedWell(kept.cache, Elements(Chain(kind)) \cup Elements(ChainsOf(mid)["gop"]),
                     message)
      BY <2>3, <3>1, DropGop
    <3>. QED  BY <2>1, <2>5, <3>2, <3>3
  <2>. QED  BY <2>4, <2>5
<1>5. CASE kind = "key"
  <2>1. /\ kept.cache = [key_cache EXCEPT !["gop"] = message]
        /\ kept.freed = Elements(Chain("gop")) /\ "gop" \in Cached
    BY <1>5 DEF Caching, Cached
  <2>. QED  BY <1>2, <2>1
<1>6. CASE kind \in {"inter", "sound"} /\ key_cache["gop"] # None
  <2>1. \/ /\ kept.cache = [key_cache EXCEPT !["gop"] = None]
           /\ kept.freed = Elements(key_cache["gop"] \o message)
        \/ /\ kept.cache = [key_cache EXCEPT !["gop"] = key_cache["gop"] \o message]
           /\ kept.freed = {}
    <3> DEFINE gop == key_cache.gop \o message
    <3>1. Caching(kind, message) =
            {IF Len(gop) > MaxGop
             THEN [cache |-> [key_cache EXCEPT !.gop = None], freed |-> Elements(gop)]
             ELSE [cache |-> [key_cache EXCEPT !.gop = gop], freed |-> {}]}
      BY <1>6 DEF Caching
    <3>2. CASE Len(gop) > MaxGop
      <4>1. kept = [cache |-> [key_cache EXCEPT !.gop = None], freed |-> Elements(gop)]
        BY <3>1, <3>2
      <4>. QED  BY <4>1
    <3>3. CASE ~(Len(gop) > MaxGop)
      <4>1. kept = [cache |-> [key_cache EXCEPT !.gop = gop], freed |-> {}]
        BY <3>1, <3>3
      <4>. QED  BY <4>1
    <3>. QED  BY <3>2, <3>3
  <2>. QED  BY <1>6, <2>1, AddToGop
<1>7. CASE kind = "command" \/ (kind \in {"inter", "sound"} /\ key_cache["gop"] = None)
  <2>0. Caching(kind, message) = {[cache |-> key_cache, freed |-> Elements(message)]}
    BY <1>7 DEF Caching
  <2>1. kept.cache = key_cache /\ kept.freed = Elements(message)
    BY <2>0
  <2>. QED  BY <2>1, NotCached
<1>8. kind \in {"metadata", "video_sh", "audio_sh", "key", "inter", "sound", "command"}
  BY KindAssumption
<1>. QED  BY <1>3, <1>4, <1>5, <1>6, <1>7, <1>8

\* What a player is sent with a message: perhaps a bucket of its own, perhaps headers
\* and a chain of the cache, perhaps the message.
Sent(p, t, starting, completed, fed, n, k, message) ==
  (IF p \in starting THEN <<t>> ELSE <<>>)
    \o (IF p \in starting \cup completed THEN Wrapped(headers[p], n) \o Chain(k) ELSE <<>>)
    \o (IF p \in fed THEN message ELSE <<>>)

\* Nothing else but what somebody owns already.
LEMMA SentFacts ==
  ASSUME IInv, NEW message \in Seq(Bucket), Elements(message) \subseteq Owned,
         NEW p \in Player, NEW n \in Written, NEW k \in Cached, NEW t \in Bucket,
         NEW starting, NEW completed, NEW fed,
         p \in starting \cup completed => consumer[p] # "none"
  PROVE  /\ Sent(p, t, starting, completed, fed, n, k, message) \in Seq(Bucket)
         /\ Elements(Sent(p, t, starting, completed, fed, n, k, message))
              \subseteq Owned \cup (IF p \in starting THEN {t} ELSE {})
         /\ p \in starting =>
              t \in Elements(Sent(p, t, starting, completed, fed, n, k, message))
<1> DEFINE a == IF p \in starting THEN <<t>> ELSE <<>>
           both == Wrapped(headers[p], n) \o Chain(k)
           b == IF p \in starting \cup completed THEN both ELSE <<>>
           c == IF p \in fed THEN message ELSE <<>>
<1>0. <<>> \in Seq(Bucket) /\ Elements(<<>>) = {}
  <2>1. DOMAIN <<>> = {}
    OBVIOUS
  <2>. QED  BY <2>1 DEF Elements
<1>1. a \in Seq(Bucket) /\ Elements(a) = IF p \in starting THEN {t} ELSE {}
  <2>1. CASE p \in starting
    <3>1. a = <<t>> /\ <<t>> \in Seq(Bucket) /\ DOMAIN <<t>> = {1} /\ <<t>>[1] = t
      BY <2>1
    <3>2. Elements(<<t>>) = {t}
      BY <3>1 DEF Elements
    <3>. QED  BY <2>1, <3>1, <3>2
  <2>2. CASE p \notin starting
    BY <1>0, <2>2
  <2>. QED  BY <2>1, <2>2
<1>2. b \in Seq(Bucket) /\ Elements(b) \subseteq Owned
  <2>1. CASE p \in starting \cup completed
    <3>1. headers[p] \in Seq(Bucket) /\ Len(headers[p]) = HeaderNum
      BY <2>1 DEF IInv, TypeOK, HeaderInv
    <3>2. /\ Wrapped(headers[p], n) \in Seq(Bucket)
          /\ Elements(Wrapped(headers[p], n)) \subseteq Elements(headers[p])
      BY <3>1, WrappedFacts DEF Written
    <3>3. Chain(k) \in Seq(Bucket) /\ Elements(Chain(k)) \subseteq Kept(Cached, Chains)
      BY ChainFacts DEF IInv
    <3>4. Elements(both) = Elements(Wrapped(headers[p], n)) \cup Elements(Chain(k))
      BY <3>2, <3>3, ElementsConcat
    <3>5. both \in Seq(Bucket)
      BY <3>2, <3>3
    <3>6. Elements(both) \subseteq Owned
      BY <3>2, <3>3, <3>4 DEF Owned, Kept
    <3>7. b = both
      BY <2>1
    <3> HIDE DEF both, b
    <3>. QED  BY <3>5, <3>6, <3>7
  <2>2. CASE ~(p \in starting \cup completed)
    BY <1>0, <2>2
  <2>. QED  BY <2>1, <2>2
<1>3. c \in Seq(Bucket) /\ Elements(c) \subseteq Owned
  BY <1>0
<1> DEFINE sent == Sent(p, t, starting, completed, fed, n, k, message)
<1>4. sent = (a \o b) \o c
  BY DEF Sent
<1> HIDE DEF a, b, c, sent
<1>5. a \o b \in Seq(Bucket) /\ Elements(a \o b) = Elements(a) \cup Elements(b)
  <2>1. Elements(a \o b) = Elements(a) \cup Elements(b)
    BY <1>1, <1>2, ElementsConcat
  <2>. QED  BY <1>1, <1>2, <2>1
<1> DEFINE ab == a \o b
<1>6. ab \in Seq(Bucket)
  BY <1>5
<1> HIDE DEF ab
<1>7. ab \o c \in Seq(Bucket) /\ Elements(ab \o c) = Elements(ab) \cup Elements(c)
  <2>1. Elements(ab \o c) = Elements(ab) \cup Elements(c)
    BY <1>3, <1>6, ElementsConcat
  <2>. QED  BY <1>3, <1>6, <2>1
<1>8. sent = ab \o c /\ Elements(ab) = Elements(a) \cup Elements(b)
  BY <1>4, <1>5 DEF ab
<1>. QED  BY <1>1, <1>2, <1>3, <1>7, <1>8 DEF sent

\* The reader has nothing left of the message but the bucket for the next one.
LEMMA MessageTaken ==
  ASSUME IInv, current_chunk # None, ~merging,
         NEW b \in Bucket, current_chunk' = b, chain' = <<>>,
         UNCHANGED <<merging, publishing, headers>>,
         consumer' \in [Player -> {"none", "waiting", "running", "ended"}],
         \A p \in Player : consumer'[p] = "none" <=> consumer[p] = "none",
         NEW freed, CachedWell(key_cache', freed, Received),
         NEW lent, NEW out, Taking(lent, {b}, out, freed), Buckets(lent, {b}, out, freed),
         \A p \in Player : Elements(out[p]) \subseteq Owned \cup lent
  PROVE  IInv'
<1> USE DEF IInv
<1>1. b # None
  BY NoneAssumption, FreshFacts
<1>2. Received' = Append(<<>>, b)
  BY <1>1 DEF Received
<1>3. Elements(Received') = {b} /\ IsInjective(Received')
  BY <1>2, FirstBucket
<1>4. /\ b \notin Owned \ freed
      /\ Times(b, writes') = 0
  BY TakenAlone
<1>5. /\ Kept(Player, headers)' = Kept(Player, headers)
      /\ Apart(Player, headers)'
  BY DEF KeptInv, Kept, Apart
<1>6. /\ Chains' = ChainsOf(key_cache')
      /\ key_cache' \in [Cached -> Seq(Bucket) \cup {None}]
      /\ Apart(Cached, Chains')
      /\ freed \subseteq Kept(Cached, Chains) \cup Elements(Received)
      /\ Kept(Cached, Chains') = (Kept(Cached, Chains) \cup Elements(Received)) \ freed
  BY DEF Chains, CachedWell, Exchanged
<1>7. Owned' = (Owned \ freed) \cup {b}
  BY <1>3, <1>5, <1>6 DEF Owned, KeptInv
<1>8. /\ PoolInv' /\ g_queue' \in SUBSET Bucket
      /\ g_bucket_id' = g_pool_size * g_add_pool_count'
      /\ g_add_pool_count' \in 1..MAX_ADD_POOL_SIZE_COUNT
      /\ ref_count' \in [Bucket -> Nat]
      /\ writes' \in [Player -> Seq(Bucket)]
  BY <1>7, BucketsStep
<1>9. TypeOK'
  <2>1. <<>> \in Seq(Bucket)
    OBVIOUS
  <2>. QED  BY <1>6, <1>8, <2>1 DEF TypeOK
<1>10. KeptInv'
  <2>1. Kept(Cached, Chains') \cap Kept(Player, headers') = {}
    BY <1>5, <1>6 DEF KeptInv
  <2>2. {b} \cap Kept(Cached, Chains') = {} /\ {b} \cap Kept(Player, headers') = {}
    BY <1>4, <1>5, <1>6 DEF KeptInv, Owned
  <2>3. IsInjective(Received') /\ Apart(Cached, Chains') /\ Apart(Player, headers')
    BY <1>3, <1>5, <1>6
  <2>. QED  BY <1>3, <2>1, <2>2, <2>3 DEF KeptInv
<1>11. ReaderInv'
  BY <1>1, <1>3, <1>4 DEF ReaderInv
<1>12. HeaderInv'
  BY DEF HeaderInv
<1>. QED  BY <1>8, <1>9, <1>10, <1>11, <1>12

\* The last chunk of a message.
LEMMA ReadMessageStep ==
  ASSUME IInv, NEW kind \in Kind, NEW starting \in SUBSET Player,
         NEW completed \in SUBSET Player, NEW goes \in SUBSET Player, NEW n \in Written,
         ReadMessage(kind, starting, completed, goes, n)
  PROVE  IInv'
<1> DEFINE message == Append(chain, current_chunk)
           fed == starting \cup completed \cup goes
           k == SequenceHeader(kind)
<1>1. PICK kept \in (IF publishing THEN Caching(kind, message)
                     ELSE {[cache |-> key_cache, freed |-> Elements(message)]}),
           b \in Bucket, lent \in Injection(starting, Bucket) :
        /\ key_cache' = kept.cache
        /\ current_chunk' = b
        /\ Buckets({lent[p] : p \in starting}, {b},
             [p \in Player |->
                (IF p \in starting THEN <<lent[p]>> ELSE <<>>)
                  \o (IF p \in starting \cup completed
                      THEN Wrapped(headers[p], n) \o Chain(k) ELSE <<>>)
                  \o (IF p \in fed THEN message ELSE <<>>)],
             kept.freed)
  BY DEF ReadMessage
<1> DEFINE out == [p \in Player |->
                     (IF p \in starting THEN <<lent[p]>> ELSE <<>>)
                       \o (IF p \in starting \cup completed
                           THEN Wrapped(headers[p], n) \o Chain(k) ELSE <<>>)
                       \o (IF p \in fed THEN message ELSE <<>>)]
           own == {lent[p] : p \in starting}
<1>2. /\ current_chunk # None /\ ~merging
      /\ \A p \in fed : consumer[p] = IF p \in starting THEN "waiting" ELSE "running"
      /\ consumer' = [p \in Player |-> IF p \in starting THEN "running" ELSE consumer[p]]
      /\ chain' = <<>>
      /\ UNCHANGED <<merging, publishing, headers>>
  BY DEF ReadMessage, ChainAfter
<1>3. Buckets(own, {b}, out, kept.freed)
  BY <1>1
<1>4. /\ message = Received /\ message \in Seq(Bucket) /\ IsInjective(message)
      /\ Elements(message) \cap Kept(Cached, Chains) = {}
      /\ Elements(message) \subseteq Owned
  BY <1>2, OwnedBuckets DEF Received, IInv, KeptInv, Owned
<1>5. k \in Cached
  BY DEF SequenceHeader, Cached
<1>6. lent \in [starting -> Bucket]
  BY DEF Injection
<1> HIDE DEF message
<1>7. CachedWell(kept.cache, kept.freed, message)
  <2>1. CASE publishing
    <3>1. kept \in Caching(kind, message)
      BY <1>1, <2>1
    <3>. QED  BY <1>4, <3>1, CachingFacts
  <2>2. CASE ~publishing
    <3>1. kept.cache = key_cache /\ kept.freed = Elements(message)
      BY <1>1, <2>2
    <3>. QED  BY <1>4, <3>1, NotCached
  <2>. QED  BY <2>1, <2>2
<1>8. /\ \A p \in Player : consumer'[p] = "none" <=> consumer[p] = "none"
      /\ consumer' \in [Player -> {"none", "waiting", "running", "ended"}]
  <2>1. \A p \in starting : consumer[p] = "waiting"
    BY <1>2
  <2>2. consumer \in [Player -> {"none", "waiting", "running", "ended"}]
    BY DEF IInv, TypeOK
  <2>. QED  BY <1>2, <2>1, <2>2
<1>9. ASSUME NEW p \in Player
      PROVE  /\ out[p] \in Seq(Bucket)
             /\ Elements(out[p]) \subseteq Owned \cup own
             /\ p \in starting => lent[p] \in Elements(out[p])
  <2> DEFINE t == IF p \in starting THEN lent[p] ELSE b
             sent == Sent(p, t, starting, completed, fed, n, k, message)
  <2>1. t \in Bucket
    BY <1>6
  <2>2. p \in starting \cup completed => consumer[p] # "none"
    BY <1>2
  <2>3. out[p] = sent
    <3>1. CASE p \in starting
      BY <3>1 DEF Sent
    <3>2. CASE p \notin starting
      BY <3>2 DEF Sent
    <3>. QED  BY <3>1, <3>2
  <2>4. p \in starting => t = lent[p] /\ t \in own
    OBVIOUS
  <2> HIDE DEF out, own, k, fed, t
  <2>5. /\ sent \in Seq(Bucket)
        /\ Elements(sent) \subseteq Owned \cup (IF p \in starting THEN {t} ELSE {})
        /\ p \in starting => t \in Elements(sent)
    BY <1>4, <1>5, <2>1, <2>2, SentFacts
  <2> HIDE DEF sent
  <2>. QED  BY <2>3, <2>4, <2>5
<1>10. /\ out \in [Player -> Seq(Bucket)]
       /\ own \subseteq Bucket
       /\ \A x \in own : \E p \in Player : x \in Elements(out[p])
  <2>1. out \in [Player -> Seq(Bucket)]
    BY <1>9
  <2>2. own \subseteq Bucket
    BY <1>6
  <2> HIDE DEF out
  <2>3. \A x \in own : \E p \in Player : x \in Elements(out[p])
    BY <1>9
  <2>. QED  BY <2>1, <2>2, <2>3
<1> HIDE DEF out, own
<1>11. Taking(own, {b}, out, kept.freed)
  <2>1. kept.freed \subseteq Owned
    BY <1>4, <1>7 DEF CachedWell, Owned
  <2>. QED  BY <1>9, <1>10, <2>1 DEF Taking
<1>12. CachedWell(key_cache', kept.freed, Received)
  BY <1>1, <1>4, <1>7
<1>. QED  BY <1>1, <1>2, <1>3, <1>8, <1>9, <1>11, <1>12, MessageTaken

-----------------------------------------------------------------------------
(* The invariant holds. *)

\* init_chunk_pool: nobody needs a bucket yet.
LEMMA InitIInv ==
  ASSUME Init
  PROVE  IInv
<1>1. /\ Received = <<>>
      /\ Chains \in [Cached -> Seq(Bucket)] /\ \A k \in Cached : Chains[k] = <<>>
      /\ headers \in [Player -> Seq(Bucket)] /\ \A p \in Player : headers[p] = <<>>
      /\ writes \in [Player -> Seq(Bucket)] /\ \A p \in Player : writes[p] = <<>>
  BY DEF Init, Received, Chains, ChainsOf
<1>2. DOMAIN <<>> = {} /\ <<>> \in Seq(Bucket)
  OBVIOUS
<1>3. Elements(<<>>) = {} /\ IsInjective(<<>>)
  BY <1>2 DEF Elements, IsInjective
<1>4. /\ Elements(Received) = {} /\ Kept(Cached, Chains) = {} /\ Kept(Player, headers) = {}
      /\ Owned = {}
  BY <1>1, <1>3 DEF Owned, Kept
<1>5. g_queue = 1..g_bucket_id /\ 1..g_bucket_id \subseteq Bucket
      /\ g_bucket_id = g_pool_size * g_add_pool_count
      /\ g_add_pool_count \in 1..MAX_ADD_POOL_SIZE_COUNT
  <2>1. /\ g_pool_size \in Nat \ {0} /\ MAX_ADD_POOL_SIZE_COUNT \in Nat \ {0}
        /\ g_queue = 1..g_pool_size /\ g_bucket_id = g_pool_size /\ g_add_pool_count = 1
    BY SizeAssumption DEF Init
  <2>2. g_pool_size <= g_pool_size * MAX_ADD_POOL_SIZE_COUNT
    <3>1. /\ MAX_ADD_POOL_SIZE_COUNT - 1 \in Nat
          /\ g_pool_size * (MAX_ADD_POOL_SIZE_COUNT - 1) \in Nat
          /\ g_pool_size * MAX_ADD_POOL_SIZE_COUNT =
               g_pool_size * (MAX_ADD_POOL_SIZE_COUNT - 1) + g_pool_size
      BY <2>1
    <3>. QED  BY <2>1, <3>1
  <2>3. g_pool_size * MAX_ADD_POOL_SIZE_COUNT \in Nat
    BY <2>1
  <2>4. 1..g_pool_size \subseteq Bucket
    BY <2>1, <2>2, <2>3 DEF Bucket
  <2>. QED  BY <2>1, <2>4
<1>6. TypeOK
  <2>1. /\ current_chunk = None /\ chain = <<>> /\ merging = FALSE /\ publishing = FALSE
        /\ key_cache = [k \in Cached |-> None] /\ consumer = [p \in Player |-> "none"]
        /\ ref_count = [b \in Bucket |-> 0]
    BY DEF Init
  <2>. QED  BY <1>1, <1>2, <1>5, <2>1 DEF TypeOK
<1>7. \A b \in Bucket : ref_count[b] = 0 /\ Times(b, writes) = 0
  BY <1>1, <1>3, TimesZero DEF Init
<1>8. PoolInv
  <2>1. \A b \in Bucket : b \in 1..g_bucket_id <=> b <= g_bucket_id
    BY <1>6, FreshFacts DEF Bucket
  <2>. QED  BY <1>4, <1>5, <1>7, <2>1 DEF PoolInv
<1>9. KeptInv
  BY <1>1, <1>2, <1>3, <1>4 DEF KeptInv, Apart
<1>10. ReaderInv
  BY <1>4 DEF ReaderInv, Init
<1>11. HeaderInv
  BY <1>1 DEF HeaderInv, Init
<1>. QED  BY <1>6, <1>8, <1>9, <1>10, <1>11 DEF IInv

\* Every event keeps it.
LEMMA IInvStep ==
  ASSUME IInv, [Next]_vars
  PROVE  IInv'
<1>1. CASE \E b \in Bucket : Connect(b)
  BY <1>1, ConnectStep
<1>2. CASE \E b \in Bucket, merge \in BOOLEAN : ReadChunk(b, merge)
  BY <1>2, ReadChunkStep
<1>3. CASE ReadMergedHeader
  BY <1>3, ReadMergedHeaderStep
<1>4. ASSUME NEW kind \in Kind, NEW starting \in SUBSET Player,
             NEW completed \in SUBSET Player, NEW goes \in SUBSET Player, NEW n \in Written,
             ReadMessage(kind, starting, completed, goes, n)
      PROVE  IInv'
  BY <1>4, ReadMessageStep
<1>5. CASE Publish
  BY <1>5, PublishStep
<1>6. CASE Unpublish
  BY <1>6, UnpublishStep
<1>7. CASE Disconnect
  BY <1>7, DisconnectStep
<1>8. ASSUME NEW p \in Player, NEW own \in HeaderBuckets, NEW t \in Bucket, NEW n \in Written,
             Play(p, own, t, n)
      PROVE  IInv'
  BY <1>8, PlayStep
<1>9. CASE \E p \in Player : Unplay(p)
  BY <1>9, UnplayStep
<1>10. CASE \E p \in Player, t \in Bucket : Send(p, t)
  BY <1>10, SendStep
<1>11. CASE \E p \in Player : WriteDone(p)
  BY <1>11, WriteDoneStep
<1>12. CASE UNCHANGED vars
  <2>1. UNCHANGED <<g_queue, g_bucket_id, g_add_pool_count, ref_count, current_chunk,
                    chain, merging, publishing, key_cache, consumer, headers, writes>>
    BY <1>12 DEF vars, poolVars, readerVars
  <2>2. publishing' \in BOOLEAN
    BY <2>1 DEF IInv, TypeOK
  <2>. QED  BY <2>1, <2>2, SameInv
<1>. QED  BY <1>1, <1>2, <1>3, <1>4, <1>5, <1>6, <1>7, <1>8, <1>9, <1>10, <1>11, <1>12
          DEF Next

\* So it holds throughout.
LEMMA Invariant == Spec => []IInv
<1>1. Init => IInv
  BY InitIInv
<1>2. IInv /\ [Next]_vars => IInv'
  BY IInvStep
<1>. QED  BY <1>1, <1>2, PTL DEF Spec

-----------------------------------------------------------------------------
(* What the runs check. *)

\* The variables have their types; the pool is made of whole lots of buckets.
THEOREM PoolTypes == Spec => []TypeOK
<1>1. IInv => TypeOK
  BY DEF IInv
<1>. QED  BY <1>1, Invariant, PTL

\* A bucket that is kept has one owner, another none.
LEMMA OwnersAre ==
  ASSUME IInv, NEW b \in Bucket
  PROVE  /\ b \notin Owned => Owners(b) = {}
         /\ b \in Owned => \E o : Owners(b) = {o}
<1> USE DEF IInv
<1> DEFINE reader == {o \in {<<"reader", "current">>} : current_chunk = b}
                       \cup {<<"reader", i>> : i \in {j \in DOMAIN chain : chain[j] = b}}
           cache == Places(b, Cached, Chains)
           header == Places(b, Player, headers)
<1>1. Owners(b) = (reader \cup cache) \cup header
  <2>1. \A k \in Cached : Chains[k] = Chain(k)
    BY DEF Chains, ChainsOf, Chain
  <2>2. Chains = [k \in Cached |-> Chain(k)]
    BY <2>1 DEF Chains, ChainsOf, Chain
  <2> HIDE DEF Chains
  <2>. QED  BY <2>2 DEF Owners
<1>2. /\ b \notin Elements(Received) => reader = {}
      /\ b \in Elements(Received) => \E o : reader = {o}
  <2>1. CASE current_chunk = None
    <3>1. chain = <<>> /\ DOMAIN <<>> = {}
      BY <2>1 DEF ReaderInv
    <3>2. b # current_chunk
      BY <2>1, NoneAssumption, FreshFacts
    <3>3. Elements(Received) = {}
      BY <2>1, <3>1 DEF Received, Elements
    <3>4. reader = {}
      BY <3>1, <3>2
    <3>. QED  BY <3>3, <3>4
  <2>2. CASE current_chunk # None
    <3>1. chain \in Seq(Bucket) /\ current_chunk \in Bucket
          /\ Received = Append(chain, current_chunk)
      BY <2>2 DEF TypeOK, Received
    <3>2. /\ Elements(Received) = Elements(chain) \cup {current_chunk}
          /\ IsInjective(chain) /\ current_chunk \notin Elements(chain)
      BY <3>1, ElementsAppend DEF KeptInv
    <3>3. CASE b = current_chunk
      <4>1. {j \in DOMAIN chain : chain[j] = b} = {}
        BY <3>2, <3>3 DEF Elements
      <4>2. reader = {<<"reader", "current">>}
        BY <3>3, <4>1
      <4>. QED  BY <3>2, <3>3, <4>2
    <3>4. CASE b # current_chunk /\ b \in Elements(chain)
      <4>1. PICK i \in DOMAIN chain : chain[i] = b
        BY <3>4 DEF Elements
      <4>2. {j \in DOMAIN chain : chain[j] = b} = {i}
        BY <3>2, <4>1 DEF IsInjective
      <4>3. reader = {<<"reader", i>>}
        BY <3>4, <4>2
      <4>. QED  BY <3>2, <3>4, <4>3
    <3>5. CASE b # current_chunk /\ b \notin Elements(chain)
      <4>1. {j \in DOMAIN chain : chain[j] = b} = {}
        BY <3>5 DEF Elements
      <4>2. reader = {}
        BY <3>5, <4>1
      <4>. QED  BY <3>2, <3>5, <4>2
    <3>. QED  BY <3>3, <3>4, <3>5
  <2>. QED  BY <2>1, <2>2
<1>3. ASSUME NEW I, NEW f, Apart(I, f)
      PROVE  /\ b \notin Kept(I, f) => Places(b, I, f) = {}
             /\ b \in Kept(I, f) => \E o : Places(b, I, f) = {o}
  <2> DEFINE places == Places(b, I, f)
  <2>1. \A o : o \in places <=>
          \E x \in I : \E i \in DOMAIN f[x] : f[x][i] = b /\ o = <<x, i>>
    BY DEF Places
  <2>2. b \in Kept(I, f) <=> \E x \in I : \E i \in DOMAIN f[x] : f[x][i] = b
    BY DEF Kept, Elements
  <2> HIDE DEF places
  <2>3. ASSUME b \notin Kept(I, f)  PROVE places = {}
    BY <2>1, <2>2, <2>3
  <2>4. ASSUME b \in Kept(I, f)  PROVE \E o : places = {o}
    <3>1. PICK x \in I : \E i \in DOMAIN f[x] : f[x][i] = b
      BY <2>2, <2>4
    <3>2. PICK i \in DOMAIN f[x] : f[x][i] = b
      BY <3>1
    <3>3. \A o : o \in places <=> o = <<x, i>>
      BY <1>3, <2>1, <3>2 DEF Apart
    <3>4. places = {<<x, i>>}
      BY <3>3
    <3>. QED  BY <3>4
  <2>. QED  BY <2>3, <2>4 DEF places
<1>4. /\ b \notin Kept(Cached, Chains) => cache = {}
      /\ b \in Kept(Cached, Chains) => \E o : cache = {o}
  BY <1>3 DEF KeptInv
<1>5. /\ b \notin Kept(Player, headers) => header = {}
      /\ b \in Kept(Player, headers) => \E o : header = {o}
  BY <1>3 DEF KeptInv
<1> HIDE DEF reader, cache, header
<1>6. b \notin Owned => Owners(b) = {}
  BY <1>1, <1>2, <1>4, <1>5 DEF Owned
<1>7. CASE b \in Elements(Received)
  BY <1>1, <1>2, <1>4, <1>5, <1>7 DEF KeptInv, Owned
<1>8. CASE b \in Kept(Cached, Chains)
  BY <1>1, <1>2, <1>4, <1>5, <1>8 DEF KeptInv, Owned
<1>9. CASE b \in Kept(Player, headers)
  BY <1>1, <1>2, <1>4, <1>5, <1>9 DEF KeptInv, Owned
<1>. QED  BY <1>6, <1>7, <1>8, <1>9 DEF Owned

\* ref_count is always the number of the owners, of which a bucket has at most one, and
\* of the writes that wait: alloc_chunk_bucket, get_ref and free_chunk_bucket balance,
\* whoever holds the bucket and in whatever order they let it go.
THEOREM CountsExact == Spec => []RefsExact
<1>1. IInv => RefsExact
  <2> SUFFICES ASSUME IInv, NEW b \in Bucket
               PROVE  /\ Cardinality(Owners(b)) <= 1
                      /\ ref_count[b] = Cardinality(Owners(b)) + Times(b, writes)
    BY DEF RefsExact
  <2>1. ref_count[b] = (IF b \in Owned THEN 1 ELSE 0) + Times(b, writes)
    BY DEF IInv, PoolInv
  <2>2. CASE b \in Owned
    <3>1. PICK o : Owners(b) = {o}
      BY <2>2, OwnersAre
    <3>2. Cardinality(Owners(b)) = 1
      BY <3>1, FS_Singleton
    <3>. QED  BY <2>1, <2>2, <3>2
  <2>3. CASE b \notin Owned
    <3>1. Owners(b) = {}
      BY <2>3, OwnersAre
    <3>2. Cardinality(Owners(b)) = 0
      BY <3>1, FS_EmptySet
    <3>. QED  BY <2>1, <2>3, <3>2
  <2>. QED  BY <2>2, <2>3
<1>. QED  BY <1>1, Invariant, PTL

\* A bucket is in g_queue if and only if nobody needs it: what is given out is used by
\* nobody else, and what was made is never lost.
THEOREM QueueIdle == Spec => []FreeIsIdle
<1>1. IInv => FreeIsIdle
  <2> SUFFICES ASSUME IInv  PROVE FreeIsIdle
    OBVIOUS
  <2>1. TypeOK /\ PoolInv
    BY DEF IInv
  <2>2. 1..g_bucket_id \subseteq Bucket /\ g_bucket_id \in Nat
    BY <2>1, FreshFacts
  <2>3. g_queue \subseteq 1..g_bucket_id
    <3>1. \A b \in g_queue : b \in Bucket /\ b <= g_bucket_id
      BY <2>1 DEF PoolInv, TypeOK
    <3>2. \A b \in Bucket : b \in Nat /\ b >= 1
      BY DEF Bucket
    <3>. QED  BY <2>2, <3>1, <3>2
  <2>4. ASSUME NEW b \in 1..g_bucket_id
        PROVE  b \in g_queue <=> Owners(b) = {} /\ Times(b, writes) = 0
    <3>1. b \in Bucket /\ b <= g_bucket_id
      BY <2>2
    <3>2. /\ b \in g_queue <=> ref_count[b] = 0
          /\ ref_count[b] = (IF b \in Owned THEN 1 ELSE 0) + Times(b, writes)
      BY <2>1, <3>1 DEF PoolInv
    <3>3. Times(b, writes) \in Nat
      BY <2>1, PlacesFinite DEF TypeOK
    <3>4. b \in Owned <=> Owners(b) # {}
      BY <3>1, OwnersAre
    <3>. QED  BY <3>2, <3>3, <3>4
  <2>. QED  BY <2>3, <2>4 DEF FreeIsIdle
<1>. QED  BY <1>1, Invariant, PTL

\* A socket never waits to send a bucket that the reader is still filling, nor one of a
\* message that has not been completed.
THEOREM ReceivedAlways == Spec => []ReceivedAlone
<1>1. IInv => ReceivedAlone
  <2> SUFFICES ASSUME IInv  PROVE ReceivedAlone
    OBVIOUS
  <2>1. /\ \A b \in Elements(Received) : Times(b, writes) = 0
        /\ current_chunk = None => chain = <<>>
    BY DEF IInv, ReaderInv
  <2>2. CASE current_chunk # None
    <3>1. chain \in Seq(Bucket) /\ current_chunk \in Bucket
      BY <2>2 DEF IInv, TypeOK
    <3>2. Elements(Received) = Elements(chain) \cup {current_chunk}
      BY <2>2, <3>1, ElementsAppend DEF Received
    <3>. QED  BY <2>1, <3>2 DEF ReceivedAlone
  <2>3. CASE current_chunk = None
    <3>1. Elements(<<>>) = {}
      <4>1. DOMAIN <<>> = {}
        OBVIOUS
      <4>. QED  BY <4>1 DEF Elements
    <3>. QED  BY <2>1, <2>3, <3>1 DEF ReceivedAlone
  <2>. QED  BY <2>2, <2>3
<1>. QED  BY <1>1, Invariant, PTL
=============================================================================
