----------------------------- MODULE ViewerProofs -----------------------------
(***************************************************************************)
(* The viewer's window, proved for every set of runs that the Logger may   *)
(* leave behind and every size of the caches: what the caches hold, and    *)
(* that what is shown is what the buttons and the boxes say.               *)
(***************************************************************************)
EXTENDS Viewer, Lemmas, SequenceTheorems

(***************************************************************************)
(* The caches                                                              *)
(***************************************************************************)
LEMMA RemoveAtIs ==
    ASSUME NEW S, NEW s \in Seq(S), NEW i \in 1 .. Len(s)
    PROVE  /\ RemoveAt(s, i) \in Seq(S)
           /\ Len(RemoveAt(s, i)) = Len(s) - 1
           /\ \A k \in 1 .. Len(s) - 1 : RemoveAt(s, i)[k] = IF k < i THEN s[k] ELSE s[k + 1]
<1> DEFINE front == SubSeq(s, 1, i - 1)
           back == SubSeq(s, i + 1, Len(s))
<1>0. Len(s) \in Nat
  OBVIOUS
<1>1. /\ front \in Seq(S) /\ Len(front) = i - 1
      /\ \A k \in 1 .. i - 1 : front[k] = s[k]
  <2>1. i - 1 \in 1 - 1 .. Len(s) /\ \A k \in 1 .. i - 1 : s[k] \in S
    OBVIOUS
  <2>2. front \in Seq(S)
    BY <2>1, SubSeqProperties
  <2>3. Len(front) = i - 1 /\ \A k \in 1 .. i - 1 : front[k] = s[k]
    BY <2>1, SubSeqProperties
  <2> QED BY <2>2, <2>3
<1>2. /\ back \in Seq(S) /\ Len(back) = Len(s) - i
      /\ \A k \in 1 .. Len(s) - i : back[k] = s[i + k]
  <2>1. i + 1 \in 1 .. Len(s) + 1 /\ Len(s) \in (i + 1) - 1 .. Len(s)
    OBVIOUS
  <2>2. \A k \in i + 1 .. Len(s) : s[k] \in S
    OBVIOUS
  <2>3. back \in Seq(S)
    BY <2>1, <2>2, SubSeqProperties
  <2>4. Len(back) = Len(s) - i /\ \A k \in 1 .. Len(s) - i : back[k] = s[i + k]
    BY <2>1, <2>2, SubSeqProperties
  <2> QED BY <2>3, <2>4
<1>3. RemoveAt(s, i) = front \o back
  BY DEF RemoveAt
<1> HIDE DEF front, back
<1>4. /\ front \o back \in Seq(S)
      /\ Len(front \o back) = Len(front) + Len(back)
      /\ \A k \in 1 .. Len(front) + Len(back) :
           (front \o back)[k] = IF k <= Len(front) THEN front[k] ELSE back[k - Len(front)]
  BY <1>1, <1>2, ConcatProperties
<1>5. ASSUME NEW k \in 1 .. Len(s) - 1
      PROVE  (front \o back)[k] = IF k < i THEN s[k] ELSE s[k + 1]
  <2>1. k \in 1 .. Len(front) + Len(back)
    BY <1>0, <1>1, <1>2
  <2>2. CASE k < i
    BY <1>0, <1>1, <1>4, <2>1, <2>2
  <2>3. CASE ~ (k < i)
    <3>1. k - (i - 1) \in 1 .. Len(s) - i /\ i + (k - (i - 1)) = k + 1
      BY <1>0, <2>3
    <3> QED BY <1>0, <1>1, <1>2, <1>4, <2>1, <2>3, <3>1
  <2> QED BY <2>2, <2>3
<1> QED BY <1>0, <1>1, <1>2, <1>3, <1>4, <1>5

LEMMA ShiftedIs ==
    ASSUME NEW S, NEW s \in Seq(S), Len(s) # 0, NEW e \in S
    PROVE  /\ Append(Tail(s), e) \in Seq(S) /\ Len(Append(Tail(s), e)) = Len(s)
           /\ \A k \in 1 .. Len(s) : Append(Tail(s), e)[k] = IF k = Len(s) THEN e ELSE s[k + 1]
<1>0. s # << >> /\ Len(s) \in Nat \ {0}
  OBVIOUS
<1>1. PICK t \in Seq(S) : /\ t = Tail(s) /\ Len(t) = Len(s) - 1
                          /\ \A k \in 1 .. Len(t) : t[k] = s[k + 1]
  BY <1>0, HeadTailProperties
<1>2. PICK u \in Seq(S) : /\ u = Append(t, e) /\ Len(u) = Len(t) + 1
                          /\ \A k \in 1 .. Len(t) : u[k] = t[k]
                          /\ u[Len(t) + 1] = e
  BY AppendProperties
<1>3. Len(u) = Len(s)
  BY <1>0, <1>1, <1>2
<1>4. ASSUME NEW k \in 1 .. Len(s) PROVE u[k] = IF k = Len(s) THEN e ELSE s[k + 1]
  <2>1. CASE k = Len(s)
    BY <1>0, <1>1, <1>2, <2>1
  <2>2. CASE k # Len(s)
    <3>1. k \in 1 .. Len(t)
      <4>1. Len(t) = Len(s) - 1
        BY <1>1
      <4> QED BY <1>0, <2>2, <4>1
    <3> QED BY <1>1, <1>2, <2>2, <3>1
  <2> QED BY <2>1, <2>2
<1> QED BY <1>1, <1>2, <1>3, <1>4

(* An entry of E, with its key; a cache, none of whose keys is there twice.*)
Keyed(E) == \A e \in E : e = [key |-> e.key, picture |-> e.picture]
Caches(E) ==
    {cache \in Seq(E) : /\ Len(cache) <= CacheSize
                        /\ \A i, j \in DOMAIN cache : cache[i].key = cache[j].key => i = j}

LEMMA KeysOfIs ==
    ASSUME NEW E, NEW cache \in Seq(E), Keyed(E)
    PROVE  /\ KeysOf(cache) \in Seq({e.key : e \in E}) /\ Len(KeysOf(cache)) = Len(cache)
           /\ \A i \in 1 .. Len(cache) : KeysOf(cache)[i] = cache[i].key
BY DEF KeysOf

LEMMA PlaceIs ==
    ASSUME NEW S, NEW keys \in Seq(S), NEW key \in ToSet(keys)
    PROVE  Place(keys, key) \in 1 .. Len(keys) /\ keys[Place(keys, key)] = key
<1>1. \E i \in DOMAIN keys : keys[i] = key
  BY DEF ToSet
<1> QED BY <1>1 DEF Place

LEMMA MovedIs ==
    ASSUME NEW E, Keyed(E), NEW cache \in Caches(E), NEW key, InCache(cache, key)
    PROVE  /\ [key |-> key, picture |-> Fetched(cache, key)] \in E
           /\ MoveToEnd(cache, key) \in Caches(E)
           /\ KeysOf(MoveToEnd(cache, key)) = Asked(KeysOf(cache), key)
<1> DEFINE keys == KeysOf(cache)
           S == {e.key : e \in E}
           i == Place(keys, key)
           n == Len(cache)
           m == Append(RemoveAt(cache, i), cache[i])
           a == Append(RemoveAt(keys, i), key)
<1>1. cache \in Seq(E) /\ n \in Nat /\ n <= CacheSize /\ CacheSize \in Nat
      /\ \A k, l \in 1 .. n : cache[k].key = cache[l].key => k = l
  BY ViewerAssumption DEF Caches
<1>2. keys \in Seq(S) /\ Len(keys) = n /\ \A k \in 1 .. n : keys[k] = cache[k].key
  BY <1>1, KeysOfIs
<1>3. i \in 1 .. n /\ cache[i].key = key /\ keys[i] = key
  <2>1. key \in ToSet(keys)
    BY DEF InCache
  <2> HIDE DEF keys, S, n
  <2> QED BY <2>1, <1>2, PlaceIs
<1>4. cache[i] \in E /\ cache[i] = [key |-> key, picture |-> Fetched(cache, key)]
  BY <1>1, <1>3 DEF Fetched, Keyed
<1>5. MoveToEnd(cache, key) = m
  BY <1>4 DEF MoveToEnd
<1>6. Asked(keys, key) = IF Len(a) > CacheSize THEN Tail(a) ELSE a
  BY DEF Asked, InCache
<1> HIDE DEF keys, i, S
<1>7. /\ RemoveAt(cache, i) \in Seq(E) /\ Len(RemoveAt(cache, i)) = n - 1
      /\ \A k \in 1 .. n - 1 : RemoveAt(cache, i)[k] = IF k < i THEN cache[k] ELSE cache[k + 1]
  BY <1>1, <1>3, RemoveAtIs
<1>8. /\ RemoveAt(keys, i) \in Seq(S) /\ Len(RemoveAt(keys, i)) = n - 1
      /\ \A k \in 1 .. n - 1 : RemoveAt(keys, i)[k] = IF k < i THEN keys[k] ELSE keys[k + 1]
  BY <1>2, <1>3, RemoveAtIs
<1>9. /\ m \in Seq(E) /\ Len(m) = n
      /\ \A k \in 1 .. n : m[k] = IF k = n THEN cache[i] ELSE IF k < i THEN cache[k] ELSE cache[k + 1]
  BY <1>1, <1>4, <1>7
<1>10. /\ key \in S /\ a \in Seq(S) /\ Len(a) = n
       /\ \A k \in 1 .. n : a[k] = IF k = n THEN key ELSE IF k < i THEN keys[k] ELSE keys[k + 1]
  <2>1. key \in S
    BY <1>3, <1>4 DEF S
  <2> QED BY <1>1, <1>8, <2>1
<1> HIDE DEF m, a, n
<1>11. Asked(keys, key) = a
  BY <1>1, <1>6, <1>10
<1>12. ASSUME NEW k \in 1 .. n
       PROVE  \E l \in 1 .. n : /\ m[k] = cache[l] /\ a[k] = keys[l]
                                /\ l = IF k = n THEN i ELSE IF k < i THEN k ELSE k + 1
  <2>1. CASE k = n
    BY <1>3, <1>9, <1>10, <2>1
  <2>2. CASE k # n /\ k < i
    BY <1>1, <1>9, <1>10, <2>2
  <2>3. CASE k # n /\ ~ (k < i)
    <3>1. k + 1 \in 1 .. n
      BY <1>1, <2>3
    <3> QED BY <1>9, <1>10, <2>3, <3>1
  <2> QED BY <2>1, <2>2, <2>3
<1>13. ASSUME NEW k \in 1 .. n PROVE m[k].key = a[k]
  <2>1. PICK l \in 1 .. n : m[k] = cache[l] /\ a[k] = keys[l]
    BY <1>12
  <2> QED BY <1>2, <2>1
<1>14. ASSUME NEW k \in 1 .. n, NEW l \in 1 .. n, m[k].key = m[l].key PROVE k = l
  <2>1. PICK x \in 1 .. n : m[k] = cache[x] /\ x = IF k = n THEN i ELSE IF k < i THEN k ELSE k + 1
    BY <1>12
  <2>2. PICK y \in 1 .. n : m[l] = cache[y] /\ y = IF l = n THEN i ELSE IF l < i THEN l ELSE l + 1
    BY <1>12
  <2>3. x = y
    BY <1>1, <1>14, <2>1, <2>2
  <2> QED BY <1>1, <1>3, <2>1, <2>2, <2>3
<1>15. m \in Caches(E)
  BY <1>1, <1>9, <1>14 DEF Caches
<1>16. KeysOf(m) = a
  <2>1. KeysOf(m) \in Seq(S) /\ Len(KeysOf(m)) = n /\ \A k \in 1 .. n : KeysOf(m)[k] = m[k].key
    BY <1>9, KeysOfIs DEF S
  <2> QED BY <1>10, <1>13, <2>1, SeqEqual
<1> QED BY <1>4, <1>5, <1>11, <1>15, <1>16 DEF keys

LEMMA InsertedIs ==
    ASSUME NEW E, Keyed(E), NEW cache \in Caches(E), NEW key, ~ InCache(cache, key),
           NEW picture, [key |-> key, picture |-> picture] \in E
    PROVE  /\ Insert(cache, key, picture) \in Caches(E)
           /\ KeysOf(Insert(cache, key, picture)) = Asked(KeysOf(cache), key)
<1> DEFINE keys == KeysOf(cache)
           S == {e.key : e \in E}
           n == Len(cache)
           entry == [key |-> key, picture |-> picture]
           m == Append(IF n < CacheSize THEN cache ELSE Tail(cache), entry)
           all == Append(keys, key)
           a == IF Len(all) > CacheSize THEN Tail(all) ELSE all
           s == IF n < CacheSize THEN 0 ELSE 1
           len == n + 1 - s
<1>1. cache \in Seq(E) /\ n \in Nat /\ n <= CacheSize /\ CacheSize \in Nat \ {0}
      /\ \A k, l \in 1 .. n : cache[k].key = cache[l].key => k = l
  BY ViewerAssumption DEF Caches
<1>2. keys \in Seq(S) /\ Len(keys) = n /\ \A k \in 1 .. n : keys[k] = cache[k].key
  BY <1>1, KeysOfIs
<1>3. Insert(cache, key, picture) = m /\ Asked(keys, key) = a
  BY DEF Insert, Asked, InCache
<1>4. \A k \in 1 .. n : cache[k].key # key
  BY <1>2 DEF InCache, ToSet
<1>5. key \in S /\ entry \in E /\ entry.key = key
  OBVIOUS
<1> HIDE DEF keys, S, entry
<1>6. /\ m \in Seq(E) /\ Len(m) = len
      /\ \A k \in 1 .. len : m[k] = IF k = len THEN entry ELSE cache[k + s]
  <2>1. CASE n < CacheSize
    BY <1>1, <1>5, <2>1
  <2>2. CASE ~ (n < CacheSize)
    <3>1. m = Append(Tail(cache), entry) /\ len = n /\ s = 1 /\ n # 0
      BY <1>1, <2>2
    <3> HIDE DEF m, len, s
    <3> QED BY <1>1, <1>5, <3>1, ShiftedIs
  <2> QED BY <2>1, <2>2
<1>7. /\ a \in Seq(S) /\ Len(a) = len
      /\ \A k \in 1 .. len : a[k] = IF k = len THEN key ELSE keys[k + s]
  <2>1. all \in Seq(S) /\ Len(all) = n + 1
        /\ \A k \in 1 .. n + 1 : all[k] = IF k = n + 1 THEN key ELSE keys[k]
    BY <1>1, <1>2, <1>5
  <2> HIDE DEF all
  <2>2. CASE n < CacheSize
    BY <1>1, <2>1, <2>2
  <2>3. CASE ~ (n < CacheSize)
    <3>1. Tail(all) \in Seq(S) /\ Len(Tail(all)) = n
          /\ \A k \in 1 .. n : Tail(all)[k] = all[k + 1]
      BY <1>1, <2>1
    <3> QED BY <1>1, <2>1, <2>3, <3>1
  <2> QED BY <2>2, <2>3
<1>8. len \in Nat /\ len <= CacheSize /\ s \in {0, 1} /\ len = n + 1 - s
  BY <1>1
<1> HIDE DEF m, a, len, s
<1>9. ASSUME NEW k \in 1 .. len PROVE m[k].key = a[k]
  <2>1. CASE k = len
    BY <1>5, <1>6, <1>7, <2>1
  <2>2. CASE k # len
    <3>1. k + s \in 1 .. n
      BY <1>1, <1>8, <2>2
    <3> QED BY <1>2, <1>6, <1>7, <2>2, <3>1
  <2> QED BY <2>1, <2>2
<1>10. ASSUME NEW k \in 1 .. len, NEW l \in 1 .. len, m[k].key = m[l].key PROVE k = l
  <2>1. ASSUME NEW j \in 1 .. len, j # len
        PROVE  j + s \in 1 .. n /\ m[j] = cache[j + s] /\ m[j].key # key
    <3>1. j + s \in 1 .. n
      BY <1>1, <1>8, <2>1
    <3> QED BY <1>4, <1>6, <2>1, <3>1
  <2>2. m[len].key = key
    BY <1>5, <1>6, <1>8
  <2>3. CASE k = len \/ l = len
    BY <1>10, <2>1, <2>2, <2>3
  <2>4. CASE k # len /\ l # len
    <3>1. k + s = l + s
      BY <1>1, <1>10, <2>1, <2>4
    <3> QED BY <1>8, <3>1
  <2> QED BY <2>3, <2>4
<1>11. m \in Caches(E)
  <2>1. m \in Seq(E) /\ Len(m) <= CacheSize /\ DOMAIN m = 1 .. len
    BY <1>6, <1>8
  <2> QED BY <1>10, <2>1 DEF Caches
<1>12. KeysOf(m) = a
  <2>1. KeysOf(m) \in Seq(S) /\ Len(KeysOf(m)) = len
        /\ \A k \in 1 .. len : KeysOf(m)[k] = m[k].key
    BY <1>6, KeysOfIs DEF S
  <2> QED BY <1>7, <1>9, <2>1, SeqEqual
<1> QED BY <1>3, <1>11, <1>12 DEF keys

(***************************************************************************)
(* Drawing                                                                 *)
(***************************************************************************)
K == DOMAIN content
ContentOK ==
    /\ K \subseteq Int \X Int \X Int
    /\ \A key \in K : Referred(key) \subseteq Pids(key)

Proteins == UNION {Pids(key) : key \in K}
Pictures == [key : K, plotted : SUBSET Proteins, pink : SUBSET Proteins]
WholePicture(key) == [key |-> key, plotted |-> Pids(key), pink |-> {}]

TreeEntries == {[key |-> key, picture |-> key] : key \in {k \in K : HasTree(k)}}
GrnEntries == {[key |-> key, picture |-> WholePicture(key)] : key \in K}

TreeStates == [cache : Caches(TreeEntries), img : K \cup {None}, shown : Flags]
GrnStates ==
    [cache : Caches(GrnEntries), img : Pictures \cup {None}, colours : SUBSET Proteins,
     last_key : (Int \X Int) \cup {None}]

LEMMA EntriesKeyed == Keyed(TreeEntries) /\ Keyed(GrnEntries)
<1>1. Keyed(TreeEntries)
  BY DEF Keyed, TreeEntries
<1>2. Keyed(GrnEntries)
  BY DEF Keyed, GrnEntries
<1> QED BY <1>1, <1>2

LEMMA CachedKeys ==
    ASSUME NEW E, Keyed(E), NEW cache \in Caches(E), NEW key, InCache(cache, key)
    PROVE  \E e \in E : e.key = key
<1>1. cache \in Seq(E)
  BY DEF Caches
<1>2. PICK i \in DOMAIN KeysOf(cache) : KeysOf(cache)[i] = key
  BY DEF InCache, ToSet
<1>3. i \in 1 .. Len(cache) /\ cache[i] \in E /\ cache[i].key = key
  BY <1>1, <1>2 DEF KeysOf
<1> QED BY <1>3

LEMMA TreeImgKeeps ==
    ASSUME ContentOK, NEW t \in TreeStates, NEW key \in K
    PROVE  /\ TreeImg(t, key) \in TreeStates
           /\ KeysOf(TreeImg(t, key).cache) = RecentTree(KeysOf(t.cache), key)
           /\ TreeImg(t, key).shown = t.shown
           /\ TreeImg(t, key).img = IF HasTree(key) THEN key ELSE None
<1>1. t.cache \in Caches(TreeEntries) /\ t.img \in K \cup {None} /\ t.shown \in Flags
      /\ t = [cache |-> t.cache, img |-> t.img, shown |-> t.shown]
  BY DEF TreeStates
<1>2. CASE InCache(t.cache, key)
  <2>1. HasTree(key)
    <3>1. PICK e \in TreeEntries : e.key = key
      BY <1>1, <1>2, EntriesKeyed, CachedKeys
    <3> QED BY <3>1 DEF TreeEntries
  <2>2. /\ [key |-> key, picture |-> Fetched(t.cache, key)] \in TreeEntries
        /\ MoveToEnd(t.cache, key) \in Caches(TreeEntries)
        /\ KeysOf(MoveToEnd(t.cache, key)) = Asked(KeysOf(t.cache), key)
    BY <1>1, <1>2, EntriesKeyed, MovedIs
  <2>3. Fetched(t.cache, key) = key
    BY <2>2 DEF TreeEntries
  <2>4. TreeImg(t, key) = [cache |-> MoveToEnd(t.cache, key), img |-> key, shown |-> t.shown]
    BY <1>1, <1>2, <2>3 DEF TreeImg
  <2> QED BY <1>1, <2>1, <2>2, <2>4 DEF TreeStates, RecentTree
<1>3. CASE ~ InCache(t.cache, key) /\ HasTree(key)
  <2>1. [key |-> key, picture |-> key] \in TreeEntries
    BY <1>3 DEF TreeEntries
  <2>2. /\ Insert(t.cache, key, key) \in Caches(TreeEntries)
        /\ KeysOf(Insert(t.cache, key, key)) = Asked(KeysOf(t.cache), key)
    BY <1>1, <1>3, <2>1, EntriesKeyed, InsertedIs
  <2>3. TreeImg(t, key) = [cache |-> Insert(t.cache, key, key), img |-> key, shown |-> t.shown]
    BY <1>1, <1>3 DEF TreeImg
  <2> QED BY <1>1, <1>3, <2>2, <2>3 DEF TreeStates, RecentTree
<1>4. CASE ~ InCache(t.cache, key) /\ ~ HasTree(key)
  <2>1. TreeImg(t, key) = [cache |-> t.cache, img |-> None, shown |-> t.shown]
    BY <1>1, <1>4 DEF TreeImg
  <2> QED BY <1>1, <1>4, <2>1 DEF TreeStates, RecentTree
<1> QED BY <1>2, <1>3, <1>4

LEMMA DrawGrnIs ==
    ASSUME ContentOK, NEW g \in GrnStates, NEW key \in K, NEW unchecked
    PROVE  /\ DrawGrn(g, key, unchecked) \in GrnStates
           /\ DrawGrn(g, key, unchecked).cache = g.cache
           /\ DrawGrn(g, key, unchecked).img \in Pictures
           /\ DrawGrn(g, key, unchecked).img.key = key
           /\ unchecked = {} => DrawGrn(g, key, unchecked).img = WholePicture(key)
<1> DEFINE individual == <<key[1], key[3]>>
           plotted == Pids(key) \ unchecked
           colours == Colours(g, individual) \cup plotted
           img == [key |-> key, plotted |-> plotted, pink |-> Referred(key) \ colours]
<1>1. /\ g.cache \in Caches(GrnEntries) /\ g.colours \in SUBSET Proteins
      /\ g = [cache |-> g.cache, img |-> g.img, colours |-> g.colours, last_key |-> g.last_key]
  BY DEF GrnStates
<1>2. individual \in Int \X Int
  BY DEF ContentOK
<1>3. Pids(key) \subseteq Proteins /\ Referred(key) \subseteq Pids(key)
  BY DEF ContentOK, Proteins
<1>4. Colours(g, individual) \subseteq Proteins
  BY <1>1 DEF Colours
<1>5. DrawGrn(g, key, unchecked)
        = [cache |-> g.cache, img |-> img, colours |-> colours, last_key |-> individual]
  <2>1. DrawGrn(g, key, unchecked)
          = [g EXCEPT !.colours = colours, !.last_key = individual, !.img = img]
    BY DEF DrawGrn
  <2> HIDE DEF individual, colours, img
  <2> QED BY <1>1, <2>1
<1>6. plotted \in SUBSET Proteins /\ colours \in SUBSET Proteins
  BY <1>3, <1>4
<1>7. img \in Pictures
  BY <1>3, <1>6 DEF Pictures
<1>8. unchecked = {} => plotted = Pids(key) /\ Referred(key) \ colours = {}
  BY <1>3
<1> HIDE DEF individual, plotted, colours
<1> QED BY <1>1, <1>2, <1>5, <1>6, <1>7, <1>8 DEF GrnStates, WholePicture

LEMMA GrnImgKeeps ==
    ASSUME ContentOK, NEW g \in GrnStates, NEW key \in K, NEW unchecked
    PROVE  /\ GrnImg(g, key, unchecked) \in GrnStates
           /\ KeysOf(GrnImg(g, key, unchecked).cache) = RecentGrn(KeysOf(g.cache), key, unchecked)
           /\ GrnImg(g, key, unchecked).img.key = key
<1> DEFINE drawn == DrawGrn(g, key, unchecked)
<1>1. /\ g.cache \in Caches(GrnEntries) /\ g.colours \in SUBSET Proteins
      /\ g.last_key \in (Int \X Int) \cup {None}
      /\ g = [cache |-> g.cache, img |-> g.img, colours |-> g.colours, last_key |-> g.last_key]
  BY DEF GrnStates
<1>2. /\ drawn \in GrnStates /\ drawn.cache = g.cache /\ drawn.img \in Pictures
      /\ drawn.img.key = key /\ (unchecked = {} => drawn.img = WholePicture(key))
  BY DrawGrnIs
<1> HIDE DEF drawn
<1>3. CASE Bypass(key, unchecked)
  <2>1. GrnImg(g, key, unchecked) = drawn
    BY <1>3 DEF GrnImg, drawn
  <2> QED BY <1>2, <1>3, <2>1 DEF RecentGrn
<1>4. CASE ~ Bypass(key, unchecked) /\ InCache(g.cache, key)
  <2>1. /\ [key |-> key, picture |-> Fetched(g.cache, key)] \in GrnEntries
        /\ MoveToEnd(g.cache, key) \in Caches(GrnEntries)
        /\ KeysOf(MoveToEnd(g.cache, key)) = Asked(KeysOf(g.cache), key)
    BY <1>1, <1>4, EntriesKeyed, MovedIs
  <2>2. Fetched(g.cache, key) = WholePicture(key)
    BY <2>1 DEF GrnEntries
  <2>3. WholePicture(key) \in Pictures /\ WholePicture(key).key = key
    BY DEF WholePicture, Pictures, Proteins
  <2>4. GrnImg(g, key, unchecked)
          = [cache |-> MoveToEnd(g.cache, key), img |-> WholePicture(key),
             colours |-> g.colours, last_key |-> g.last_key]
    BY <1>1, <1>4, <2>2 DEF GrnImg
  <2> QED BY <1>1, <1>4, <2>1, <2>3, <2>4 DEF GrnStates, RecentGrn
<1>5. CASE ~ Bypass(key, unchecked) /\ ~ InCache(g.cache, key)
  <2>1. drawn.img = WholePicture(key)
    BY <1>2, <1>5 DEF Bypass
  <2>2. [key |-> key, picture |-> drawn.img] \in GrnEntries
    BY <2>1 DEF GrnEntries
  <2>3. /\ Insert(g.cache, key, drawn.img) \in Caches(GrnEntries)
        /\ KeysOf(Insert(g.cache, key, drawn.img)) = Asked(KeysOf(g.cache), key)
    BY <1>1, <1>5, <2>2, EntriesKeyed, InsertedIs
  <2>4. GrnImg(g, key, unchecked) = [drawn EXCEPT !.cache = Insert(g.cache, key, drawn.img)]
    BY <1>2, <1>5 DEF GrnImg, drawn
  <2>5. GrnImg(g, key, unchecked)
          = [cache |-> Insert(g.cache, key, drawn.img), img |-> drawn.img,
             colours |-> drawn.colours, last_key |-> drawn.last_key]
    BY <1>2, <2>4 DEF GrnStates
  <2> QED BY <1>2, <1>5, <2>3, <2>5 DEF GrnStates, RecentGrn
<1> QED BY <1>3, <1>4, <1>5

(***************************************************************************)
(* The button "Precompute"                                                 *)
(***************************************************************************)
Drawing(t, g) ==
    [trees |-> t, grns |-> g, recent |-> [tree |-> KeysOf(t.cache), grn |-> KeysOf(g.cache)]]
Drawings == {Drawing(t, g) : t \in TreeStates, g \in GrnStates}
Drawn(shown) == {s \in Drawings : s.trees.shown = shown}

LEMMA ComputedIs ==
    ASSUME ContentOK, NEW shown, NEW s \in Drawn(shown), NEW key \in K
    PROVE  Computed(s, key) \in Drawn(shown)
<1>1. PICK t \in TreeStates, g \in GrnStates : s = Drawing(t, g)
  BY DEF Drawn, Drawings
<1>2. s.trees = t /\ s.grns = g /\ t.shown = shown
      /\ s.recent.tree = KeysOf(t.cache) /\ s.recent.grn = KeysOf(g.cache)
  BY <1>1 DEF Drawn, Drawing
<1>3. /\ TreeImg(t, key) \in TreeStates /\ TreeImg(t, key).shown = shown
      /\ KeysOf(TreeImg(t, key).cache) = RecentTree(KeysOf(t.cache), key)
  BY <1>2, TreeImgKeeps
<1>4. /\ GrnImg(g, key, {}) \in GrnStates
      /\ KeysOf(GrnImg(g, key, {}).cache) = RecentGrn(KeysOf(g.cache), key, {})
  BY GrnImgKeeps
<1>5. Computed(s, key) = Drawing(TreeImg(t, key), GrnImg(g, key, {}))
  BY <1>2, <1>3, <1>4 DEF Computed, Drawing
<1>6. Drawing(TreeImg(t, key), GrnImg(g, key, {})).trees = TreeImg(t, key)
  BY DEF Drawing
<1> QED BY <1>3, <1>4, <1>5, <1>6 DEF Drawn, Drawings

Now == [trees |-> trees, grns |-> grns, recent |-> recent]

LEMMA PrecomputedIs ==
    ASSUME ContentOK, NEW shown, Now \in Drawn(shown),
           \A k \in 1 .. RegSteps : <<Value("ga"), k - 1, Value("pop")>> \in K
    PROVE  Precomputed \in Drawn(shown)
<1> DEFINE D == Drawn(shown)
           key(k) == <<Value("ga"), k - 1, Value("pop")>>
           body(f) == [k \in 0 .. RegSteps |->
                         IF k = 0 THEN [trees |-> trees, grns |-> grns, recent |-> recent]
                         ELSE Computed(f[k - 1], <<Value("ga"), k - 1, Value("pop")>>)]
           step == [x \in (1 .. RegSteps) \X D |-> Computed(x[2], key(x[1]))]
           after == CHOOSE f : f = body(f)
<1>0. RegSteps \in Nat
  BY DatabaseAssumption
<1>1. step \in [(1 .. RegSteps) \X D -> D]
  <2>1. ASSUME NEW k \in 1 .. RegSteps, NEW s \in D PROVE Computed(s, key(k)) \in D
    BY ComputedIs
  <2> HIDE DEF D, key
  <2> QED BY <2>1
<1>2. PICK made \in [0 .. RegSteps -> D] : Rounds(RegSteps, Now, step, made)
  <2> HIDE DEF step, D
  <2>1. Now \in D
    BY DEF D
  <2> QED BY <1>0, <1>1, <2>1, RunExists
<1>3. made[0] = Now /\ \A k \in 1 .. RegSteps : made[k] = Computed(made[k - 1], key(k))
  <2> HIDE DEF D, key
  <2>1. \A k \in 1 .. RegSteps : made[k - 1] \in D
    BY <1>0
  <2>2. \A k \in 1 .. RegSteps : step[<<k, made[k - 1]>>] = Computed(made[k - 1], key(k))
    BY <2>1
  <2> HIDE DEF step
  <2> QED BY <1>2, <2>2 DEF Rounds
<1>4. made = body(made)
  <2> HIDE DEF D
  <2>1. \A k \in 0 .. RegSteps : made[k] = body(made)[k]
    BY <1>3 DEF Now
  <2> QED BY <2>1
<1>5. after = body(after)
  <2> HIDE DEF body
  <2> QED BY <1>4
<1>6. Precomputed = after[RegSteps]
  BY DEF Precomputed
<1> HIDE DEF after
<1>7. ASSUME NEW k \in 0 .. RegSteps PROVE after[k] = made[k]
  <2> DEFINE T == {j \in 0 .. RegSteps : after[j] = made[j]}
  <2>1. 0 \in T
    BY <1>0, <1>3, <1>5 DEF Now
  <2>2. ASSUME NEW j \in 1 .. RegSteps, j - 1 \in T PROVE j \in T
    <3>1. made[j] = Computed(made[j - 1], key(j)) /\ after[j - 1] = made[j - 1]
      BY <1>3, <2>2
    <3>2. after[j] = Computed(after[j - 1], key(j))
      BY <1>0, <1>5
    <3> QED BY <3>1, <3>2
  <2> HIDE DEF T
  <2>3. 0 .. RegSteps \subseteq T
    BY <1>0, <2>1, <2>2, RoundsInduction
  <2> QED BY <2>3 DEF T
<1>8. RegSteps \in 0 .. RegSteps
  BY <1>0
<1> HIDE DEF D
<1>9. made[RegSteps] \in D
  BY <1>8
<1> QED BY <1>6, <1>7, <1>8, <1>9 DEF D

(***************************************************************************)
(* The buttons: what a column of a table gives to choose from              *)
(***************************************************************************)
LEMMA DistinctIs ==
    ASSUME NEW rows \in SUBSET Int, IsFiniteSet(rows)
    PROVE  /\ 1 \in DOMAIN Distinct(rows)
           /\ \A i \in DOMAIN Distinct(rows) :
                Distinct(rows)[i] \in IF rows = {} THEN {-1} ELSE rows
<1>1. CASE rows = {}
  BY <1>1 DEF Distinct
<1>2. CASE rows # {}
  <2>1. Cardinality(rows) \in Nat \ {0}
    BY <1>2, FS_CardinalityType, FS_EmptySet
  <2>2. Ordered(rows) \in [1 .. Cardinality(rows) -> rows]
    <3>1. \E ordered \in [1 .. Cardinality(rows) -> rows] :
            ordered = [i \in 1 .. Cardinality(rows) |->
                         CHOOSE number \in rows :
                           Cardinality({other \in rows : other < number}) = i - 1]
      BY InOrder
    <3> QED BY <3>1 DEF Ordered, Below
  <2> QED BY <1>2, <2>1, <2>2 DEF Distinct
<1> QED BY <1>1, <1>2

LEMMA ImageFinite ==
    ASSUME NEW S, IsFiniteSet(S), NEW f, f = [x \in S |-> f[x]]
    PROVE  IsFiniteSet({f[x] : x \in S})
<1>1. f \in Surjection(S, {f[x] : x \in S})
  BY DEF Surjection
<1> QED BY <1>1, FS_Surjection

LEMMA TableFinite ==
    ASSUME NEW S, NEW table \in Seq(S)
    PROVE  ToSet(table) \in SUBSET S /\ IsFiniteSet(ToSet(table))
<1>1. table \in [1 .. Len(table) -> S] /\ Len(table) \in Nat /\ ToSet(table) \in SUBSET S
  BY DEF ToSet
<1>2. table \in Surjection(1 .. Len(table), ToSet(table)) /\ IsFiniteSet(1 .. Len(table))
  BY <1>1, FS_Interval DEF Surjection, ToSet
<1> QED BY <1>1, <1>2, FS_Surjection

Db == Runs[run].db
Loaded == run \in DOMAIN Runs /\ content = ContentOf(Db)

LEMMA ColumnsFinite ==
    ASSUME Loaded
    PROVE  /\ {r.ga_step : r \in ToSet(Db.grn)} \in SUBSET Int
           /\ IsFiniteSet({r.ga_step : r \in ToSet(Db.grn)})
           /\ {r.reg_step : r \in ToSet(Db.gene_state)} \in SUBSET (-1 .. RegSteps - 1)
           /\ IsFiniteSet({r.reg_step : r \in ToSet(Db.gene_state)})
           /\ {r.pop_index : r \in ToSet(Db.fitness)} \in SUBSET Int
           /\ IsFiniteSet({r.pop_index : r \in ToSet(Db.fitness)})
<1>1. Logged(Runs[run])
  BY ViewerAssumption DEF Loaded
<1>2. {r.ga_step : r \in ToSet(Db.grn)} \in SUBSET Int /\ IsFiniteSet({r.ga_step : r \in ToSet(Db.grn)})
  <2> DEFINE column == [r \in ToSet(Db.grn) |-> r.ga_step]
  <2>1. Db.grn \in Seq([ga_step : Int, pop_index : Int, split_pt : Int])
    BY <1>1 DEF Logged, Db
  <2>2. /\ ToSet(Db.grn) \in SUBSET [ga_step : Int, pop_index : Int, split_pt : Int]
        /\ IsFiniteSet(ToSet(Db.grn))
    BY <2>1, TableFinite
  <2>3. IsFiniteSet({column[r] : r \in ToSet(Db.grn)})
    BY <2>2, ImageFinite
  <2> QED BY <2>2, <2>3
<1>3. /\ {r.reg_step : r \in ToSet(Db.gene_state)} \in SUBSET (-1 .. RegSteps - 1)
      /\ IsFiniteSet({r.reg_step : r \in ToSet(Db.gene_state)})
  <2> DEFINE column == [r \in ToSet(Db.gene_state) |-> r.reg_step]
             Rows == [reg_step : -1 .. RegSteps - 1, active_output : Nat, bound_protein : Nat, gene_id : Nat]
  <2>1. Db.gene_state \in Seq(Rows)
    BY <1>1 DEF Logged, Db
  <2>2. ToSet(Db.gene_state) \in SUBSET Rows /\ IsFiniteSet(ToSet(Db.gene_state))
    <3> HIDE DEF Rows
    <3> QED BY <2>1, TableFinite
  <2>3. IsFiniteSet({column[r] : r \in ToSet(Db.gene_state)})
    BY <2>2, ImageFinite
  <2> QED BY <2>2, <2>3
<1>4. {r.pop_index : r \in ToSet(Db.fitness)} \in SUBSET Int /\ IsFiniteSet({r.pop_index : r \in ToSet(Db.fitness)})
  <2> DEFINE column == [r \in ToSet(Db.fitness) |-> r.pop_index]
  <2>1. Db.fitness \in Seq([ga_step : Int, pop_index : Int, fitness : Int])
    BY <1>1 DEF Logged, Db
  <2>2. /\ ToSet(Db.fitness) \in SUBSET [ga_step : Int, pop_index : Int, fitness : Int]
        /\ IsFiniteSet(ToSet(Db.fitness))
    BY <2>1, TableFinite
  <2>3. IsFiniteSet({column[r] : r \in ToSet(Db.fitness)})
    BY <2>2, ImageFinite
  <2> QED BY <2>2, <2>3
<1> QED BY <1>2, <1>3, <1>4

LEMMA StepsAre ==
    ASSUME Loaded
    PROVE  LET s == StepsIn(Db)
           IN /\ 1 \in DOMAIN s.ga /\ 1 \in DOMAIN s.reg /\ 1 \in DOMAIN s.pop
              /\ \A i \in DOMAIN s.ga : \E g \in ToSet(Db.grn) : g.ga_step = s.ga[i]
              /\ \A i \in DOMAIN s.reg : s.reg[i] \in -1 .. RegSteps - 1
              /\ Runs[run].log_mode # "best" =>
                   \A i \in DOMAIN s.pop : \E f \in ToSet(Db.fitness) : f.pop_index = s.pop[i]
<1> DEFINE gas == {r.ga_step : r \in ToSet(Db.grn)}
           regs == {r.reg_step : r \in ToSet(Db.gene_state)}
           pops == {r.pop_index : r \in ToSet(Db.fitness)}
<1>1. /\ gas \in SUBSET Int /\ IsFiniteSet(gas)
      /\ regs \in SUBSET (-1 .. RegSteps - 1) /\ IsFiniteSet(regs)
      /\ pops \in SUBSET Int /\ IsFiniteSet(pops)
  BY ColumnsFinite
<1>2. gas # {} /\ (Runs[run].log_mode # "best" => pops # {})
  <2>1. Logged(Runs[run])
    BY ViewerAssumption DEF Loaded
  <2>2. Db.grn \in Seq([ga_step : Int, pop_index : Int, split_pt : Int]) /\ Db.grn # << >>
    BY <2>1 DEF Logged, Db
  <2>3. Db.fitness \in Seq([ga_step : Int, pop_index : Int, fitness : Int])
        /\ (Runs[run].log_mode # "best" => Db.fitness # << >>)
    BY <2>1 DEF Logged, Db
  <2>4. 1 \in DOMAIN Db.grn
    BY <2>2
  <2>5. Runs[run].log_mode # "best" => 1 \in DOMAIN Db.fitness
    BY <2>3
  <2> QED BY <2>4, <2>5 DEF ToSet
<1>3. StepsIn(Db) = [ga |-> Distinct(gas), reg |-> Distinct(regs), pop |-> Distinct(pops)]
  BY DEF StepsIn
<1>4. RegSteps \in Nat
  BY DatabaseAssumption
<1> HIDE DEF gas, regs, pops
<1>5. 1 \in DOMAIN Distinct(gas) /\ \A i \in DOMAIN Distinct(gas) : Distinct(gas)[i] \in gas
  BY <1>1, <1>2, DistinctIs
<1>6. /\ 1 \in DOMAIN Distinct(regs)
      /\ \A i \in DOMAIN Distinct(regs) : Distinct(regs)[i] \in -1 .. RegSteps - 1
  <2>1. regs \in SUBSET Int
    BY <1>1
  <2>2. /\ 1 \in DOMAIN Distinct(regs)
        /\ \A i \in DOMAIN Distinct(regs) :
             Distinct(regs)[i] \in IF regs = {} THEN {-1} ELSE regs
    BY <1>1, <2>1, DistinctIs
  <2>3. -1 \in -1 .. RegSteps - 1
    BY <1>4
  <2> QED BY <1>1, <2>2, <2>3
<1>7. /\ 1 \in DOMAIN Distinct(pops)
      /\ pops # {} => \A i \in DOMAIN Distinct(pops) : Distinct(pops)[i] \in pops
  BY <1>1, DistinctIs
<1>8. \A i \in DOMAIN Distinct(gas) : \E g \in ToSet(Db.grn) : g.ga_step = Distinct(gas)[i]
  BY <1>5 DEF gas
<1>9. Runs[run].log_mode # "best" =>
        \A i \in DOMAIN Distinct(pops) : \E f \in ToSet(Db.fitness) : f.pop_index = Distinct(pops)[i]
  BY <1>2, <1>7 DEF pops
<1> QED BY <1>3, <1>5, <1>6, <1>7, <1>8, <1>9

(* A step and an individual with a row are a key, at every regulatory step.*)
LEMMA KeyIs ==
    ASSUME Loaded, NEW ga_step, NEW reg \in -1 .. RegSteps - 1, NEW pop,
           GrnIds(Db, ga_step, pop) # {}
    PROVE  <<ga_step, reg, pop>> \in K
<1>1. PICK i \in DOMAIN Db.grn : Db.grn[i].ga_step = ga_step /\ Db.grn[i].pop_index = pop
  BY DEF GrnIds
<1>2. Db.grn[i] \in ToSet(Db.grn)
  BY <1>1 DEF ToSet
<1>3. K = Keys(Db)
  BY DEF K, Loaded, ContentOf
<1> QED BY <1>1, <1>2, <1>3 DEF Keys

LEMMA LoadedContent == Loaded => ContentOK
<1> SUFFICES ASSUME Loaded PROVE ContentOK
  OBVIOUS
<1>1. Logged(Runs[run])
  BY ViewerAssumption DEF Loaded
<1>2. K = Keys(Db) /\ \A key \in K : Referred(key) \subseteq Pids(key)
  <2>1. K = Keys(Db)
    BY DEF K, Loaded, ContentOf
  <2>2. \A key \in Keys(Db) : content[key].referred \subseteq content[key].pids
    <3>1. \A key \in Keys(Db) : ContentOf(Db)[key].referred \subseteq ContentOf(Db)[key].pids
      BY <1>1 DEF Logged, Db
    <3> QED BY <3>1 DEF Loaded
  <2> QED BY <2>1, <2>2 DEF Referred, Pids
<1>3. Keys(Db) \subseteq Int \X Int \X Int
  <2>1. /\ Db.grn \in Seq([ga_step : Int, pop_index : Int, split_pt : Int])
        /\ Db.fitness \in Seq([ga_step : Int, pop_index : Int, fitness : Int])
    BY <1>1 DEF Logged, Db
  <2>2. /\ ToSet(Db.grn) \in SUBSET [ga_step : Int, pop_index : Int, split_pt : Int]
        /\ ToSet(Db.fitness) \in SUBSET [ga_step : Int, pop_index : Int, fitness : Int]
    BY <2>1, TableFinite
  <2> QED BY <2>2, DatabaseAssumption DEF Keys
<1> QED BY <1>2, <1>3 DEF ContentOK

(* The individual that the button is set to with log_mode "best".          *)
LEMMA PopIndexIs ==
    ASSUME Loaded, NEW g \in ToSet(Db.grn)
    PROVE  GrnIds(Db, g.ga_step, PopIndex(g.ga_step)) # {}
<1> DEFINE ids == {i \in DOMAIN Db.grn : Db.grn[i].ga_step = g.ga_step}
<1>1. Db.grn \in Seq([ga_step : Int, pop_index : Int, split_pt : Int])
  <2>1. Logged(Runs[run])
    BY ViewerAssumption DEF Loaded
  <2> QED BY <2>1 DEF Logged, Db
<1>2. ids \in SUBSET Nat /\ ids # {}
  <2>1. DOMAIN Db.grn \in SUBSET Nat
    BY <1>1
  <2>2. \E i \in DOMAIN Db.grn : Db.grn[i] = g
    BY DEF ToSet
  <2> QED BY <2>1, <2>2
<1>3. First(ids) \in ids
  <2> HIDE DEF ids
  <2>1. \E i \in ids : \A j \in ids : i <= j
    BY <1>2, NatMinimum
  <2> QED BY <2>1 DEF First
<1>4. PopIndex(g.ga_step) = Db.grn[First(ids)].pop_index
  BY DEF PopIndex, Db
<1> HIDE DEF First
<1>5. First(ids) \in GrnIds(Db, g.ga_step, PopIndex(g.ga_step))
  BY <1>3, <1>4 DEF GrnIds
<1> QED BY <1>5

(***************************************************************************)
(* The window.  The inductive invariant is that of the pictures, whose     *)
(* keys are all of the run that is open, with the range of the buttons;    *)
(* what is shown follows the buttons from one event to the next.           *)
(***************************************************************************)
PicturesOK ==
    /\ trees \in TreeStates /\ grns \in GrnStates
    /\ recent = [tree |-> KeysOf(trees.cache), grn |-> KeysOf(grns.cache)]

ButtonsOK(st, ix) ==
    LET s == StepsIn(Db)
    IN /\ st = [ga |-> s.ga, reg |-> s.reg, pop |-> st.pop]
       /\ ix = [b \in Buttons |-> ix[b]]
       /\ ix.ga \in DOMAIN s.ga /\ ix.reg \in DOMAIN s.reg
       /\ IF Runs[run].log_mode = "best" THEN ix.pop = 1
          ELSE st.pop = s.pop /\ ix.pop \in DOMAIN s.pop

BoxesOK == DOMAIN boxes \subseteq DOMAIN checked

IInv == Loaded /\ PicturesOK /\ ButtonsOK(steps, index) /\ BoxesOK /\ ShownIsCurrent

LEMMA TreeViewKeeps ==
    ASSUME ContentOK, NEW t \in TreeStates, NEW key \in K
    PROVE  /\ TreeView(t, key) \in TreeStates
           /\ KeysOf(TreeView(t, key).cache) = RecentTree(KeysOf(t.cache), key)
           /\ TreeView(t, key).shown <=> HasTree(key)
           /\ TreeView(t, key).shown => TreeView(t, key).img = key
<1> DEFINE drawn == TreeImg(t, key)
<1>1. /\ drawn \in TreeStates /\ KeysOf(drawn.cache) = RecentTree(KeysOf(t.cache), key)
      /\ drawn.img = IF HasTree(key) THEN key ELSE None
  BY TreeImgKeeps
<1>2. key # None
  BY ViewerAssumption DEF ContentOK
<1>3. TreeView(t, key) = IF drawn.img = None THEN [t EXCEPT !.shown = FALSE]
                         ELSE [drawn EXCEPT !.shown = TRUE]
  BY DEF TreeView
<1>4. PICK up \in Flags, down \in Flags : up = TRUE /\ down = FALSE
  BY DEF Flags
<1> HIDE DEF drawn
<1>5. CASE HasTree(key)
  <2>1. TreeView(t, key) = [cache |-> drawn.cache, img |-> key, shown |-> TRUE]
    BY <1>1, <1>2, <1>3, <1>5 DEF TreeStates
  <2>2. TreeView(t, key).shown = TRUE /\ TreeView(t, key).img = key
        /\ TreeView(t, key).cache = drawn.cache
    BY <2>1
  <2>3. TreeView(t, key) \in TreeStates
    <3>1. TreeView(t, key) = [cache |-> drawn.cache, img |-> key, shown |-> up]
      BY <1>4, <2>1, Zenon
    <3>2. drawn.cache \in Caches(TreeEntries)
      BY <1>1 DEF TreeStates
    <3> QED BY <3>1, <3>2 DEF TreeStates
  <2>4. TreeView(t, key).shown <=> HasTree(key)
    BY <1>5, <2>2, Zenon
  <2> QED BY <1>1, <2>2, <2>3, <2>4
<1>6. CASE ~ HasTree(key)
  <2>1. TreeView(t, key) = [cache |-> t.cache, img |-> t.img, shown |-> FALSE]
    BY <1>1, <1>3, <1>6 DEF TreeStates
  <2>2. TreeView(t, key).shown = FALSE /\ TreeView(t, key).cache = t.cache
    BY <2>1
  <2>3. TreeView(t, key) \in TreeStates
    <3>1. TreeView(t, key) = [cache |-> t.cache, img |-> t.img, shown |-> down]
      BY <1>4, <2>1, Zenon
    <3>2. t.cache \in Caches(TreeEntries) /\ t.img \in K \cup {None}
      BY DEF TreeStates
    <3> QED BY <3>1, <3>2 DEF TreeStates
  <2>4. ~ TreeView(t, key).shown /\ ~ HasTree(key)
    BY <1>6, <2>2, Zenon
  <2> QED BY <2>2, <2>3, <2>4 DEF RecentTree
<1> QED BY <1>5, <1>6

LEMMA SameStates ==
    ASSUME content' = content
    PROVE  TreeStates' = TreeStates /\ GrnStates' = GrnStates /\ K' = K
<1>1. K' = K
  BY DEF K
<1>2. TreeEntries' = TreeEntries /\ GrnEntries' = GrnEntries /\ Pictures' = Pictures /\ Proteins' = Proteins
  BY <1>1 DEF TreeEntries, GrnEntries, Pictures, Proteins, HasTree, Pids, WholePicture
<1> QED BY <1>1, <1>2 DEF TreeStates, GrnStates

LEMMA UpdateViewsInv ==
    ASSUME Loaded, PicturesOK, ButtonsOK(steps, index'), UpdateViews, UNCHANGED opened
    PROVE  IInv'
<1> DEFINE ga == steps.ga[index'.ga]
           reg == steps.reg[index'.reg]
           pop == steps'.pop[index'.pop]
           key == <<ga, reg, pop>>
           best == Runs[run].log_mode = "best"
<1>1. run' = run /\ content' = content /\ Db' = Db
  BY DEF opened, Db
<1>2. Loaded'
  BY <1>1 DEF Loaded
<1>3. /\ steps.ga = StepsIn(Db).ga /\ steps.reg = StepsIn(Db).reg
      /\ index'.ga \in DOMAIN steps.ga /\ index'.reg \in DOMAIN steps.reg
  BY DEF ButtonsOK
<1>4. steps' = IF best THEN [steps EXCEPT !.pop = <<PopIndex(ga), PopIndex(ga)>>] ELSE steps
  BY DEF UpdateViews
<1>5. steps'.ga = steps.ga /\ steps'.reg = steps.reg /\ ButtonsOK(steps', index')
  <2>1. CASE best
    BY <1>4, <2>1 DEF ButtonsOK
  <2>2. CASE ~ best
    BY <1>4, <2>2 DEF ButtonsOK
  <2> QED BY <2>1, <2>2
<1>6. ButtonsOK(steps, index)'
  BY <1>1, <1>5 DEF ButtonsOK
<1>7. GrnIds(Db, ga, pop) # {}
  <2>1. PICK g \in ToSet(Db.grn) : g.ga_step = ga
    BY <1>3, StepsAre
  <2>2. CASE best
    <3>1. pop = PopIndex(ga)
      BY <1>4, <2>2 DEF ButtonsOK
    <3> HIDE DEF ga, pop
    <3> QED BY <2>1, <3>1, PopIndexIs
  <2>3. CASE ~ best
    <3>1. pop = StepsIn(Db).pop[index'.pop] /\ index'.pop \in DOMAIN StepsIn(Db).pop
      BY <1>4, <2>3 DEF ButtonsOK
    <3>2. PICK f \in ToSet(Db.fitness) : f.pop_index = pop
      BY <2>3, <3>1, StepsAre
    <3>3. \A x \in ToSet(Db.grn), y \in ToSet(Db.fitness) : GrnIds(Db, x.ga_step, y.pop_index) # {}
      BY <2>3, ViewerAssumption DEF Loaded, Logged, Db
    <3> HIDE DEF ga, pop
    <3> QED BY <2>1, <3>2, <3>3
  <2> QED BY <2>2, <2>3
<1>8. key \in K
  <2>1. reg \in -1 .. RegSteps - 1
    BY <1>3, StepsAre
  <2> HIDE DEF ga, reg, pop
  <2> QED BY <1>7, <2>1, KeyIs
<1>9. Current' = key
  BY <1>5 DEF Current, Value
<1>10. /\ UpdateList(key) /\ trees' = TreeView(trees, key)
       /\ grns' = GrnImg(grns, key, Unchecked(boxes'))
       /\ recent' = [tree |-> RecentTree(recent.tree, key),
                     grn |-> RecentGrn(recent.grn, key, Unchecked(boxes'))]
  BY DEF UpdateViews
<1> HIDE DEF ga, reg, pop, key, best
<1>11. /\ trees' \in TreeStates /\ KeysOf(trees'.cache) = RecentTree(KeysOf(trees.cache), key)
       /\ trees'.shown <=> HasTree(key)
       /\ trees'.shown => trees'.img = key
  <2>1. trees \in TreeStates /\ ContentOK /\ trees' = TreeView(trees, key)
    BY <1>10, LoadedContent DEF PicturesOK
  <2> QED BY <1>8, <2>1, TreeViewKeeps
<1>12. /\ grns' \in GrnStates /\ grns'.img.key = key
       /\ KeysOf(grns'.cache) = RecentGrn(KeysOf(grns.cache), key, Unchecked(boxes'))
  BY <1>8, <1>10, GrnImgKeeps, LoadedContent DEF PicturesOK
<1>13. PicturesOK'
  BY <1>1, <1>10, <1>11, <1>12, SameStates DEF PicturesOK
<1>14. DOMAIN boxes' = Pids(key) /\ \A pid \in DOMAIN boxes' : boxes'[pid] = checked'[pid]
  BY <1>10 DEF UpdateList
<1>15. (GrnIds(Runs[run].db, Value("ga"), Value("pop")) # {})'
  <2>1. Value("ga")' = ga /\ Value("pop")' = pop
    BY <1>5 DEF Value, ga, pop
  <2> QED BY <1>1, <1>7, <2>1 DEF Db, GrnIds
<1>16. HasTree(Current)' = HasTree(key) /\ Pids(Current)' = Pids(key)
  BY <1>1, <1>9 DEF HasTree, Pids
<1>17. ShownIsCurrent'
  BY <1>9, <1>11, <1>12, <1>14, <1>15, <1>16 DEF ShownIsCurrent
<1>18. BoxesOK'
  BY <1>10 DEF UpdateList, BoxesOK
<1> QED BY <1>2, <1>6, <1>13, <1>17, <1>18 DEF IInv

LEMMA InitInv == Init => IInv
<1> SUFFICES ASSUME Init PROVE IInv
  OBVIOUS
<1>1. Loaded
  BY DEF Init, Loaded, Db
<1>2. PicturesOK
  <2>1. << >> \in Caches(TreeEntries) /\ << >> \in Caches(GrnEntries)
    BY ViewerAssumption DEF Caches
  <2>2. PICK up \in Flags : up = TRUE
    BY DEF Flags
  <2>3. trees = [cache |-> << >>, img |-> None, shown |-> up]
    BY <2>2, Zenon DEF Init
  <2>4. trees \in TreeStates /\ trees.cache = << >>
    BY <2>1, <2>3 DEF TreeStates
  <2>5. grns \in GrnStates /\ grns.cache = << >>
    BY <2>1 DEF Init, GrnStates
  <2>6. KeysOf(<< >>) = << >>
    BY DEF KeysOf
  <2> QED BY <2>4, <2>5, <2>6 DEF Init, PicturesOK
<1>3. ButtonsOK(steps, index)
  <2>1. steps = StepsIn(Db) /\ index = [b \in Buttons |-> 1]
    BY DEF Init, Db
  <2>2. 1 \in DOMAIN StepsIn(Db).ga /\ 1 \in DOMAIN StepsIn(Db).reg /\ 1 \in DOMAIN StepsIn(Db).pop
    BY <1>1, StepsAre
  <2>3. steps = [ga |-> StepsIn(Db).ga, reg |-> StepsIn(Db).reg, pop |-> steps.pop]
    BY <2>1 DEF StepsIn
  <2>4. index.ga = 1 /\ index.reg = 1 /\ index.pop = 1 /\ index = [b \in Buttons |-> index[b]]
    BY <2>1 DEF Buttons
  <2> QED BY <2>1, <2>2, <2>3, <2>4 DEF ButtonsOK
<1>4. ShownIsCurrent
  BY DEF Init, ShownIsCurrent, Opened
<1>5. BoxesOK
  BY DEF Init, BoxesOK
<1> QED BY <1>1, <1>2, <1>3, <1>4, <1>5 DEF IInv

LEMMA OpenInv == IInv /\ Open => IInv'
<1> SUFFICES ASSUME IInv, Open PROVE IInv'
  OBVIOUS
<1>1. ButtonsOK(steps, index')
  BY DEF IInv, Open
<1> QED BY <1>1, UpdateViewsInv DEF IInv, Open

LEMMA MoveToInv ==
    ASSUME IInv, NEW b \in Buttons, NEW i, MoveTo(b, i)
    PROVE  IInv'
<1> DEFINE best == Runs[run].log_mode = "best"
<1>1. ButtonsOK(steps, index) /\ i \in DOMAIN steps[b] /\ (best => b # "pop")
  BY DEF IInv, MoveTo, Sensitive
<1>2. index' = [index EXCEPT ![b] = i, !.pop = IF best THEN 1 ELSE IF b = "pop" THEN i ELSE @]
  BY DEF MoveTo
<1>3. index = [c \in Buttons |-> index[c]]
  BY <1>1 DEF ButtonsOK
<1>4. index' = [c \in Buttons |-> IF c = "pop" /\ best THEN 1 ELSE IF c = b THEN i ELSE index[c]]
  BY <1>2, <1>3 DEF Buttons
<1>5. index' = [c \in Buttons |-> index'[c]]
  BY <1>4
<1>6. ButtonsOK(steps, index')
  <2>1. CASE b = "pop"
    BY <1>1, <1>4, <1>5, <2>1 DEF ButtonsOK, Buttons
  <2>2. CASE b = "ga"
    BY <1>1, <1>4, <1>5, <2>2 DEF ButtonsOK, Buttons
  <2>3. CASE b = "reg"
    BY <1>1, <1>4, <1>5, <2>3 DEF ButtonsOK, Buttons
  <2> QED BY <2>1, <2>2, <2>3 DEF Buttons
<1> QED BY <1>6, UpdateViewsInv DEF IInv, MoveTo

LEMMA SameWindow ==
    ASSUME IInv, UNCHANGED <<opened, steps, index>>, PicturesOK', BoxesOK', ShownIsCurrent'
    PROVE  IInv'
<1>1. run' = run /\ content' = content
  BY DEF opened
<1>2. Loaded' /\ ButtonsOK(steps, index)'
  BY <1>1 DEF IInv, Loaded, ButtonsOK, Db
<1> QED BY <1>2 DEF IInv

LEMMA SameShown ==
    ASSUME UNCHANGED <<opened, steps, index>>
    PROVE  /\ Current' = Current /\ HasTree(Current)' = HasTree(Current)
           /\ Pids(Current)' = Pids(Current)
           /\ (GrnIds(Runs[run].db, Value("ga"), Value("pop")) # {})'
                <=> GrnIds(Runs[run].db, Value("ga"), Value("pop")) # {}
<1>1. run' = run /\ content' = content /\ steps' = steps /\ index' = index
  BY DEF opened
<1>2. Value("ga")' = Value("ga") /\ Value("reg")' = Value("reg") /\ Value("pop")' = Value("pop")
  BY <1>1 DEF Value
<1>3. Current' = Current
  BY <1>2 DEF Current
<1> QED BY <1>1, <1>2, <1>3 DEF HasTree, Pids, GrnIds

LEMMA ToggleInv ==
    ASSUME IInv, Opened, NEW pids, NEW active, Toggle(pids, active)
    PROVE  IInv'
<1>1. /\ content' = content /\ UNCHANGED <<opened, steps, index>>
      /\ trees' = trees /\ grns' = grns /\ recent' = recent
  BY DEF Toggle, opened
<1>2. PicturesOK'
  BY <1>1, SameStates DEF IInv, PicturesOK
<1>3. /\ DOMAIN boxes' = DOMAIN boxes
      /\ \A pid \in DOMAIN boxes : boxes'[pid] = IF pid \in pids THEN active ELSE boxes[pid]
  BY DEF Toggle
<1>4. /\ DOMAIN checked' = DOMAIN checked
      /\ \A pid \in DOMAIN checked :
           checked'[pid] = IF pid \in pids THEN active ELSE checked[pid]
  BY DEF Toggle
<1>5. BoxesOK'
  BY <1>3, <1>4 DEF IInv, BoxesOK
<1>6. /\ grns.img.key = Current
      /\ trees.shown <=> HasTree(Current)
      /\ trees.shown => trees.img = Current
      /\ GrnIds(Runs[run].db, Value("ga"), Value("pop")) # {}
      /\ DOMAIN boxes = Pids(Current)
      /\ \A pid \in DOMAIN boxes : boxes[pid] = checked[pid]
  BY DEF IInv, ShownIsCurrent
<1>7. \A pid \in DOMAIN boxes' : boxes'[pid] = checked'[pid]
  <2>1. DOMAIN boxes \subseteq DOMAIN checked
    BY DEF IInv, BoxesOK
  <2> QED BY <1>3, <1>4, <1>6, <2>1
<1>8. ShownIsCurrent'
  BY <1>1, <1>3, <1>6, <1>7, SameShown DEF ShownIsCurrent
<1> QED BY <1>1, <1>2, <1>5, <1>8, SameWindow

(* What is shown has a row, and is thus a key: so is every step that is    *)
(* precomputed of the same individual.                                     *)
LEMMA CurrentIsKey ==
    ASSUME IInv, Opened
    PROVE  Current \in K /\ \A k \in 1 .. RegSteps : <<Value("ga"), k - 1, Value("pop")>> \in K
<1>1. Loaded /\ ButtonsOK(steps, index) /\ GrnIds(Db, Value("ga"), Value("pop")) # {}
  BY DEF IInv, ShownIsCurrent, Db
<1>2. Value("reg") \in -1 .. RegSteps - 1
  BY <1>1, StepsAre DEF ButtonsOK, Value
<1>3. \A k \in 1 .. RegSteps : k - 1 \in -1 .. RegSteps - 1
  BY DatabaseAssumption
<1> QED BY <1>1, <1>2, <1>3, KeyIs DEF Current

LEMMA UpdateGrnViewInv == IInv /\ Opened /\ UpdateGrnView => IInv'
<1> SUFFICES ASSUME IInv, Opened, UpdateGrnView PROVE IInv'
  OBVIOUS
<1>1. /\ content' = content /\ UNCHANGED <<opened, steps, index>>
      /\ trees' = trees /\ boxes' = boxes /\ checked' = checked
      /\ grns' = GrnImg(grns, Current, Unchecked(boxes))
      /\ recent' = [recent EXCEPT !.grn = RecentGrn(@, Current, Unchecked(boxes))]
  BY DEF UpdateGrnView, opened
<1>2. Current \in K /\ ContentOK
  BY CurrentIsKey, LoadedContent DEF IInv
<1>3. /\ grns' \in GrnStates /\ grns'.img.key = Current
      /\ KeysOf(grns'.cache) = RecentGrn(KeysOf(grns.cache), Current, Unchecked(boxes))
  BY <1>1, <1>2, GrnImgKeeps DEF IInv, PicturesOK
<1>4. PicturesOK'
  BY <1>1, <1>3, SameStates DEF IInv, PicturesOK
<1>5. BoxesOK'
  BY <1>1 DEF IInv, BoxesOK
<1>6. ShownIsCurrent'
  BY <1>1, <1>3, SameShown DEF IInv, ShownIsCurrent
<1> QED BY <1>1, <1>4, <1>5, <1>6, SameWindow

LEMMA PrecompRegStepsInv == IInv /\ Opened /\ PrecompRegSteps => IInv'
<1> SUFFICES ASSUME IInv, Opened, PrecompRegSteps PROVE IInv'
  OBVIOUS
<1>1. /\ content' = content /\ UNCHANGED <<opened, steps, index>>
      /\ boxes' = boxes /\ checked' = checked
      /\ trees' = [Precomputed.trees EXCEPT !.img = trees.img]
      /\ grns' = [Precomputed.grns EXCEPT !.img = grns.img]
      /\ recent' = Precomputed.recent
  BY DEF PrecompRegSteps, opened
<1>2. trees \in TreeStates /\ grns \in GrnStates
      /\ recent = [tree |-> KeysOf(trees.cache), grn |-> KeysOf(grns.cache)]
  BY DEF IInv, PicturesOK
<1>3. Now \in Drawn(trees.shown)
  BY <1>2 DEF Now, Drawn, Drawings, Drawing
<1>4. ContentOK /\ \A k \in 1 .. RegSteps : <<Value("ga"), k - 1, Value("pop")>> \in K
  BY CurrentIsKey, LoadedContent DEF IInv
<1>5. Precomputed \in Drawn(trees.shown)
  BY <1>3, <1>4, PrecomputedIs
<1>6. PICK t \in TreeStates, g \in GrnStates : Precomputed = Drawing(t, g) /\ t.shown = trees.shown
  BY <1>5 DEF Drawn, Drawings, Drawing
<1>7. trees' = [t EXCEPT !.img = trees.img] /\ grns' = [g EXCEPT !.img = grns.img]
      /\ recent' = [tree |-> KeysOf(t.cache), grn |-> KeysOf(g.cache)]
  BY <1>1, <1>6 DEF Drawing
<1>8. /\ trees' \in TreeStates /\ trees'.cache = t.cache
      /\ trees'.img = trees.img /\ trees'.shown = trees.shown
  BY <1>2, <1>6, <1>7 DEF TreeStates
<1>9. grns' \in GrnStates /\ grns'.cache = g.cache /\ grns'.img = grns.img
  BY <1>2, <1>6, <1>7 DEF GrnStates
<1>10. PicturesOK'
  BY <1>1, <1>7, <1>8, <1>9, SameStates DEF PicturesOK
<1>11. BoxesOK'
  BY <1>1 DEF IInv, BoxesOK
<1>12. ShownIsCurrent'
  BY <1>1, <1>8, <1>9, SameShown DEF IInv, ShownIsCurrent
<1> QED BY <1>1, <1>10, <1>11, <1>12, SameWindow

LEMMA NextInv == IInv /\ [Next]_vars => IInv'
<1> SUFFICES ASSUME IInv, [Next]_vars PROVE IInv'
  OBVIOUS
<1>1. CASE Open
  BY <1>1, OpenInv
<1>2. CASE Navigate
  <2>1. PICK b \in Buttons : Spin(b) \/ SetText(b)
    BY <1>2 DEF Navigate
  <2>2. \E i : MoveTo(b, i)
    BY <2>1 DEF Spin, SetText
  <2> QED BY <2>2, MoveToInv
<1>3. CASE Choose
  <2>1. Opened /\ \E pids, active : Toggle(pids, active)
    BY <1>3 DEF Choose, ToggleProtein, SetChecks
  <2> QED BY <2>1, ToggleInv
<1>4. CASE Draw
  BY <1>4, UpdateGrnViewInv, PrecompRegStepsInv DEF Draw
<1>5. CASE UNCHANGED vars
  <2>1. /\ content' = content /\ UNCHANGED <<opened, steps, index>> /\ UNCHANGED <<checked, boxes>>
        /\ trees' = trees /\ grns' = grns /\ recent' = recent
    BY <1>5 DEF vars, opened
  <2>2. PicturesOK' /\ BoxesOK'
    BY <2>1, SameStates DEF IInv, PicturesOK, BoxesOK
  <2>3. ShownIsCurrent'
    BY <2>1, SameShown DEF IInv, ShownIsCurrent, Opened
  <2> QED BY <2>1, <2>2, <2>3, SameWindow
<1> QED BY <1>1, <1>2, <1>3, <1>4, <1>5 DEF Next

LEMMA SpecInv == Spec => []IInv
<1> QED BY InitInv, NextInv, PTL DEF Spec

(* Whatever is drawn, checked and unchecked before, only the whole picture *)
(* of its key enters a cache, and a picture of a program only where there  *)
(* is one (view_window.py:185-213, 238, graph_gen.py:307-311).             *)
THEOREM CachesKeepWholePictures == Spec => []CachedAreWhole
<1>1. IInv => CachedAreWhole
  <2> SUFFICES ASSUME IInv PROVE CachedAreWhole
    OBVIOUS
  <2>1. trees.cache \in Seq(TreeEntries) /\ grns.cache \in Seq(GrnEntries)
    BY DEF IInv, PicturesOK, TreeStates, GrnStates, Caches
  <2>2. \A i \in DOMAIN trees.cache : trees.cache[i].picture = trees.cache[i].key
    BY <2>1 DEF TreeEntries
  <2>3. \A i \in DOMAIN grns.cache : grns.cache[i].picture = WholePicture(grns.cache[i].key)
    BY <2>1 DEF GrnEntries
  <2> QED BY <2>2, <2>3 DEF CachedAreWhole, WholePicture
<1> QED BY <1>1, SpecInv, PTL

(* Each cache holds the pictures used last, each once, whatever its size   *)
(* (view_window.py:33-36, 194-209).                                        *)
THEOREM CachesKeepTheRecent == Spec => []CachesHoldTheRecent
<1>1. IInv => CachesHoldTheRecent
  <2> SUFFICES ASSUME IInv PROVE CachesHoldTheRecent
    OBVIOUS
  <2>1. trees.cache \in Caches(TreeEntries) /\ grns.cache \in Caches(GrnEntries)
        /\ recent.tree = KeysOf(trees.cache) /\ recent.grn = KeysOf(grns.cache)
    BY DEF IInv, PicturesOK, TreeStates, GrnStates
  <2>2. ASSUME NEW E, NEW cache \in Caches(E) PROVE IsInjective(KeysOf(cache))
    BY DEF Caches, KeysOf, IsInjective
  <2> QED BY <2>1, <2>2 DEF CachesHoldTheRecent
<1> QED BY <1>1, SpecInv, PTL

(* After every event, what is shown and would be saved is of the step and  *)
(* the individual that the buttons name, which the database has, with the  *)
(* boxes of its proteins as they were left (view_window.py:215-267,        *)
(* protein_frame.py:38-75).                                                *)
THEOREM ShowsTheCurrent == Spec => []ShownIsCurrent
<1>1. IInv => ShownIsCurrent
  BY DEF IInv
<1> QED BY <1>1, SpecInv, PTL
=============================================================================
