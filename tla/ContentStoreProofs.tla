------------------------- MODULE ContentStoreProofs -------------------------
(***************************************************************************)
(* Proofs about ContentStore for every set of sources and prefixes, every  *)
(* cache size and every range of time stamps.                              *)
(***************************************************************************)
EXTENDS ContentStore, FiniteSetTheorems, WellFoundedInduction, SequenceTheorems,
        TLAPS

-----------------------------------------------------------------------------
(***************************************************************************)
(* Natural numbers, and the list of a content store, which grows at its    *)
(* head and loses an entry anywhere.                                       *)
(***************************************************************************)

\* A nonempty set of natural numbers has a least element.
LEMMA LeastNatural ==
    \A U \in SUBSET Nat : U # {} => \E x \in U : \A y \in U : x <= y
<1> SUFFICES ASSUME NEW U \in SUBSET Nat, U # {}
             PROVE  \E x \in U : \A y \in U : x <= y
    OBVIOUS
<1>1. \E x \in U : \A y \in U : ~(<<y, x>> \in OpToRel(<, Nat))
    BY NatLessThanWellFounded, WFMin
<1>2. \A x, y \in U : ~(<<y, x>> \in OpToRel(<, Nat)) => x <= y
    BY DEF OpToRel
<1> QED BY <1>1, <1>2

\* DBL_LINKED_LIST_ADD: the new entry is the head, the others move up by one.
LEMMA ConsAt ==
    ASSUME NEW T, NEW s \in Seq(T), NEW e \in T
    PROVE  /\ Cons(e, s) \in Seq(T)
           /\ Len(Cons(e, s)) = Len(s) + 1
           /\ Cons(e, s)[1] = e
           /\ \A i \in DOMAIN s : Cons(e, s)[i + 1] = s[i]
<1>1. <<e>> \in Seq(T) /\ Len(<<e>>) = 1 /\ <<e>>[1] = e
    OBVIOUS
<1> QED BY <1>1 DEF Cons

\* Removing one entry keeps the others in their order.
LEMMA RemoveAtAt ==
    ASSUME NEW T, NEW s \in Seq(T), NEW v \in DOMAIN s
    PROVE  /\ RemoveAt(s, v) \in Seq(T)
           /\ Len(RemoveAt(s, v)) = Len(s) - 1
           /\ \A i \in 1..(Len(s) - 1) :
                  RemoveAt(s, v)[i] = IF i < v THEN s[i] ELSE s[i + 1]
<1> DEFINE a == SubSeq(s, 1, v - 1)
           b == SubSeq(s, v + 1, Len(s))
<1>1. v \in 1..Len(s) /\ Len(s) \in Nat
    OBVIOUS
<1>2. /\ a \in Seq(T) /\ Len(a) = v - 1
      /\ \A i \in 1..(v - 1) : a[i] = s[i]
    BY <1>1, SubSeqProperties
<1>3. /\ b \in Seq(T) /\ Len(b) = Len(s) - v
      /\ \A i \in 1..(Len(s) - v) : b[i] = s[v + i]
    BY <1>1, SubSeqProperties
<1>4. RemoveAt(s, v) = a \o b
    BY DEF RemoveAt
<1> HIDE DEF a, b
<1>5. /\ a \o b \in Seq(T) /\ Len(a \o b) = Len(s) - 1
      /\ \A i \in 1..(Len(s) - 1) :
            (a \o b)[i] = IF i <= v - 1 THEN a[i] ELSE b[i - (v - 1)]
    <2>1. /\ a \o b \in Seq(T) /\ Len(a \o b) = Len(a) + Len(b)
          /\ \A i \in 1..(Len(a) + Len(b)) :
                (a \o b)[i] = IF i <= Len(a) THEN a[i] ELSE b[i - Len(a)]
        BY <1>2, <1>3, ConcatProperties, Zenon
    <2>2. Len(a) + Len(b) = Len(s) - 1
        BY <1>1, <1>2, <1>3
    <2> QED BY <2>1, <2>2, <1>2
<1>6. ASSUME NEW i \in 1..(Len(s) - 1)
      PROVE  (a \o b)[i] = IF i < v THEN s[i] ELSE s[i + 1]
    <2>1. CASE i < v
        BY <2>1, <1>1, <1>2, <1>5
    <2>2. CASE ~(i < v)
        <3>1. i - (v - 1) \in 1..(Len(s) - v) /\ v + (i - (v - 1)) = i + 1
            BY <2>2, <1>1
        <3>2. (a \o b)[i] = b[i - (v - 1)]
            BY <2>2, <1>1, <1>5
        <3> QED BY <2>2, <3>1, <3>2, <1>3
    <2> QED BY <2>1, <2>2
<1> QED BY <1>4, <1>5, <1>6

\* x is s with a new head e for the entry at v.
Replaced(s, v, e, x) ==
    /\ Len(x) = Len(s)
    /\ 1 \in DOMAIN x
    /\ x[1] = e
    /\ \A k \in DOMAIN x \ {1} : \E i \in DOMAIN s \ {v} : x[k] = s[i]
    /\ \A i \in DOMAIN s \ {v} : \E k \in DOMAIN x \ {1} : x[k] = s[i]

\* What replacing the entry at v by a new head e keeps and adds.
LEMMA ReplacedEntries ==
    ASSUME NEW T, NEW s \in Seq(T), NEW v \in DOMAIN s, NEW e \in T
    PROVE  /\ Cons(e, RemoveAt(s, v)) \in Seq(T)
           /\ Replaced(s, v, e, Cons(e, RemoveAt(s, v)))
<1> DEFINE x == Cons(e, RemoveAt(s, v))
           r == RemoveAt(s, v)
<1>1. /\ r \in Seq(T) /\ Len(r) = Len(s) - 1
      /\ \A i \in 1..(Len(s) - 1) : r[i] = IF i < v THEN s[i] ELSE s[i + 1]
    BY RemoveAtAt
<1> HIDE DEF r, x
<1>2. /\ x \in Seq(T) /\ Len(x) = Len(r) + 1 /\ x[1] = e
      /\ \A i \in DOMAIN r : x[i + 1] = r[i]
    BY <1>1, ConsAt DEF r, x
<1>3. v \in 1..Len(s) /\ Len(s) \in Nat /\ DOMAIN s = 1..Len(s) /\ DOMAIN x = 1..Len(s)
      /\ DOMAIN r = 1..(Len(s) - 1)
    BY <1>1, <1>2
<1>4. ASSUME NEW k \in DOMAIN x \ {1}
      PROVE  \E i \in DOMAIN s \ {v} : x[k] = s[i]
    <2>1. k - 1 \in DOMAIN r /\ x[k] = r[k - 1]
        BY <1>2, <1>3
    <2>2. r[k - 1] = IF k - 1 < v THEN s[k - 1] ELSE s[k]
        BY <2>1, <1>1, <1>3
    <2> QED BY <2>1, <2>2, <1>3
<1>5. ASSUME NEW i \in DOMAIN s \ {v}
      PROVE  \E k \in DOMAIN x \ {1} : x[k] = s[i]
    <2>1. CASE i < v
        <3>1. i \in DOMAIN r /\ r[i] = s[i] /\ x[i + 1] = r[i] /\ i + 1 \in DOMAIN x \ {1}
            BY <2>1, <1>1, <1>2, <1>3
        <3> QED BY <3>1
    <2>2. CASE ~(i < v)
        <3>1. i - 1 \in DOMAIN r /\ r[i - 1] = s[i] /\ x[i] = r[i - 1] /\ i \in DOMAIN x \ {1}
            BY <2>2, <1>1, <1>2, <1>3
        <3> QED BY <3>1
    <2> QED BY <2>1, <2>2
<1>6. x \in Seq(T) /\ Len(x) = Len(s) /\ 1 \in DOMAIN x /\ x[1] = e
    BY <1>1, <1>2, <1>3
<1> QED BY <1>4, <1>5, <1>6 DEF Replaced, x

-----------------------------------------------------------------------------
(***************************************************************************)
(* The operators of the store.                                             *)
(***************************************************************************)

LEMMA StrtolNat == \A ts \in TimeStamps : strtol(ts) \in Nat
BY ConstantsAssumption DEF strtol, TimeStamps

\* What is stored at a position, and with one of its flags changed.
LEMMA EntriesAt ==
    ASSUME NEW s \in Seq(Entries), NEW i \in DOMAIN s
    PROVE  /\ i \in Nat
           /\ s[i] \in Entries
           /\ strtol(s[i].ts) \in Nat
           /\ \A b \in BOOLEAN : [s[i] EXCEPT !.user1 = b] \in Entries
           /\ \A b \in BOOLEAN : [s[i] EXCEPT !.user2 = b] \in Entries
<1>1. i \in Nat /\ s[i] \in Entries
    OBVIOUS
<1>2. s[i].ts \in TimeStamps
    BY <1>1 DEF Entries
<1>3. \A e \in Entries, b \in BOOLEAN :
        [e EXCEPT !.user1 = b] \in Entries /\ [e EXCEPT !.user2 = b] \in Entries
    BY DEF Entries
<1> QED BY <1>1, <1>2, <1>3, StrtolNat

\* The scan for the oldest entry returns one of the candidates, and none of
\* them is older.
LEMMA OldestIsLeast ==
    ASSUME NEW s \in Seq(Entries), NEW I \in SUBSET DOMAIN s, I # {}
    PROVE  /\ Oldest(s, I) \in I
           /\ \A j \in I : strtol(s[Oldest(s, I)].ts) <= strtol(s[j].ts)
<1> DEFINE V == {strtol(s[i].ts) : i \in I}
           LeastAt(i) == \A j \in I : \/ strtol(s[i].ts) < strtol(s[j].ts)
                                      \/ strtol(s[i].ts) = strtol(s[j].ts) /\ i <= j
<1>1. \A i \in I : i \in Nat /\ strtol(s[i].ts) \in Nat
    BY EntriesAt
<1>2. PICK t \in V : \A u \in V : t <= u
    <2>1. V \in SUBSET Nat /\ V # {}
        BY <1>1
    <2> HIDE DEF V
    <2> QED BY <2>1, LeastNatural
<1> DEFINE J == {i \in I : strtol(s[i].ts) = t}
<1>3. PICK i \in J : \A j \in J : i <= j
    <2>1. J \in SUBSET Nat /\ J # {}
        BY <1>1, <1>2
    <2> HIDE DEF J
    <2> QED BY <2>1, LeastNatural
<1>4. i \in I /\ LeastAt(i)
    <2>1. \A j \in I : t <= strtol(s[j].ts)
        BY <1>2
    <2>2. \A j \in I : strtol(s[j].ts) = t => i <= j
        BY <1>3
    <2>3. i \in I /\ strtol(s[i].ts) = t
        BY <1>3
    <2> QED BY <2>1, <2>2, <2>3, <1>1
<1>5. Oldest(s, I) \in I /\ LeastAt(Oldest(s, I))
    <2>1. Oldest(s, I) = CHOOSE k \in I : LeastAt(k)
        BY DEF Oldest
    <2> HIDE DEF LeastAt
    <2> QED BY <1>4, <2>1
<1> QED BY <1>1, <1>5

\* What the strategy removes is at most one entry, and it is an entry; it is
\* never younger than a chunk of its own name, and flagged entries of other
\* names are safe as long as another entry has no flag.
LEMMA StrategyVictim ==
    ASSUME NEW s \in Seq(Entries), s # <<>>, NEW c \in Entries
    PROVE  /\ cs_oldest_representative(s, c) \in SUBSET DOMAIN s
           /\ \A v, w \in cs_oldest_representative(s, c) : v = w
           /\ SameName(s, c.name) # {} =>
                \/ /\ cs_oldest_representative(s, c) = {}
                   /\ \A i \in SameName(s, c.name) : strtol(s[i].ts) > strtol(c.ts)
                \/ \E v \in SameName(s, c.name) :
                    /\ cs_oldest_representative(s, c) = {v}
                    /\ strtol(s[v].ts) <= strtol(c.ts)
                    /\ \A i \in SameName(s, c.name) : strtol(s[v].ts) <= strtol(s[i].ts)
           /\ SameName(s, c.name) = {} /\ Unflagged(s) # {} =>
                \E v \in Unflagged(s) : cs_oldest_representative(s, c) = {v}
<1> DEFINE same == SameName(s, c.name)
           foreign == Unregistered(s, registered)
<1>1. /\ same \in SUBSET DOMAIN s /\ Unflagged(s) \in SUBSET DOMAIN s
      /\ foreign \in SUBSET DOMAIN s /\ DOMAIN s # {}
    BY DEF SameName, Unflagged, Unregistered
<1>2. strtol(c.ts) \in Nat /\ \A i \in DOMAIN s : strtol(s[i].ts) \in Nat
    <2>1. c.ts \in TimeStamps
        BY DEF Entries
    <2> QED BY <2>1, StrtolNat, EntriesAt
<1>3. \A I \in SUBSET DOMAIN s : I # {} =>
        Oldest(s, I) \in I /\ \A j \in I : strtol(s[Oldest(s, I)].ts) <= strtol(s[j].ts)
    BY OldestIsLeast
<1>4. CASE same # {}
    <2>1. cs_oldest_representative(s, c) =
            IF strtol(s[Oldest(s, same)].ts) > strtol(c.ts) THEN {} ELSE {Oldest(s, same)}
        BY <1>4 DEF cs_oldest_representative, TooOld
    <2>2. Oldest(s, same) \in same
          /\ \A j \in same : strtol(s[Oldest(s, same)].ts) <= strtol(s[j].ts)
        BY <1>1, <1>3, <1>4
    <2> HIDE DEF same
    <2>3. CASE strtol(s[Oldest(s, same)].ts) > strtol(c.ts)
        <3>1. \A i \in same : strtol(s[i].ts) > strtol(c.ts)
            BY <2>2, <2>3, <1>1, <1>2
        <3>2. cs_oldest_representative(s, c) = {}
            BY <2>1, <2>3
        <3> QED BY <3>1, <3>2, <1>4 DEF same
    <2>4. CASE ~(strtol(s[Oldest(s, same)].ts) > strtol(c.ts))
        <3>1. cs_oldest_representative(s, c) = {Oldest(s, same)}
            BY <2>1, <2>4
        <3>2. strtol(s[Oldest(s, same)].ts) <= strtol(c.ts)
            BY <2>2, <2>4, <1>1, <1>2
        <3> QED BY <3>1, <3>2, <2>2, <1>1, <1>4 DEF same
    <2> QED BY <2>3, <2>4
<1>5. CASE same = {} /\ Unflagged(s) # {}
    <2>1. cs_oldest_representative(s, c) = {Oldest(s, Unflagged(s))}
        BY <1>5 DEF cs_oldest_representative, TooOld
    <2> QED BY <2>1, <1>1, <1>3, <1>5
<1>6. CASE same = {} /\ Unflagged(s) = {}
    <2>1. \/ cs_oldest_representative(s, c) = {}
          \/ foreign # {} /\ cs_oldest_representative(s, c) = {Oldest(s, foreign)}
          \/ cs_oldest_representative(s, c) = {Oldest(s, DOMAIN s)}
        BY <1>6 DEF cs_oldest_representative, TooOld
    <2> QED BY <2>1, <1>1, <1>3, <1>6
<1> QED BY <1>4, <1>5, <1>6

\* An entry of another name goes only if nothing has the name of the chunk, and
\* a flagged one of these only if nothing is unflagged.
LEMMA OtherVictim ==
    ASSUME NEW s \in Seq(Entries), s # <<>>, NEW c \in Entries,
           NEW v \in cs_oldest_representative(s, c), s[v].name # c.name
    PROVE  /\ v \in DOMAIN s /\ SameName(s, c.name) = {}
           /\ Unflagged(s) # {} => ~s[v].user1
<1>1. v \in DOMAIN s
    BY StrategyVictim
<1>2. ASSUME SameName(s, c.name) # {} PROVE FALSE
    <2>1. PICK w \in SameName(s, c.name) : cs_oldest_representative(s, c) = {w}
        BY <1>2, StrategyVictim, Zenon
    <2> QED BY <2>1 DEF SameName
<1>3. ASSUME Unflagged(s) # {} PROVE ~s[v].user1
    <2>1. PICK w \in Unflagged(s) : cs_oldest_representative(s, c) = {w}
        BY <1>2, <1>3, StrategyVictim, Zenon
    <2> QED BY <2>1 DEF Unflagged
<1> QED BY <1>1, <1>2, <1>3

\* Where everything has a flag and nothing the name of the chunk, the oldest
\* entry goes, of those of other prefixes than that subscribed to if there are any.
LastCandidates(s) ==
    IF Unregistered(s, registered) # {} THEN Unregistered(s, registered) ELSE DOMAIN s

LEMMA LastResort ==
    ASSUME NEW s \in Seq(Entries), s # <<>>, NEW c \in Entries,
           SameName(s, c.name) = {}, Unflagged(s) = {},
           NEW v \in cs_oldest_representative(s, c)
    PROVE  /\ v \in LastCandidates(s)
           /\ \A j \in LastCandidates(s) : strtol(s[v].ts) <= strtol(s[j].ts)
<1>1. DOMAIN s # {}
    OBVIOUS
<1>2. LastCandidates(s) \in SUBSET DOMAIN s /\ LastCandidates(s) # {}
    BY <1>1 DEF LastCandidates, Unregistered
<1>3. v = Oldest(s, LastCandidates(s))
    BY DEF cs_oldest_representative, LastCandidates
<1> QED BY <1>2, <1>3, OldestIsLeast

\* The newest entry of a name is flagged; NewestIsFlagged says so of the store.
Shielded(s, n) ==
    SameName(s, n) # {} =>
        \E i \in SameName(s, n) :
            /\ s[i].user1
            /\ \A j \in SameName(s, n) : strtol(s[j].ts) <= strtol(s[i].ts)

\* Only the entries of the name matter, and of them not the flag USER2.
LEMMA ShieldedLocal ==
    ASSUME NEW s \in Seq(Entries), NEW t \in Seq(Entries), NEW n,
           DOMAIN t = DOMAIN s,
           \A i \in DOMAIN s :
                /\ t[i].name = s[i].name
                /\ t[i].ts = s[i].ts
                /\ s[i].name = n => t[i].user1 = s[i].user1,
           Shielded(s, n)
    PROVE  Shielded(t, n)
<1>1. SameName(t, n) = SameName(s, n)
    BY DEF SameName
<1>2. \A i \in SameName(s, n) : t[i].ts = s[i].ts /\ t[i].user1 = s[i].user1
    BY DEF SameName
<1> QED BY <1>1, <1>2 DEF Shielded

\* Resetting USER2 keeps everything else.
LEMMA ResetKeeps ==
    ASSUME NEW s \in Seq(Entries)
    PROVE  /\ ccnl_helper_reset(s) \in Seq(Entries)
           /\ Len(ccnl_helper_reset(s)) = Len(s)
           /\ DOMAIN ccnl_helper_reset(s) = DOMAIN s
           /\ \A i \in DOMAIN s : /\ ccnl_helper_reset(s)[i].name = s[i].name
                                  /\ ccnl_helper_reset(s)[i].ts = s[i].ts
                                  /\ ccnl_helper_reset(s)[i].user1 = s[i].user1
<1>1. \A i \in DOMAIN s : s[i] \in Entries /\ [s[i] EXCEPT !.user2 = FALSE] \in Entries
    BY EntriesAt
<1>2. ccnl_helper_reset(s) \in [1..Len(s) -> Entries]
    BY <1>1 DEF ccnl_helper_reset
<1> QED BY <1>1, <1>2 DEF ccnl_helper_reset, Entries

\* Taking the flags of a source touches no other source.
LEMMA UnflagKeeps ==
    ASSUME NEW s \in Seq(Entries), NEW src
    PROVE  /\ _unflag_cs(s, src) \in Seq(Entries)
           /\ Len(_unflag_cs(s, src)) = Len(s)
           /\ DOMAIN _unflag_cs(s, src) = DOMAIN s
           /\ \A i \in DOMAIN s : /\ _unflag_cs(s, src)[i].name = s[i].name
                                  /\ _unflag_cs(s, src)[i].ts = s[i].ts
                                  /\ s[i].name.src # src => _unflag_cs(s, src)[i] = s[i]
<1>1. \A i \in DOMAIN s : s[i] \in Entries /\ [s[i] EXCEPT !.user1 = FALSE] \in Entries
    BY EntriesAt
<1>2. _unflag_cs(s, src) \in [1..Len(s) -> Entries]
    BY <1>1 DEF _unflag_cs
<1> QED BY <1>1, <1>2 DEF _unflag_cs, Entries

\* What flagging before storing keeps: the entries but for their flag USER1,
\* and of other names that as well.
LEMMA ScanKeeps ==
    ASSUME NEW s \in Seq(Entries), NEW c
    PROVE  /\ HandleScan(s, c) \in Seq(Entries)
           /\ Len(HandleScan(s, c)) = Len(s)
           /\ DOMAIN HandleScan(s, c) = DOMAIN s
           /\ \A i \in DOMAIN s :
                /\ HandleScan(s, c)[i].name = s[i].name
                /\ HandleScan(s, c)[i].ts = s[i].ts
                /\ s[i].name # c.name => HandleScan(s, c)[i] = s[i]
<1> DEFINE stop == IF Younger(s, c) = {} THEN Len(s) + 1
                   ELSE CHOOSE i \in Younger(s, c) : \A j \in Younger(s, c) : i <= j
           f(i) == IF s[i].name = c.name /\ i <= stop
                   THEN [s[i] EXCEPT !.user1 = (i = stop)]
                   ELSE s[i]
<1>1. HandleScan(s, c) = [i \in DOMAIN s |-> f(i)]
    BY DEF HandleScan
<1>2. ASSUME NEW i \in DOMAIN s
      PROVE  /\ f(i) \in Entries /\ f(i).name = s[i].name /\ f(i).ts = s[i].ts
             /\ s[i].name # c.name => f(i) = s[i]
    <2> DEFINE b == (i = stop)
    <2>1. b \in BOOLEAN /\ s[i] \in Entries
        BY EntriesAt
    <2> HIDE DEF b, stop
    <2>2. /\ [s[i] EXCEPT !.user1 = b] \in Entries
          /\ [s[i] EXCEPT !.user1 = b].name = s[i].name
          /\ [s[i] EXCEPT !.user1 = b].ts = s[i].ts
        BY <2>1 DEF Entries
    <2> QED BY <2>1, <2>2 DEF b
<1> HIDE DEF f
<1>3. HandleScan(s, c) \in [1..Len(s) -> Entries]
    BY <1>1, <1>2
<1> QED BY <1>1, <1>2, <1>3

\* Where the scan stops at an entry younger than the chunk, the newest entry of
\* the name keeps its flag or receives it.
LEMMA ScanShields ==
    ASSUME NEW s \in Seq(Entries), NEW c \in Chunks, NEW n,
           Shielded(s, n), n = c.name => Younger(s, c) # {}
    PROVE  Shielded(HandleScan(s, c), n)
<1> DEFINE t == HandleScan(s, c)
<1>1. /\ t \in Seq(Entries) /\ DOMAIN t = DOMAIN s
      /\ \A i \in DOMAIN s : /\ t[i].name = s[i].name
                             /\ t[i].ts = s[i].ts
                             /\ s[i].name # c.name => t[i] = s[i]
    BY ScanKeeps
<1>2. CASE n # c.name
    <2> HIDE DEF t
    <2>1. \A i \in DOMAIN s : s[i].name = n => t[i].user1 = s[i].user1
        BY <1>1, <1>2
    <2>2. Shielded(t, n)
        BY <1>1, <2>1, ShieldedLocal
    <2> QED BY <2>2 DEF t
<1>3. CASE n = c.name
    <2> DEFINE stop == CHOOSE i \in Younger(s, c) : \A j \in Younger(s, c) : i <= j
    <2>1. stop \in Younger(s, c) /\ \A j \in Younger(s, c) : stop <= j
        <3>1. Younger(s, c) \in SUBSET Nat /\ Younger(s, c) # {}
            BY <1>3 DEF Younger, SameName
        <3>2. \E i \in Younger(s, c) : \A j \in Younger(s, c) : i <= j
            BY <3>1, LeastNatural
        <3> QED BY <3>2
    <2>2. \A i \in DOMAIN s : t[i] = IF s[i].name = c.name /\ i <= stop
                                     THEN [s[i] EXCEPT !.user1 = (i = stop)]
                                     ELSE s[i]
        BY <1>3 DEF HandleScan
    <2>3. PICK i \in SameName(s, n) :
            /\ s[i].user1
            /\ \A j \in SameName(s, n) : strtol(s[j].ts) <= strtol(s[i].ts)
        BY <1>3 DEF Shielded, Younger
    <2> HIDE DEF stop, t
    <2>4. /\ stop \in SameName(s, n) /\ i \in DOMAIN s /\ stop \in DOMAIN s
          /\ strtol(s[stop].ts) > strtol(c.ts)
          /\ s[i].name = c.name
        BY <2>1, <1>3 DEF Younger, SameName
    <2>5. /\ strtol(c.ts) \in Nat /\ strtol(s[i].ts) \in Nat /\ strtol(s[stop].ts) \in Nat
          /\ i \in Nat /\ stop \in Nat /\ s[i] \in Entries
        BY <2>4, EntriesAt, StrtolNat DEF Chunks
    <2>6. i \in Younger(s, c)
        BY <2>3, <2>4, <2>5, <1>3 DEF Younger
    <2>7. stop <= i
        BY <2>6, <2>1
    <2>8. t[i].user1
        <3>1. CASE i = stop
            <4>1. t[i] = [s[i] EXCEPT !.user1 = (i = stop)]
                BY <2>2, <2>4, <2>5, <3>1
            <4> QED BY <4>1, <3>1, <2>5 DEF Entries
        <3>2. CASE i # stop
            <4>1. ~(i <= stop) /\ i \in DOMAIN s
                BY <2>4, <2>5, <2>7, <3>2
            <4>2. t[i] = s[i]
                BY <2>2, <4>1, Zenon
            <4> QED BY <2>3, <4>2
        <3> QED BY <3>1, <3>2
    <2>9. SameName(t, n) = SameName(s, n) /\ \A j \in SameName(s, n) : t[j].ts = s[j].ts
        BY <1>1 DEF SameName
    <2> QED BY <2>3, <2>8, <2>9 DEF Shielded, t
<1> QED BY <1>2, <1>3

\* Of the entries of a name one is newest.
LEMMA HasNewest ==
    ASSUME NEW s \in Seq(Entries), NEW n, SameName(s, n) # {}
    PROVE  \E i \in SameName(s, n) :
                \A j \in SameName(s, n) : strtol(s[j].ts) <= strtol(s[i].ts)
<1>1. \A i \in SameName(s, n) : strtol(s[i].ts) \in Nat /\ strtol(s[i].ts) <= LongMax
    <2> TAKE i \in SameName(s, n)
    <2>1. s[i] \in Entries
        BY DEF SameName
    <2>2. s[i].ts \in TimeStamps
        BY <2>1 DEF Entries
    <2> QED BY <2>2, StrtolNat, ConstantsAssumption DEF strtol, TimeStamps
<1> DEFINE V == {LongMax - strtol(s[i].ts) : i \in SameName(s, n)}
<1>2. PICK d \in V : \A u \in V : d <= u
    <2>1. V \in SUBSET Nat /\ V # {}
        BY <1>1, ConstantsAssumption
    <2> HIDE DEF V
    <2> QED BY <2>1, LeastNatural
<1>3. PICK i \in SameName(s, n) : d = LongMax - strtol(s[i].ts)
    BY <1>2
<1>4. \A j \in SameName(s, n) : LongMax - strtol(s[i].ts) <= LongMax - strtol(s[j].ts)
    BY <1>2, <1>3
<1> QED BY <1>1, <1>3, <1>4, ConstantsAssumption

\* A name whose entries are all flagged is shielded.
LEMMA AllFlagged ==
    ASSUME NEW s \in Seq(Entries), NEW n, \A i \in SameName(s, n) : s[i].user1
    PROVE  Shielded(s, n)
BY HasNewest DEF Shielded

\* x holds a value of the name that is no older than any in s.
NoStaler(s, x, n) ==
    \A i \in SameName(s, n) :
        \E k \in SameName(x, n) : strtol(s[i].ts) <= strtol(x[k].ts)

LEMMA NewestGrows ==
    ASSUME NEW s \in Seq(Entries), NEW x \in Seq(Entries), NEW n,
           SameName(s, n) # {}, NoStaler(s, x, n)
    PROVE  Newest(x, n) >= Newest(s, n)
<1>1. ASSUME NEW t \in Seq(Entries), SameName(t, n) # {}
      PROVE  \E i \in SameName(t, n) :
                /\ Newest(t, n) = strtol(t[i].ts)
                /\ \A j \in SameName(t, n) : strtol(t[j].ts) <= strtol(t[i].ts)
    <2> DEFINE V == {strtol(t[i].ts) : i \in SameName(t, n)}
    <2>1. PICK i \in SameName(t, n) :
            \A j \in SameName(t, n) : strtol(t[j].ts) <= strtol(t[i].ts)
        BY <1>1, HasNewest
    <2>2. strtol(t[i].ts) \in V
        OBVIOUS
    <2>3. Newest(t, n) = CHOOSE u \in V : \A j \in SameName(t, n) : strtol(t[j].ts) <= u
        BY DEF Newest
    <2>4. /\ Newest(t, n) \in V
          /\ \A j \in SameName(t, n) : strtol(t[j].ts) <= Newest(t, n)
        BY <2>1, <2>2, <2>3
    <2> QED BY <2>4
<1>2. PICK i \in SameName(s, n) : Newest(s, n) = strtol(s[i].ts)
    BY <1>1
<1>3. PICK k \in SameName(x, n) : strtol(s[i].ts) <= strtol(x[k].ts)
    BY DEF NoStaler
<1>4. PICK l \in SameName(x, n) :
        Newest(x, n) = strtol(x[l].ts) /\ strtol(x[k].ts) <= strtol(x[l].ts)
    BY <1>1, <1>3
<1>5. i \in DOMAIN s /\ k \in DOMAIN x /\ l \in DOMAIN x
    BY DEF SameName
<1>6. strtol(s[i].ts) \in Nat /\ strtol(x[k].ts) \in Nat /\ strtol(x[l].ts) \in Nat
    BY <1>5, EntriesAt
<1> QED BY <1>2, <1>3, <1>4, <1>6

\* A chunk of another name shields what it leaves: the victim has no flag, or
\* everything that stays has one.
LEMMA OtherNameReplaced ==
    ASSUME NEW s \in Seq(Entries), NEW e \in Entries, NEW n, e.name # n,
           NEW v \in cs_oldest_representative(s, e), NEW x,
           x = Cons(e, RemoveAt(s, v)), Shielded(s, n), s # <<>>
    PROVE  Shielded(x, n)
<1>1. v \in DOMAIN s
    BY StrategyVictim
<1>2. /\ x \in Seq(Entries) /\ Len(x) = Len(s) /\ x[1] = e
      /\ \A k \in DOMAIN x \ {1} : \E i \in DOMAIN s \ {v} : x[k] = s[i]
      /\ \A i \in DOMAIN s \ {v} : \E k \in DOMAIN x \ {1} : x[k] = s[i]
    <2>1. Cons(e, RemoveAt(s, v)) \in Seq(Entries) /\ Replaced(s, v, e, Cons(e, RemoveAt(s, v)))
        BY <1>1, ReplacedEntries
    <2>2. x \in Seq(Entries) /\ Replaced(s, v, e, x)
        BY <2>1
    <2> QED BY <2>2 DEF Replaced
<1>3. \A k \in SameName(x, n) : k # 1 /\ k \in DOMAIN x
    BY <1>2 DEF SameName
<1>4. CASE s[v].name # n \/ ~s[v].user1
    <2> SUFFICES ASSUME SameName(x, n) # {}
                 PROVE  \E k \in SameName(x, n) :
                            /\ x[k].user1
                            /\ \A l \in SameName(x, n) : strtol(x[l].ts) <= strtol(x[k].ts)
        BY DEF Shielded
    <2>1. SameName(s, n) # {}
        BY <1>2, <1>3 DEF SameName
    <2>2. PICK i \in SameName(s, n) :
            /\ s[i].user1
            /\ \A j \in SameName(s, n) : strtol(s[j].ts) <= strtol(s[i].ts)
        BY <2>1 DEF Shielded
    <2>3. i \in DOMAIN s \ {v} /\ s[i].name = n
        BY <2>2, <1>4 DEF SameName
    <2>4. PICK k \in DOMAIN x \ {1} : x[k] = s[i]
        BY <2>3, <1>2
    <2>5. k \in SameName(x, n) /\ x[k].user1
        BY <2>2, <2>3, <2>4 DEF SameName
    <2>6. ASSUME NEW l \in SameName(x, n)
          PROVE  strtol(x[l].ts) <= strtol(x[k].ts)
        <3>1. PICK j \in DOMAIN s \ {v} : x[l] = s[j]
            BY <1>2, <1>3
        <3>2. j \in SameName(s, n)
            BY <3>1 DEF SameName
        <3> QED BY <3>1, <3>2, <2>2, <2>4
    <2> QED BY <2>5, <2>6
<1>5. CASE Unflagged(s) = {}
    <2>1. \A k \in SameName(x, n) : x[k].user1
        <3> TAKE k \in SameName(x, n)
        <3>1. PICK i \in DOMAIN s \ {v} : x[k] = s[i]
            BY <1>2, <1>3
        <3> QED BY <3>1, <1>5 DEF Unflagged
    <2> QED BY <2>1, <1>2, AllFlagged
<1>6. CASE Unflagged(s) # {} /\ SameName(s, e.name) = {}
    <2>1. v \in Unflagged(s)
        BY <1>6, StrategyVictim
    <2> QED BY <2>1, <1>4 DEF Unflagged
<1>7. CASE SameName(s, e.name) # {}
    <2>1. v \in SameName(s, e.name)
        BY <1>7, StrategyVictim
    <2> QED BY <2>1, <1>4 DEF SameName
<1> QED BY <1>5, <1>6, <1>7

\* A chunk of the name itself shields it: either it is the newest and flagged,
\* or the newest entry stays, because only an older one makes room.
LEMMA OwnNameReplaced ==
    ASSUME NEW s \in Seq(Entries), NEW e \in Entries,
           NEW v \in cs_oldest_representative(s, e), NEW x,
           x = Cons(e, RemoveAt(s, v)), s # <<>>,
           \/ e.user1 /\ Younger(s, e) = {}
           \/ Shielded(s, e.name) /\ Younger(s, e) # {}
    PROVE  Shielded(x, e.name)
<1>1. v \in DOMAIN s
    BY StrategyVictim
<1>2. x \in Seq(Entries) /\ Replaced(s, v, e, x)
    <2>1. Cons(e, RemoveAt(s, v)) \in Seq(Entries) /\ Replaced(s, v, e, Cons(e, RemoveAt(s, v)))
        BY <1>1, ReplacedEntries
    <2> QED BY <2>1
<1>3. strtol(e.ts) \in Nat /\ \A i \in DOMAIN s : strtol(s[i].ts) \in Nat
    <2>1. e.ts \in TimeStamps
        BY DEF Entries
    <2> QED BY <2>1, StrtolNat, EntriesAt
<1>4. CASE e.user1 /\ Younger(s, e) = {}
    <2>1. 1 \in SameName(x, e.name) /\ x[1].user1
        BY <1>2, <1>4 DEF SameName, Replaced
    <2>2. ASSUME NEW k \in SameName(x, e.name)
          PROVE  strtol(x[k].ts) <= strtol(x[1].ts)
        <3>1. CASE k = 1
            BY <3>1, <1>2, <1>3 DEF Replaced
        <3>2. CASE k # 1
            <4>1. PICK i \in DOMAIN s \ {v} : x[k] = s[i]
                BY <3>2, <1>2 DEF Replaced, SameName
            <4>2. i \in SameName(s, e.name)
                BY <4>1 DEF SameName
            <4>3. ~(strtol(s[i].ts) > strtol(e.ts))
                BY <4>2, <1>4 DEF Younger
            <4> QED BY <4>1, <4>3, <1>2, <1>3 DEF Replaced
        <3> QED BY <3>1, <3>2
    <2> QED BY <2>1, <2>2 DEF Shielded
<1>5. CASE Shielded(s, e.name) /\ Younger(s, e) # {}
    <2>1. PICK i \in SameName(s, e.name) :
            /\ s[i].user1
            /\ \A j \in SameName(s, e.name) : strtol(s[j].ts) <= strtol(s[i].ts)
        BY <1>5 DEF Shielded, Younger
    <2>2. PICK y \in SameName(s, e.name) : strtol(s[y].ts) > strtol(e.ts)
        BY <1>5 DEF Younger
    <2>3. i \in DOMAIN s /\ s[i].name = e.name /\ strtol(s[i].ts) > strtol(e.ts)
        BY <2>1, <2>2, <1>3 DEF SameName
    <2>4. strtol(s[v].ts) <= strtol(e.ts)
        BY <2>1, StrategyVictim
    <2>5. i # v
        BY <2>3, <2>4, <1>1, <1>3
    <2>6. PICK k \in DOMAIN x \ {1} : x[k] = s[i]
        BY <2>3, <2>5, <1>2 DEF Replaced
    <2>7. k \in SameName(x, e.name) /\ x[k].user1
        BY <2>1, <2>3, <2>6 DEF SameName
    <2>8. ASSUME NEW l \in SameName(x, e.name)
          PROVE  strtol(x[l].ts) <= strtol(x[k].ts)
        <3>1. CASE l = 1
            BY <3>1, <2>3, <2>6, <1>2, <1>3 DEF Replaced
        <3>2. CASE l # 1
            <4>1. PICK j \in DOMAIN s \ {v} : x[l] = s[j]
                BY <3>2, <1>2 DEF Replaced, SameName
            <4>2. j \in SameName(s, e.name)
                BY <4>1 DEF SameName
            <4> QED BY <4>1, <4>2, <2>1, <2>6
        <3> QED BY <3>1, <3>2
    <2> QED BY <2>7, <2>8 DEF Shielded
<1> QED BY <1>4, <1>5

\* The same where the store has room.
LEMMA ConsShields ==
    ASSUME NEW s \in Seq(Entries), NEW e \in Entries, NEW n,
           \/ e.name # n /\ Shielded(s, n)
           \/ e.name = n /\ e.user1 /\ Younger(s, e) = {}
           \/ e.name = n /\ Shielded(s, n) /\ Younger(s, e) # {}
    PROVE  Shielded(Cons(e, s), n)
<1> DEFINE x == Cons(e, s)
<1>1. /\ x \in Seq(Entries) /\ Len(x) = Len(s) + 1 /\ x[1] = e
      /\ \A i \in DOMAIN s : x[i + 1] = s[i]
    BY ConsAt
<1> HIDE DEF x
<1>2. /\ DOMAIN s = 1..Len(s) /\ Len(s) \in Nat /\ DOMAIN x = 1..(Len(s) + 1)
      /\ \A k \in DOMAIN x \ {1} : k - 1 \in DOMAIN s /\ x[k] = s[k - 1]
      /\ \A i \in DOMAIN s : i + 1 \in DOMAIN x \ {1}
    BY <1>1
<1>3. strtol(e.ts) \in Nat /\ \A i \in DOMAIN s : strtol(s[i].ts) \in Nat
    <2>1. e.ts \in TimeStamps
        BY DEF Entries
    <2> QED BY <2>1, StrtolNat, EntriesAt
<1>4. \A k \in SameName(x, n) : k # 1 => k - 1 \in SameName(s, n) /\ x[k] = s[k - 1]
    BY <1>2 DEF SameName
<1>5. CASE e.name = n /\ e.user1 /\ Younger(s, e) = {}
    <2>1. 1 \in SameName(x, n) /\ x[1].user1
        BY <1>1, <1>2, <1>5 DEF SameName
    <2>2. ASSUME NEW k \in SameName(x, n)
          PROVE  strtol(x[k].ts) <= strtol(x[1].ts)
        <3>1. CASE k = 1
            BY <3>1, <1>1, <1>3
        <3>2. CASE k # 1
            <4>1. ~(strtol(s[k - 1].ts) > strtol(e.ts))
                BY <3>2, <1>4, <1>5 DEF Younger
            <4>2. k - 1 \in DOMAIN s
                BY <3>2, <1>4 DEF SameName
            <4> QED BY <4>1, <4>2, <3>2, <1>1, <1>3, <1>4
        <3> QED BY <3>1, <3>2
    <2> QED BY <2>1, <2>2 DEF Shielded, x
<1>6. CASE /\ Shielded(s, n) /\ SameName(s, n) # {}
           /\ e.name = n => Younger(s, e) # {}
    <2>1. PICK i \in SameName(s, n) :
            /\ s[i].user1
            /\ \A j \in SameName(s, n) : strtol(s[j].ts) <= strtol(s[i].ts)
        BY <1>6 DEF Shielded
    <2>2. i \in DOMAIN s /\ s[i].name = n
        BY <2>1 DEF SameName
    <2>3. i + 1 \in SameName(x, n) /\ x[i + 1] = s[i]
        BY <2>2, <1>1, <1>2 DEF SameName
    <2>4. ASSUME NEW l \in SameName(x, n)
          PROVE  strtol(x[l].ts) <= strtol(x[i + 1].ts)
        <3>1. CASE l = 1
            <4>1. e.name = n
                BY <3>1, <1>1 DEF SameName
            <4>2. PICK y \in SameName(s, n) : strtol(s[y].ts) > strtol(e.ts)
                BY <4>1, <1>6 DEF Younger
            <4>3. y \in DOMAIN s /\ strtol(s[y].ts) <= strtol(s[i].ts)
                BY <2>1, <4>2 DEF SameName
            <4> QED BY <3>1, <4>2, <4>3, <2>2, <2>3, <1>1, <1>3
        <3>2. CASE l # 1
            BY <3>2, <1>4, <2>1, <2>3
        <3> QED BY <3>1, <3>2
    <2> QED BY <2>1, <2>3, <2>4 DEF Shielded, x
<1>7. CASE e.name # n /\ SameName(s, n) = {}
    <2>1. SameName(x, n) = {}
        BY <1>1, <1>2, <1>4, <1>7 DEF SameName
    <2> QED BY <2>1 DEF Shielded, x
<1>8. e.name = n /\ Younger(s, e) # {} => SameName(s, n) # {}
    BY DEF Younger
<1> QED BY <1>5, <1>6, <1>7, <1>8

-----------------------------------------------------------------------------
(***************************************************************************)
(* Storing a chunk.                                                        *)
(***************************************************************************)

\* What the relay does with the entry: refuse it, add it, or replace by it.
LEMMA AddCases ==
    ASSUME NEW s \in Seq(Entries), Len(s) <= Cap, NEW e \in Entries,
           ccnl_content_add2cache(s, e)
    PROVE  \/ IsStored(s, e) /\ contents' = s
           \/ Len(s) < Cap /\ contents' = Cons(e, s)
           \/ /\ Len(s) = Cap
              /\ \E t \in {s, ccnl_helper_reset(s)} :
                    \/ contents' = t /\ cs_oldest_representative(t, e) = {}
                    \/ \E v \in cs_oldest_representative(t, e) :
                            contents' = Cons(e, RemoveAt(t, v))
<1>1. Len(s) \in Nat /\ Cap \in Nat
    BY ConstantsAssumption
<1>2. ASSUME Len(s) >= Cap
      PROVE  Len(s) = Cap
    BY <1>1, <1>2
<1> QED BY <1>2, Zenon DEF ccnl_content_add2cache

LEMMA AddTypes ==
    ASSUME NEW s \in Seq(Entries), Len(s) <= Cap, NEW e \in Entries,
           flaggedCache \in 0..Cap, firstTimeFull \in BOOLEAN,
           ccnl_content_add2cache(s, e)
    PROVE  /\ contents' \in Seq(Entries)
           /\ Len(contents') <= Cap
           /\ Len(s) = Cap => Len(contents') = Cap
           /\ firstTimeFull' \in BOOLEAN
           /\ flaggedCache' \in 0..Cap
<1>1. Len(s) \in Nat /\ Cap \in Nat \ {0}
    BY ConstantsAssumption
<1>2. contents' \in Seq(Entries) /\ Len(contents') <= Cap /\ (Len(s) = Cap => Len(contents') = Cap)
    <2>1. CASE contents' = s
        BY <2>1
    <2>2. CASE Len(s) < Cap /\ contents' = Cons(e, s)
        BY <2>2, <1>1, ConsAt
    <2>3. ASSUME NEW t \in {s, ccnl_helper_reset(s)}, Len(s) = Cap,
                 \/ contents' = t
                 \/ \E v \in cs_oldest_representative(t, e) :
                        contents' = Cons(e, RemoveAt(t, v))
          PROVE  contents' \in Seq(Entries) /\ Len(contents') = Cap
        <3>1. t \in Seq(Entries) /\ Len(t) = Cap
            BY <2>3, ResetKeeps
        <3>2. CASE contents' = t
            BY <3>1, <3>2
        <3>3. ASSUME NEW v \in cs_oldest_representative(t, e),
                     contents' = Cons(e, RemoveAt(t, v))
              PROVE  contents' \in Seq(Entries) /\ Len(contents') = Cap
            <4>1. v \in DOMAIN t
                <5>1. t # <<>>
                    BY <3>1, <1>1
                <5> QED BY <5>1, <3>1, StrategyVictim
            <4> QED BY <4>1, <3>1, <3>3, ReplacedEntries DEF Replaced
        <3> QED BY <2>3, <3>2, <3>3
    <2> QED BY <2>1, <2>2, <2>3, <1>1, AddCases
<1>3. firstTimeFull' \in BOOLEAN
    BY DEF ccnl_content_add2cache
<1>4. flaggedCache' \in 0..Cap
    <2>1. ASSUME NEW t \in Seq(Entries), Len(t) = Len(s)
          PROVE  CountUser2(t) \in 0..Cap
        <3>1. IsFiniteSet(1..Len(t)) /\ Cardinality(1..Len(t)) = Len(t)
            <4>1. Len(t) \in Nat
                OBVIOUS
            <4>2. \A m \in Nat : IsFiniteSet(1..m) /\ Cardinality(1..m) = m
                <5> TAKE m \in Nat
                <5>1. 1 \in Int /\ m \in Int
                    OBVIOUS
                <5>2. IsFiniteSet(1..m) /\ Cardinality(1..m) = IF 1 > m THEN 0 ELSE m - 1 + 1
                    BY <5>1, FS_Interval, Zenon
                <5> QED BY <5>2
            <4> QED BY <4>1, <4>2
        <3>2. {i \in DOMAIN t : t[i].user2} \subseteq 1..Len(t)
            OBVIOUS
        <3>3. /\ Cardinality({i \in DOMAIN t : t[i].user2}) <= Len(t)
              /\ IsFiniteSet({i \in DOMAIN t : t[i].user2})
            BY <3>1, <3>2, FS_Subset
        <3>4. CountUser2(t) \in Nat
            BY <3>3, FS_CardinalityType DEF CountUser2
        <3> QED BY <2>1, <3>3, <3>4, <1>1 DEF CountUser2
    <2>2. \/ flaggedCache' = flaggedCache
          \/ \E t \in {s, ccnl_helper_reset(s)} : flaggedCache' = CountUser2(t)
        BY Zenon DEF ccnl_content_add2cache
    <2>3. CountUser2(s) \in 0..Cap /\ CountUser2(ccnl_helper_reset(s)) \in 0..Cap
        BY <2>1, ResetKeeps
    <2> QED BY <2>2, <2>3
<1> QED BY <1>2, <1>3, <1>4

\* Storing shields a name that was shielded, and the name of the chunk if the
\* chunk is flagged as its newest or leaves a younger entry where it was.
LEMMA AddShields ==
    ASSUME NEW s \in Seq(Entries), Len(s) <= Cap, NEW e \in Entries,
           ccnl_content_add2cache(s, e), NEW n,
           \/ e.name # n /\ Shielded(s, n)
           \/ e.name = n /\ ~IsStored(s, e) /\ e.user1 /\ Younger(s, e) = {}
           \/ e.name = n /\ Shielded(s, n) /\ Younger(s, e) # {}
    PROVE  Shielded(contents, n)'
<1> SUFFICES Shielded(contents', n)
    BY DEF Shielded, SameName
<1>1. CASE IsStored(s, e) /\ contents' = s
    BY <1>1
<1>2. CASE Len(s) < Cap /\ contents' = Cons(e, s)
    BY <1>2, ConsShields
<1>3. ASSUME Len(s) = Cap, NEW t \in {s, ccnl_helper_reset(s)},
             \/ contents' = t /\ cs_oldest_representative(t, e) = {}
             \/ \E v \in cs_oldest_representative(t, e) :
                    contents' = Cons(e, RemoveAt(t, v))
      PROVE  Shielded(contents', n)
    <2>1. /\ t \in Seq(Entries) /\ Len(t) = Cap /\ DOMAIN t = DOMAIN s
          /\ \A i \in DOMAIN s : t[i].name = s[i].name /\ t[i].ts = s[i].ts /\ t[i].user1 = s[i].user1
        BY <1>3, ResetKeeps
    <2>2. t # <<>>
        BY <2>1, ConstantsAssumption
    <2>3. Younger(t, e) = Younger(s, e) /\ (Shielded(s, n) => Shielded(t, n))
        <3>1. Younger(t, e) = Younger(s, e)
            BY <2>1 DEF Younger, SameName
        <3> QED BY <3>1, <2>1, ShieldedLocal
    <2>4. CASE contents' = t /\ cs_oldest_representative(t, e) = {}
        <3>1. CASE Shielded(s, n)
            BY <3>1, <2>3, <2>4
        <3>2. CASE e.name = n /\ Younger(s, e) = {}
            <4>1. SameName(t, n) = {}
                <5>1. SameName(t, n) # {} => \A i \in SameName(t, n) : strtol(t[i].ts) > strtol(e.ts)
                    <6>1. SameName(t, e.name) # {} =>
                            \/ \A i \in SameName(t, e.name) : strtol(t[i].ts) > strtol(e.ts)
                            \/ \E v \in SameName(t, e.name) : cs_oldest_representative(t, e) = {v}
                        BY <2>1, <2>2, StrategyVictim, Zenon
                    <6> QED BY <6>1, <2>4, <3>2
                <5>2. SameName(t, n) # {} => Younger(t, e) # {}
                    BY <5>1, <3>2 DEF Younger
                <5> QED BY <5>2, <2>3, <3>2
            <4> QED BY <4>1, <2>4 DEF Shielded
        <3> QED BY <3>1, <3>2
    <2>5. ASSUME NEW v \in cs_oldest_representative(t, e), contents' = Cons(e, RemoveAt(t, v))
          PROVE  Shielded(contents', n)
        <3>1. CASE e.name # n
            BY <3>1, <2>1, <2>2, <2>3, <2>5, OtherNameReplaced
        <3>2. CASE e.name = n
            BY <3>2, <2>1, <2>2, <2>3, <2>5, OwnNameReplaced
        <3> QED BY <3>1, <3>2
    <2> QED BY <1>3, <2>4, <2>5
<1> QED BY <1>1, <1>2, <1>3, AddCases

\* Storing makes no name staler, as long as the name is shielded, or the chunk
\* is its own, or it disappears with its last entry.
LEMMA AddNoStaler ==
    ASSUME NEW s \in Seq(Entries), Len(s) <= Cap, NEW e \in Entries,
           ccnl_content_add2cache(s, e), NEW n,
           e.name = n \/ Shielded(s, n), SameName(contents', n) # {}
    PROVE  NoStaler(s, contents', n)
<1>1. \A i \in DOMAIN s : strtol(s[i].ts) \in Nat
    BY EntriesAt
<1>2. CASE contents' = s
    BY <1>1, <1>2 DEF NoStaler, SameName
<1>3. CASE contents' = Cons(e, s)
    <2> DEFINE x == Cons(e, s)
    <2>1. x \in Seq(Entries) /\ Len(x) = Len(s) + 1 /\ \A i \in DOMAIN s : x[i + 1] = s[i]
        BY ConsAt
    <2> HIDE DEF x
    <2>2. \A i \in DOMAIN s : i + 1 \in DOMAIN x /\ x[i + 1] = s[i]
        BY <2>1
    <2>3. \A i \in SameName(s, n) :
            i + 1 \in SameName(x, n) /\ strtol(s[i].ts) <= strtol(x[i + 1].ts)
        BY <2>2, <1>1 DEF SameName
    <2> QED BY <2>3, <1>3 DEF NoStaler, x
<1>4. ASSUME Len(s) = Cap, NEW t \in {s, ccnl_helper_reset(s)},
             NEW v \in cs_oldest_representative(t, e), contents' = Cons(e, RemoveAt(t, v))
      PROVE  NoStaler(s, contents', n)
    <2>1. /\ t \in Seq(Entries) /\ Len(t) = Cap /\ DOMAIN t = DOMAIN s
          /\ \A i \in DOMAIN s : t[i].name = s[i].name /\ t[i].ts = s[i].ts /\ t[i].user1 = s[i].user1
        BY <1>4, ResetKeeps
    <2>2. t # <<>> /\ v \in DOMAIN t
        BY <2>1, <1>4, ConstantsAssumption, StrategyVictim
    <2>3. contents' \in Seq(Entries) /\ Replaced(t, v, e, contents')
        BY <2>1, <2>2, <1>4, ReplacedEntries
    <2>4. \A i \in DOMAIN t : strtol(t[i].ts) \in Nat
        BY <2>1, EntriesAt
    <2>5. SameName(t, n) = SameName(s, n)
        BY <2>1 DEF SameName
    <2>6. ASSUME NEW i \in SameName(t, n), i # v
          PROVE  \E k \in SameName(contents', n) : contents'[k] = t[i]
        <3>1. i \in DOMAIN t \ {v} /\ t[i].name = n
            BY <2>6 DEF SameName
        <3>2. PICK k \in DOMAIN contents' \ {1} : contents'[k] = t[i]
            BY <3>1, <2>3 DEF Replaced
        <3> QED BY <3>1, <3>2 DEF SameName
    <2>7. ASSUME v \in SameName(t, n)
          PROVE  \E k \in SameName(contents', n) : strtol(t[v].ts) <= strtol(contents'[k].ts)
        <3>1. CASE e.name = n
            <4>1. strtol(t[v].ts) <= strtol(e.ts)
                BY <2>1, <2>2, <2>7, <3>1, StrategyVictim
            <4>2. 1 \in SameName(contents', n) /\ contents'[1] = e
                BY <2>3, <3>1 DEF SameName, Replaced
            <4> QED BY <4>1, <4>2
        <3>2. CASE e.name # n /\ Unflagged(t) # {}
            <4>1. SameName(t, e.name) = {} /\ (Unflagged(t) # {} => ~t[v].user1)
                <5>1. t[v].name # e.name
                    BY <2>7, <3>2 DEF SameName
                <5> QED BY <5>1, <2>1, <2>2, OtherVictim
            <4>2. ~t[v].user1
                BY <4>1, <3>2
            <4>3. Shielded(t, n)
                BY <3>2, <2>1, ShieldedLocal
            <4>4. PICK i \in SameName(t, n) :
                    t[i].user1 /\ \A j \in SameName(t, n) : strtol(t[j].ts) <= strtol(t[i].ts)
                BY <4>3, <2>7 DEF Shielded
            <4>5. PICK k \in SameName(contents', n) : contents'[k] = t[i]
                BY <4>2, <4>4, <2>6
            <4> QED BY <4>4, <4>5, <2>7
        <3>3. CASE e.name # n /\ Unflagged(t) = {}
            <4>1. SameName(t, e.name) = {} /\ (Unflagged(t) # {} => ~t[v].user1)
                <5>1. t[v].name # e.name
                    BY <2>7, <3>3 DEF SameName
                <5> QED BY <5>1, <2>1, <2>2, OtherVictim
            <4>2. /\ v \in LastCandidates(t)
                  /\ \A j \in LastCandidates(t) : strtol(t[v].ts) <= strtol(t[j].ts)
                BY <4>1, <3>3, <2>1, <2>2, LastResort
            <4>3. PICK k \in SameName(contents', n) : TRUE
                OBVIOUS
            <4>4. k \in DOMAIN contents' \ {1} /\ contents'[k].name = n
                BY <2>3, <3>3 DEF SameName, Replaced
            <4>5. PICK j \in DOMAIN t \ {v} : contents'[k] = t[j]
                BY <4>4, <2>3 DEF Replaced
            <4>6. t[j].name = t[v].name
                BY <4>4, <4>5, <2>7 DEF SameName
            <4>7. j \in LastCandidates(t)
                BY <4>2, <4>5, <4>6 DEF LastCandidates, Unregistered
            <4> QED BY <4>2, <4>3, <4>5, <4>7
        <3> QED BY <3>1, <3>2, <3>3
    <2>8. NoStaler(t, contents', n)
        BY <2>4, <2>6, <2>7 DEF NoStaler, SameName
    <2>9. \A i \in SameName(s, n) : t[i].ts = s[i].ts
        BY <2>1 DEF SameName
    <2> QED BY <2>5, <2>8, <2>9 DEF NoStaler
<1>5. ASSUME NEW t \in {s, ccnl_helper_reset(s)}, contents' = t
      PROVE  NoStaler(s, contents', n)
    <2>1. /\ DOMAIN t = DOMAIN s
          /\ \A i \in DOMAIN s : t[i].name = s[i].name /\ t[i].ts = s[i].ts
        BY <1>5, ResetKeeps
    <2> QED BY <2>1, <1>1, <1>5 DEF NoStaler, SameName
<1> QED BY <1>2, <1>3, <1>4, <1>5, AddCases

\* The entry i of s is not in x, and makes no room for a chunk of its own name.
PushedOut(s, x, i) ==
    /\ x[1].name # s[i].name
    /\ \A k \in DOMAIN x : x[k].name = s[i].name => x[k].ts # s[i].ts

\* An entry with a flag that leaves had no name in common with the chunk, nor
\* had any entry, and was of another prefix than the subscribed one if any was.
LEMMA AddSpares ==
    ASSUME NEW s \in Seq(Entries), Len(s) <= Cap, NEW e \in Entries,
           ccnl_content_add2cache(s, e),
           NEW i \in DOMAIN s, PushedOut(s, contents', i), e.name # s[i].name => s[i].user1
    PROVE  /\ SameName(s, e.name) = {} /\ Unflagged(s) = {}
           /\ s[i].name.pfx = registered => Unregistered(s, registered) = {}
<1>1. contents' # s
    BY DEF PushedOut
<1>2. contents' # Cons(e, s)
    <2> DEFINE x == Cons(e, s)
    <2>1. x \in Seq(Entries) /\ Len(x) = Len(s) + 1 /\ \A j \in DOMAIN s : x[j + 1] = s[j]
        BY ConsAt
    <2> HIDE DEF x
    <2>2. i + 1 \in DOMAIN x /\ x[i + 1] = s[i]
        BY <2>1
    <2>3. contents' # x
        BY <2>2 DEF PushedOut
    <2> QED BY <2>3 DEF x
<1>3. PICK t \in {s, ccnl_helper_reset(s)} :
        /\ Len(s) = Cap
        /\ \/ contents' = t
           \/ \E v \in cs_oldest_representative(t, e) : contents' = Cons(e, RemoveAt(t, v))
    BY <1>1, <1>2, AddCases
<1>4. /\ t \in Seq(Entries) /\ Len(t) = Cap /\ DOMAIN t = DOMAIN s
      /\ \A j \in DOMAIN s : t[j].name = s[j].name /\ t[j].ts = s[j].ts /\ t[j].user1 = s[j].user1
    BY <1>3, ResetKeeps
<1>5. PICK v \in cs_oldest_representative(t, e) : contents' = Cons(e, RemoveAt(t, v))
    <2>1. contents' # t
        BY <1>4 DEF PushedOut
    <2> QED BY <1>3, <2>1
<1>6. t # <<>> /\ v \in DOMAIN t
    BY <1>4, ConstantsAssumption, StrategyVictim
<1>7. contents' \in Seq(Entries) /\ Replaced(t, v, e, contents')
    BY <1>4, <1>5, <1>6, ReplacedEntries
<1>8. v = i
    <2>1. ASSUME i \in DOMAIN t \ {v} PROVE FALSE
        <3>1. PICK k \in DOMAIN contents' \ {1} : contents'[k] = t[i]
            BY <2>1, <1>7 DEF Replaced
        <3> QED BY <3>1, <1>4 DEF PushedOut
    <2> QED BY <2>1, <1>4
<1>9. t[v].name # e.name /\ t[v].user1
    BY <1>4, <1>7, <1>8 DEF Replaced, PushedOut
<1>10. SameName(t, e.name) = {} /\ Unflagged(t) = {}
    BY <1>4, <1>6, <1>9, OtherVictim
<1>11. v \in LastCandidates(t)
    BY <1>4, <1>6, <1>10, LastResort
<1>12. t[i].name.pfx = registered => Unregistered(t, registered) = {}
    BY <1>8, <1>11 DEF LastCandidates, Unregistered
<1>13. SameName(t, e.name) = SameName(s, e.name)
    BY <1>4 DEF SameName
<1>14. Unflagged(t) = Unflagged(s)
    BY <1>4 DEF Unflagged
<1>15. Unregistered(t, registered) = Unregistered(s, registered)
    <2>1. {j \in DOMAIN t : t[j].name.pfx # registered} =
            {j \in DOMAIN s : s[j].name.pfx # registered}
        BY <1>4
    <2> QED BY <2>1 DEF Unregistered
<1> QED BY <1>4, <1>10, <1>12, <1>13, <1>14, <1>15

\* What one call of the consumer does to the types and to the length.
LEMMA ConsumerTypes ==
    ASSUME TypeOK, NEW c \in Chunks, ccnlriot_consumer(c)
    PROVE  /\ contents' \in Seq(Entries)
           /\ Len(contents') <= Cap
           /\ Len(contents) = Cap => Len(contents') = Cap
           /\ firstTimeFull' \in BOOLEAN
           /\ flaggedCache' \in 0..Cap
<1>1. CASE _ccnl_helper_handle_content(c)
    <2> DEFINE e == [name |-> c.name, ts |-> c.ts, user1 |-> Younger(contents, c) = {}, user2 |-> TRUE]
    <2>1. e \in Entries
        BY DEF Chunks, Entries
    <2>2. HandleScan(contents, c) \in Seq(Entries) /\ Len(HandleScan(contents, c)) = Len(contents)
        BY ScanKeeps DEF TypeOK
    <2>3. ccnl_content_add2cache(HandleScan(contents, c), e)
        BY <1>1, Zenon DEF _ccnl_helper_handle_content
    <2> HIDE DEF e
    <2> QED BY <2>1, <2>2, <2>3, AddTypes DEF TypeOK
<1>2. CASE CacheOwn(c)
    <2> DEFINE e == [name |-> c.name, ts |-> c.ts, user1 |-> TRUE, user2 |-> TRUE]
    <2>1. e \in Entries
        BY DEF Chunks, Entries
    <2>2. _unflag_cs(contents, Self) \in Seq(Entries) /\ Len(_unflag_cs(contents, Self)) = Len(contents)
        BY UnflagKeeps DEF TypeOK
    <2>3. ccnl_content_add2cache(_unflag_cs(contents, Self), e)
        BY <1>2, Zenon DEF CacheOwn
    <2> HIDE DEF e
    <2> QED BY <2>1, <2>2, <2>3, AddTypes DEF TypeOK
<1>3. CASE UNCHANGED storeVars
    BY <1>3 DEF TypeOK, storeVars
<1> QED BY <1>1, <1>2, <1>3 DEF ccnlriot_consumer

\* One call of the consumer keeps another node's name shielded, unless it
\* brings a chunk once more that is stored already.
LEMMA ConsumerShields ==
    ASSUME TypeOK, NEW c \in Chunks, ccnlriot_consumer(c),
           NEW n, n.src # Self, Shielded(contents, n),
           c.name = n => ~IsStored(contents, c)
    PROVE  Shielded(contents, n)'
<1>1. CASE _ccnl_helper_handle_content(c)
    <2> DEFINE e == [name |-> c.name, ts |-> c.ts, user1 |-> Younger(contents, c) = {}, user2 |-> TRUE]
               t == HandleScan(contents, c)
    <2>1. /\ e \in Entries /\ e.name = c.name /\ e.ts = c.ts
          /\ e.user1 <=> Younger(contents, c) = {}
        BY DEF Chunks, Entries
    <2>2. /\ t \in Seq(Entries) /\ Len(t) = Len(contents) /\ DOMAIN t = DOMAIN contents
          /\ \A i \in DOMAIN contents : t[i].name = contents[i].name /\ t[i].ts = contents[i].ts
        BY ScanKeeps DEF TypeOK
    <2>3. ccnl_content_add2cache(t, e)
        BY <1>1, Zenon DEF _ccnl_helper_handle_content
    <2>4. (n = c.name => Younger(contents, c) # {}) => Shielded(t, n)
        BY ScanShields DEF TypeOK
    <2> HIDE DEF e, t
    <2>5. Younger(t, e) = Younger(contents, c)
        BY <2>1, <2>2 DEF Younger, SameName
    <2>6. IsStored(t, e) => IsStored(contents, c)
        BY <2>1, <2>2 DEF IsStored
    <2>7. \/ e.name # n /\ Shielded(t, n)
          \/ e.name = n /\ ~IsStored(t, e) /\ e.user1 /\ Younger(t, e) = {}
          \/ e.name = n /\ Shielded(t, n) /\ Younger(t, e) # {}
        BY <2>1, <2>4, <2>5, <2>6
    <2>8. Len(t) <= Cap
        BY <2>2 DEF TypeOK
    <2> QED BY <2>1, <2>2, <2>3, <2>7, <2>8, AddShields
<1>2. CASE CacheOwn(c) /\ c.name.src = Self
    <2> DEFINE e == [name |-> c.name, ts |-> c.ts, user1 |-> TRUE, user2 |-> TRUE]
               t == _unflag_cs(contents, Self)
    <2>1. e \in Entries /\ e.name = c.name
        BY DEF Chunks, Entries
    <2>2. /\ t \in Seq(Entries) /\ Len(t) = Len(contents) /\ DOMAIN t = DOMAIN contents
          /\ \A i \in DOMAIN contents : /\ t[i].name = contents[i].name
                                        /\ t[i].ts = contents[i].ts
                                        /\ contents[i].name.src # Self => t[i] = contents[i]
        BY UnflagKeeps DEF TypeOK
    <2>3. ccnl_content_add2cache(t, e)
        BY <1>2, Zenon DEF CacheOwn
    <2> HIDE DEF e, t
    <2>4. Shielded(t, n)
        <3>1. contents \in Seq(Entries)
            BY DEF TypeOK
        <3>2. \A i \in DOMAIN contents : contents[i].name = n => t[i].user1 = contents[i].user1
            BY <2>2
        <3> QED BY <2>2, <3>1, <3>2, ShieldedLocal
    <2>5. e.name # n /\ Len(t) <= Cap
        BY <1>2, <2>1, <2>2 DEF TypeOK
    <2> QED BY <2>1, <2>2, <2>3, <2>4, <2>5, AddShields
<1>3. CASE UNCHANGED storeVars
    BY <1>3 DEF storeVars, Shielded, SameName
<1> QED BY <1>1, <1>2, <1>3 DEF ccnlriot_consumer

\* One call of the consumer makes no shielded name staler.
LEMMA ConsumerNoStaler ==
    ASSUME TypeOK, NEW c \in Chunks, ccnlriot_consumer(c),
           NEW n, n.src # Self, Shielded(contents, n), SameName(contents', n) # {}
    PROVE  NoStaler(contents, contents', n)
<1>1. ASSUME NEW t \in Seq(Entries), NEW e \in Entries, Len(t) = Len(contents),
             DOMAIN t = DOMAIN contents,
             \A i \in DOMAIN contents : t[i].name = contents[i].name /\ t[i].ts = contents[i].ts,
             ccnl_content_add2cache(t, e), e.name = n \/ Shielded(t, n)
      PROVE  NoStaler(contents, contents', n)
    <2>1. Len(t) <= Cap
        BY <1>1 DEF TypeOK
    <2>2. NoStaler(t, contents', n)
        BY <1>1, <2>1, AddNoStaler
    <2>3. SameName(t, n) = SameName(contents, n)
          /\ \A i \in SameName(contents, n) : t[i].ts = contents[i].ts
        BY <1>1 DEF SameName
    <2> QED BY <2>2, <2>3 DEF NoStaler
<1>2. CASE _ccnl_helper_handle_content(c)
    <2> DEFINE e == [name |-> c.name, ts |-> c.ts, user1 |-> Younger(contents, c) = {}, user2 |-> TRUE]
               t == HandleScan(contents, c)
    <2>1. e \in Entries /\ e.name = c.name
        BY DEF Chunks, Entries
    <2>2. /\ t \in Seq(Entries) /\ Len(t) = Len(contents) /\ DOMAIN t = DOMAIN contents
          /\ \A i \in DOMAIN contents : t[i].name = contents[i].name /\ t[i].ts = contents[i].ts
        BY ScanKeeps DEF TypeOK
    <2>3. ccnl_content_add2cache(t, e)
        BY <1>2, Zenon DEF _ccnl_helper_handle_content
    <2>4. n # c.name => Shielded(t, n)
        BY ScanShields DEF TypeOK
    <2> HIDE DEF e, t
    <2> QED BY <2>1, <2>2, <2>3, <2>4, <1>1
<1>3. CASE CacheOwn(c) /\ c.name.src = Self
    <2> DEFINE e == [name |-> c.name, ts |-> c.ts, user1 |-> TRUE, user2 |-> TRUE]
               t == _unflag_cs(contents, Self)
    <2>1. e \in Entries
        BY DEF Chunks, Entries
    <2>2. contents \in Seq(Entries)
        BY DEF TypeOK
    <2>3. /\ t \in Seq(Entries) /\ Len(t) = Len(contents) /\ DOMAIN t = DOMAIN contents
          /\ \A i \in DOMAIN contents : /\ t[i].name = contents[i].name
                                        /\ t[i].ts = contents[i].ts
                                        /\ contents[i].name.src # Self => t[i] = contents[i]
        BY <2>2, UnflagKeeps
    <2>4. ccnl_content_add2cache(t, e)
        BY <1>3, Zenon DEF CacheOwn
    <2> HIDE DEF e, t
    <2>5. \A i \in DOMAIN contents : contents[i].name = n => t[i].user1 = contents[i].user1
        BY <2>3
    <2>6. Shielded(t, n)
        BY <2>2, <2>3, <2>5, ShieldedLocal
    <2> QED BY <2>1, <2>3, <2>4, <2>6, <1>1
<1>4. CASE UNCHANGED storeVars
    <2>1. \A i \in DOMAIN contents : strtol(contents[i].ts) \in Nat
        BY EntriesAt DEF TypeOK
    <2> QED BY <2>1, <1>4 DEF storeVars, NoStaler, SameName
<1> QED BY <1>2, <1>3, <1>4 DEF ccnlriot_consumer

\* What is flagged, of another node, and pushed out by one call of the consumer.
LEMMA ConsumerSpares ==
    ASSUME TypeOK, NEW c \in Chunks, ccnlriot_consumer(c),
           NEW o \in DOMAIN contents, contents[o].user1, contents[o].name.src # Self,
           PushedOut(contents, contents', o)
    PROVE  /\ Unflagged(contents) = {}
           /\ contents[o].name.pfx = registered => Unregistered(contents, registered) = {}
<1>1. ASSUME NEW t \in Seq(Entries), NEW e \in Entries, Len(t) = Len(contents),
             DOMAIN t = DOMAIN contents,
             \A i \in DOMAIN contents : t[i].name = contents[i].name /\ t[i].ts = contents[i].ts,
             ccnl_content_add2cache(t, e), e.name # contents[o].name => t[o].user1,
             \A i \in DOMAIN contents :
                contents[i].name # e.name /\ ~contents[i].user1 => ~t[i].user1
      PROVE  /\ Unflagged(contents) = {}
             /\ contents[o].name.pfx = registered => Unregistered(contents, registered) = {}
    <2>1. Len(t) <= Cap
        BY <1>1 DEF TypeOK
    <2>2. /\ o \in DOMAIN t /\ (e.name # t[o].name => t[o].user1)
          /\ PushedOut(t, contents', o)
        BY <1>1 DEF PushedOut
    <2>3. /\ SameName(t, e.name) = {} /\ Unflagged(t) = {}
          /\ t[o].name.pfx = registered => Unregistered(t, registered) = {}
        BY <1>1, <2>1, <2>2, AddSpares, Zenon
    <2>4. Unflagged(contents) = {}
        BY <1>1, <2>3 DEF Unflagged, SameName
    <2>5. {i \in DOMAIN t : t[i].name.pfx # registered} =
            {i \in DOMAIN contents : contents[i].name.pfx # registered}
        BY <1>1
    <2>6. Unregistered(t, registered) = Unregistered(contents, registered)
        BY <2>5 DEF Unregistered
    <2> QED BY <1>1, <2>3, <2>4, <2>6
<1>2. CASE _ccnl_helper_handle_content(c)
    <2> DEFINE e == [name |-> c.name, ts |-> c.ts, user1 |-> Younger(contents, c) = {}, user2 |-> TRUE]
               t == HandleScan(contents, c)
    <2>1. e \in Entries /\ e.name = c.name /\ t = HandleScan(contents, c)
        BY DEF Chunks, Entries
    <2>2. ccnl_content_add2cache(t, e)
        BY <1>2, Zenon DEF _ccnl_helper_handle_content
    <2> HIDE DEF e, t
    <2>3. /\ t \in Seq(Entries) /\ Len(t) = Len(contents) /\ DOMAIN t = DOMAIN contents
          /\ \A i \in DOMAIN contents : /\ t[i].name = contents[i].name
                                        /\ t[i].ts = contents[i].ts
                                        /\ contents[i].name # c.name => t[i] = contents[i]
        <3>1. contents \in Seq(Entries)
            BY DEF TypeOK
        <3> QED BY <2>1, <3>1, ScanKeeps
    <2>4. /\ e.name # contents[o].name => t[o].user1
          /\ \A i \in DOMAIN contents :
                contents[i].name # e.name /\ ~contents[i].user1 => ~t[i].user1
        BY <2>1, <2>3
    <2> QED BY <2>1, <2>2, <2>3, <2>4, <1>1
<1>3. CASE CacheOwn(c)
    <2> DEFINE e == [name |-> c.name, ts |-> c.ts, user1 |-> TRUE, user2 |-> TRUE]
               t == _unflag_cs(contents, Self)
    <2>1. e \in Entries
        BY DEF Chunks, Entries
    <2>2. contents \in Seq(Entries)
        BY DEF TypeOK
    <2>3. /\ t \in Seq(Entries) /\ Len(t) = Len(contents) /\ DOMAIN t = DOMAIN contents
          /\ \A i \in DOMAIN contents : /\ t[i].name = contents[i].name
                                        /\ t[i].ts = contents[i].ts
                                        /\ contents[i].name.src # Self => t[i] = contents[i]
        BY <2>2, UnflagKeeps
    <2>4. \A i \in DOMAIN contents : ~contents[i].user1 => ~t[i].user1
        <3> TAKE i \in DOMAIN contents
        <3>1. contents[i] \in Entries
            BY <2>2, EntriesAt
        <3>2. CASE contents[i].name.src = Self
            BY <3>1, <3>2 DEF _unflag_cs, Entries
        <3>3. CASE contents[i].name.src # Self
            BY <2>3, <3>3
        <3> QED BY <3>2, <3>3
    <2>5. ccnl_content_add2cache(t, e)
        BY <1>3, Zenon DEF CacheOwn
    <2> HIDE DEF e, t
    <2>6. t[o].user1
        BY <2>3
    <2> QED BY <2>1, <2>3, <2>4, <2>5, <2>6, <1>1
<1>4. CASE UNCHANGED storeVars
    BY <1>4 DEF storeVars, PushedOut
<1> QED BY <1>2, <1>3, <1>4 DEF ccnlriot_consumer

-----------------------------------------------------------------------------
(***************************************************************************)
(* The theorems.                                                           *)
(***************************************************************************)

LEMMA InitTypes == Init => TypeOK
<1> SUFFICES ASSUME Init PROVE TypeOK
    OBVIOUS
<1>1. contents \in Seq(Entries) /\ sensors \in Seq(PfxChars) /\ loopback \in Seq(Chunks)
    BY DEF Init
<1>2. Len(contents) <= Cap /\ flaggedCache \in 0..Cap /\ clock \in TimeStamps /\ oldData \in 0..MaxTs
    BY ConstantsAssumption DEF Init, TimeStamps
<1> QED BY <1>1, <1>2 DEF Init, TypeOK

LEMMA NextTypes == TypeOK /\ [Next]_vars => TypeOK'
<1> SUFFICES ASSUME TypeOK, [Next]_vars PROVE TypeOK'
    OBVIOUS
<1>1. CASE dow_new_data
    <2>1. PICK p \in DataPrefixes, data \in {oldData, clock} :
            /\ loopback' = <<[name |-> [pfx |-> p, src |-> Self], ts |-> data]>>
            /\ oldData' = data
            /\ data # 0
            /\ sendOldData' \in BOOLEAN
        <3>1. PICK p \in DataPrefixes :
                LET again == REBC_LAST /\ oldData # 0 /\ sendOldData
                    data == IF again THEN oldData ELSE clock
                IN  /\ again \/ clock > oldData
                    /\ loopback' = <<[name |-> [pfx |-> p, src |-> Self], ts |-> data]>>
                    /\ oldData' = data
                    /\ sendOldData' = (REBC_LAST /\ ~again)
            BY <1>1 DEF dow_new_data
        <3>2. clock # 0
            BY DEF TypeOK, TimeStamps
        <3> QED BY <3>1, <3>2, ConstantsAssumption
    <2>2. p \in PfxChars \cup {Site}
        BY DEF DataPrefixes, TypeOK, ToSet
    <2>3. data \in TimeStamps
        BY <2>1, ConstantsAssumption DEF TypeOK, TimeStamps
    <2>4. [name |-> [pfx |-> p, src |-> Self], ts |-> data] \in Chunks
        BY <2>2, <2>3, ConstantsAssumption DEF Chunks, Names
    <2>5. loopback' \in Seq(Chunks) /\ oldData' \in 0..MaxTs /\ sendOldData' \in BOOLEAN
        BY <2>1, <2>3, <2>4, ConstantsAssumption DEF TimeStamps
    <2> QED BY <1>1, <2>5 DEF dow_new_data, TypeOK, storeVars, shellVars
<1>2. CASE ReceiveOwn
    <2>1. Head(loopback) \in Chunks /\ Tail(loopback) \in Seq(Chunks)
        BY <1>2 DEF ReceiveOwn, TypeOK
    <2> QED BY <1>2, <2>1, ConsumerTypes DEF ReceiveOwn, TypeOK, shellVars
<1>3. CASE ReceiveBroadcast
    <2>1. PICK c \in Chunks : ccnlriot_consumer(c)
        BY <1>3 DEF ReceiveBroadcast
    <2> QED BY <1>3, <2>1, ConsumerTypes DEF ReceiveBroadcast, TypeOK, shellVars, dataVars
<1>4. CASE BecomeDeputy
    <2>1. ccnl_helper_reset(contents) \in Seq(Entries)
          /\ Len(ccnl_helper_reset(contents)) = Len(contents)
        BY ResetKeeps DEF TypeOK
    <2> QED BY <1>4, <2>1 DEF BecomeDeputy, TypeOK, shellVars, dataVars
<1>5. CASE GoInactive \/ _stop_dow
    BY <1>5 DEF GoInactive, _stop_dow, TypeOK, storeVars, shellVars, dataVars
<1>6. CASE _sub_prefix \/ _add_sensor
    <2>1. registered' \in PfxChars \cup {None} /\ sensors' \in Seq(PfxChars)
        <3>1. CASE _sub_prefix
            BY <3>1 DEF _sub_prefix, TypeOK
        <3>2. CASE _add_sensor
            <4>1. PICK p \in PfxChars :
                    /\ sensors' = Append(sensors, p)
                    /\ registered' = IF registered = None THEN p ELSE registered
                BY <3>2 DEF _add_sensor
            <4>2. Append(sensors, p) \in Seq(PfxChars)
                BY DEF TypeOK
            <4> QED BY <4>1, <4>2 DEF TypeOK
        <3> QED BY <1>6, <3>1, <3>2
    <2>2. UNCHANGED <<storeVars, dowState, dataVars>>
        BY <1>6 DEF _sub_prefix, _add_sensor
    <2> QED BY <2>1, <2>2 DEF TypeOK, storeVars, dataVars
<1>7. CASE Tick
    BY <1>7, ConstantsAssumption DEF Tick, TypeOK, TimeStamps, storeVars, shellVars
<1>8. CASE UNCHANGED vars
    BY <1>8 DEF vars, TypeOK, storeVars, shellVars, dataVars
<1> QED BY <1>1, <1>2, <1>3, <1>4, <1>5, <1>6, <1>7, <1>8 DEF Next

\* Type correctness, the capacity of the store included: no sequence of data,
\* wake-ups and shell commands stores more than dow_cache_size chunks, and the
\* count of recent entries that the statistics print stays within it.
THEOREM TypeCorrect == Spec => []TypeOK
BY InitTypes, NextTypes, PTL DEF Spec

\* A full store stays full: the eviction never removes an entry without storing
\* the chunk it was asked to make room for.
THEOREM StaysFull == Spec => FullStaysFull
<1>1. TypeOK /\ [Next]_vars => [Len(contents) = Cap => Len(contents') = Cap]_vars
    <2> SUFFICES ASSUME TypeOK, Next, Len(contents) = Cap PROVE Len(contents') = Cap
        OBVIOUS
    <2>1. CASE ReceiveOwn
        <3>1. Head(loopback) \in Chunks
            BY <2>1 DEF ReceiveOwn, TypeOK
        <3> QED BY <2>1, <3>1, ConsumerTypes DEF ReceiveOwn
    <2>2. CASE ReceiveBroadcast
        BY <2>2, ConsumerTypes DEF ReceiveBroadcast
    <2>3. CASE BecomeDeputy
        BY <2>3, ResetKeeps DEF BecomeDeputy, TypeOK
    <2>4. CASE UNCHANGED storeVars
        BY <2>4 DEF storeVars
    <2> QED BY <2>1, <2>2, <2>3, <2>4
            DEF Next, dow_new_data, GoInactive, _stop_dow, _sub_prefix, _add_sensor, Tick
<1> QED BY <1>1, TypeCorrect, PTL DEF Spec, FullStaysFull

\* Only own data travels through the loopback interface.
LoopbackOwn == \A i \in DOMAIN loopback : loopback[i].name.src = Self

\* The inductive invariant behind NewestIsFlagged.
IInv == TypeOK /\ LoopbackOwn /\ \A n \in Names : n.src # Self => Shielded(contents, n)

LEMMA IInvHolds == ~Repeats => (Spec => []IInv)
<1> SUFFICES ASSUME ~Repeats PROVE Spec => []IInv
    OBVIOUS
<1>1. Init => IInv
    <2> SUFFICES ASSUME Init PROVE LoopbackOwn /\ \A n \in Names : Shielded(contents, n)
        BY InitTypes DEF IInv
    <2>1. contents = <<>> /\ loopback = <<>>
        BY DEF Init
    <2> QED BY <2>1 DEF LoopbackOwn, Shielded, SameName
<1>2. IInv /\ [Next]_vars => IInv'
    <2> SUFFICES ASSUME IInv, [Next]_vars
                 PROVE  LoopbackOwn' /\ \A n \in Names : n.src # Self => Shielded(contents, n)'
        BY NextTypes DEF IInv
    <2>1. LoopbackOwn'
        <3>1. CASE dow_new_data
            <4>1. PICK p, data :
                    loopback' = <<[name |-> [pfx |-> p, src |-> Self], ts |-> data]>>
                BY <3>1 DEF dow_new_data
            <4> QED BY <4>1 DEF LoopbackOwn
        <3>2. CASE ReceiveOwn
            BY <3>2 DEF ReceiveOwn, IInv, LoopbackOwn, TypeOK
        <3>3. CASE UNCHANGED loopback
            BY <3>3 DEF IInv, LoopbackOwn
        <3> QED BY <3>1, <3>2, <3>3 DEF Next, vars, dataVars, ReceiveBroadcast, BecomeDeputy,
                    GoInactive, _stop_dow, _sub_prefix, _add_sensor, Tick
    <2>2. ASSUME NEW n \in Names, n.src # Self
          PROVE  Shielded(contents, n)'
        <3>1. TypeOK /\ Shielded(contents, n)
            BY <2>2 DEF IInv
        <3>2. CASE ReceiveOwn
            <4>1. Head(loopback) \in Chunks /\ Head(loopback).name.src = Self
                BY <3>2 DEF ReceiveOwn, IInv, TypeOK, LoopbackOwn
            <4>2. ccnlriot_consumer(Head(loopback)) /\ Head(loopback).name # n
                BY <3>2, <4>1, <2>2 DEF ReceiveOwn
            <4> QED BY <4>1, <4>2, <3>1, <2>2, ConsumerShields
        <3>3. CASE ReceiveBroadcast
            <4>1. PICK c \in Chunks : ~IsStored(contents, c) /\ ccnlriot_consumer(c)
                BY <3>3 DEF ReceiveBroadcast
            <4> QED BY <4>1, <3>1, <2>2, ConsumerShields
        <3>4. CASE BecomeDeputy
            <4>1. Shielded(ccnl_helper_reset(contents), n)
                BY <3>1, ResetKeeps, ShieldedLocal DEF TypeOK
            <4> QED BY <3>4, <4>1 DEF BecomeDeputy, Shielded, SameName
        <3>5. CASE UNCHANGED contents
            BY <3>1, <3>5 DEF Shielded, SameName
        <3> QED BY <3>2, <3>3, <3>4, <3>5 DEF Next, vars, storeVars, dow_new_data,
                    GoInactive, _stop_dow, _sub_prefix, _add_sensor, Tick
    <2> QED BY <2>1, <2>2
<1> QED BY <1>1, <1>2, PTL DEF Spec

\* Where no stored chunk of another node arrives once more, the newest entry of
\* each of their names is flagged, so that the eviction spares it for as long
\* as anything is left without a flag: whatever the order in which time stamps
\* arrive, whatever is evicted, and whenever the node sleeps.
THEOREM NewestFlagged == ~Repeats => (Spec => []NewestIsFlagged)
<1>1. IInv => NewestIsFlagged
    BY DEF IInv, NewestIsFlagged, ForeignNames, Shielded
<1> QED BY <1>1, IInvHolds, PTL


\* Only what arrives, or a wake-up, changes the store.
LEMMA StoreSteps ==
    ASSUME TypeOK, [Next]_vars
    PROVE  \/ UNCHANGED contents
           \/ contents' = ccnl_helper_reset(contents)
           \/ \E c \in Chunks : ccnlriot_consumer(c)
<1>1. CASE ReceiveOwn
    <2>1. Head(loopback) \in Chunks
        BY <1>1 DEF ReceiveOwn, TypeOK
    <2> QED BY <1>1, <2>1 DEF ReceiveOwn
<1>2. CASE ReceiveBroadcast
    BY <1>2 DEF ReceiveBroadcast
<1>3. CASE BecomeDeputy
    BY <1>3 DEF BecomeDeputy
<1>4. CASE \/ dow_new_data \/ GoInactive \/ _stop_dow \/ _sub_prefix \/ _add_sensor \/ Tick
           \/ UNCHANGED vars
    BY <1>4 DEF dow_new_data, GoInactive, _stop_dow, _sub_prefix, _add_sensor, Tick, vars,
        storeVars
<1> QED BY <1>1, <1>2, <1>3, <1>4 DEF Next

\* No chunk that arrives makes the newest stored value of another node's name
\* older, unless the name is given up altogether: an entry without a flag that
\* goes is not the newest, as that one has a flag, and where everything is
\* flagged the oldest goes, so that what stays of its name is no older.
THEOREM NeverStaler == ~Repeats => (Spec => NamesNeverGetStale)
<1> SUFFICES ASSUME ~Repeats PROVE Spec => NamesNeverGetStale
    OBVIOUS
<1>1. IInv /\ [Next]_vars =>
        \A n \in ForeignNames(contents) \cap ForeignNames(contents') :
            Newest(contents', n) >= Newest(contents, n)
    <2> SUFFICES ASSUME IInv, [Next]_vars,
                        NEW n \in ForeignNames(contents) \cap ForeignNames(contents')
                 PROVE  Newest(contents', n) >= Newest(contents, n)
        OBVIOUS
    <2>1. TypeOK /\ TypeOK'
        BY NextTypes DEF IInv
    <2>2. contents \in Seq(Entries) /\ contents' \in Seq(Entries)
        BY <2>1 DEF TypeOK
    <2>3. /\ n.src # Self /\ SameName(contents, n) # {} /\ SameName(contents', n) # {}
          /\ n \in Names
        BY DEF ForeignNames
    <2>4. Shielded(contents, n)
        BY <2>3 DEF IInv
    <2>5. \A i \in DOMAIN contents : strtol(contents[i].ts) \in Nat
        BY <2>2, EntriesAt
    <2>6. CASE contents' \in {contents, ccnl_helper_reset(contents)}
        <3>1. /\ DOMAIN contents' = DOMAIN contents
              /\ \A i \in DOMAIN contents : /\ contents'[i].name = contents[i].name
                                            /\ contents'[i].ts = contents[i].ts
            BY <2>2, <2>6, ResetKeeps
        <3>2. NoStaler(contents, contents', n)
            BY <3>1, <2>5 DEF NoStaler, SameName
        <3> QED BY <3>2, <2>2, <2>3, NewestGrows
    <2>7. ASSUME NEW c \in Chunks, ccnlriot_consumer(c)
          PROVE  Newest(contents', n) >= Newest(contents, n)
        <3>1. NoStaler(contents, contents', n)
            BY <2>1, <2>3, <2>4, <2>7, ConsumerNoStaler
        <3> QED BY <3>1, <2>2, <2>3, NewestGrows
    <2> QED BY <2>1, <2>6, <2>7, StoreSteps
<1> QED BY <1>1, IInvHolds, PTL DEF Spec, NamesNeverGetStale

\* An entry of another node that has a flag is pushed out by another name only
\* if nothing is left without a flag, and one of the subscribed prefix only if
\* nothing else is stored, also where chunks arrive twice.
THEOREM FlagsShield == Spec => FlagShields
<1>1. TypeOK /\ [Next]_vars =>
        \A e \in ToSet(contents) :
            /\ e.user1
            /\ e.name.src # Self
            /\ ~IsStored(contents', e)
            /\ contents'[1].name # e.name
            => /\ Unflagged(contents) = {}
               /\ e.name.pfx = registered => Unregistered(contents, registered) = {}
    <2> SUFFICES ASSUME TypeOK, [Next]_vars, NEW o \in DOMAIN contents,
                        contents[o].user1, contents[o].name.src # Self,
                        PushedOut(contents, contents', o)
                 PROVE  /\ Unflagged(contents) = {}
                        /\ contents[o].name.pfx = registered =>
                                Unregistered(contents, registered) = {}
        BY DEF ToSet, IsStored, PushedOut
    <2>1. contents \in Seq(Entries)
        BY DEF TypeOK
    <2>2. CASE contents' \in {contents, ccnl_helper_reset(contents)}
        <3>1. /\ DOMAIN contents' = DOMAIN contents
              /\ contents'[o].name = contents[o].name /\ contents'[o].ts = contents[o].ts
            BY <2>1, <2>2, ResetKeeps
        <3> QED BY <3>1 DEF PushedOut
    <2>3. ASSUME NEW c \in Chunks, ccnlriot_consumer(c)
          PROVE  /\ Unflagged(contents) = {}
                 /\ contents[o].name.pfx = registered =>
                        Unregistered(contents, registered) = {}
        BY <2>3, ConsumerSpares
    <2> QED BY <2>2, <2>3, StoreSteps
<1> QED BY <1>1, TypeCorrect, PTL DEF Spec, FlagShields

=============================================================================
