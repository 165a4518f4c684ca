-------------------------- MODULE ComputationProofs --------------------------
(***************************************************************************)
(* Proofs about Computation for every set of IDs and prefixes, every cache *)
(* size, every LONG_MAX and every range of time stamps.                    *)
(***************************************************************************)
EXTENDS Computation, FiniteSetTheorems, WellFoundedInduction, SequenceTheorems,
        TLAPS

-----------------------------------------------------------------------------
(***************************************************************************)
(* Natural numbers, and the list of a content store, which grows at its    *)
(* head and loses an entry anywhere.                                       *)
(***************************************************************************)

\* A nonempty set of natural numbers has a least element.
LEMMA LeastNatural ==
    \A U \in SUBSET Nat : U # {} => \E x \in U : \A y \in U : x <= y
<1> SUFFICES ASSUME NEW U \in SUBSET Nat, U # {}
             PROVE  \E x \in U : \A y \in U : x <= y
    OBVIOUS
<1>1. \E x \in U : \A y \in U : ~(<<y, x>> \in OpToRel(<, Nat))
    BY NatLessThanWellFounded, WFMin
<1>2. \A x, y \in U : ~(<<y, x>> \in OpToRel(<, Nat)) => x <= y
    BY DEF OpToRel
<1> QED BY <1>1, <1>2

\* DBL_LINKED_LIST_ADD: the new entry is the head, the others move up by one.
LEMMA ConsAt ==
    ASSUME NEW T, NEW s \in Seq(T), NEW e \in T
    PROVE  /\ Cons(e, s) \in Seq(T)
           /\ Len(Cons(e, s)) = Len(s) + 1
           /\ Cons(e, s)[1] = e
           /\ \A i \in DOMAIN s : Cons(e, s)[i + 1] = s[i]
<1>1. <<e>> \in Seq(T) /\ Len(<<e>>) = 1 /\ <<e>>[1] = e
    OBVIOUS
<1> QED BY <1>1 DEF Cons

\* Removing one entry keeps the others in their order.
LEMMA RemoveAtAt ==
    ASSUME NEW T, NEW s \in Seq(T), NEW v \in DOMAIN s
    PROVE  /\ RemoveAt(s, v) \in Seq(T)
           /\ Len(RemoveAt(s, v)) = Len(s) - 1
           /\ \A i \in 1..(Len(s) - 1) :
                  RemoveAt(s, v)[i] = IF i < v THEN s[i] ELSE s[i + 1]
<1> DEFINE a == SubSeq(s, 1, v - 1)
           b == SubSeq(s, v + 1, Len(s))
<1>1. v \in 1..Len(s) /\ Len(s) \in Nat
    OBVIOUS
<1>2. /\ a \in Seq(T) /\ Len(a) = v - 1
      /\ \A i \in 1..(v - 1) : a[i] = s[i]
    BY <1>1, SubSeqProperties
<1>3. /\ b \in Seq(T) /\ Len(b) = Len(s) - v
      /\ \A i \in 1..(Len(s) - v) : b[i] = s[v + i]
    BY <1>1, SubSeqProperties
<1>4. RemoveAt(s, v) = a \o b
    BY DEF RemoveAt
<1> HIDE DEF a, b
<1>5. /\ a \o b \in Seq(T) /\ Len(a \o b) = Len(s) - 1
      /\ \A i \in 1..(Len(s) - 1) :
            (a \o b)[i] = IF i <= v - 1 THEN a[i] ELSE b[i - (v - 1)]
    <2>1. /\ a \o b \in Seq(T) /\ Len(a \o b) = Len(a) + Len(b)
          /\ \A i \in 1..(Len(a) + Len(b)) :
                (a \o b)[i] = IF i <= Len(a) THEN a[i] ELSE b[i - Len(a)]
        BY <1>2, <1>3, ConcatProperties, Zenon
    <2>2. Len(a) + Len(b) = Len(s) - 1
        BY <1>1, <1>2, <1>3
    <2> QED BY <2>1, <2>2, <1>2
<1>6. ASSUME NEW i \in 1..(Len(s) - 1)
      PROVE  (a \o b)[i] = IF i < v THEN s[i] ELSE s[i + 1]
    <2>1. CASE i < v
        BY <2>1, <1>1, <1>2, <1>5
    <2>2. CASE ~(i < v)
        <3>1. i - (v - 1) \in 1..(Len(s) - v) /\ v + (i - (v - 1)) = i + 1
            BY <2>2, <1>1
        <3>2. (a \o b)[i] = b[i - (v - 1)]
            BY <2>2, <1>1, <1>5
        <3> QED BY <2>2, <3>1, <3>2, <1>3
    <2> QED BY <2>1, <2>2
<1> QED BY <1>4, <1>5, <1>6

\* x is s with a new head e for the entry at v.
Replaced(s, v, e, x) ==
    /\ Len(x) = Len(s)
    /\ 1 \in DOMAIN x
    /\ x[1] = e
    /\ \A k \in DOMAIN x \ {1} : \E i \in DOMAIN s \ {v} : x[k] = s[i]
    /\ \A i \in DOMAIN s \ {v} : \E k \in DOMAIN x \ {1} : x[k] = s[i]

\* What replacing the entry at v by a new head e keeps and adds.
LEMMA ReplacedEntries ==
    ASSUME NEW T, NEW s \in Seq(T), NEW v \in DOMAIN s, NEW e \in T
    PROVE  /\ Cons(e, RemoveAt(s, v)) \in Seq(T)
           /\ Replaced(s, v, e, Cons(e, RemoveAt(s, v)))
<1> DEFINE x == Cons(e, RemoveAt(s, v))
           r == RemoveAt(s, v)
<1>1. /\ r \in Seq(T) /\ Len(r) = Len(s) - 1
      /\ \A i \in 1..(Len(s) - 1) : r[i] = IF i < v THEN s[i] ELSE s[i + 1]
    BY RemoveAtAt
<1> HIDE DEF r, x
<1>2. /\ x \in Seq(T) /\ Len(x) = Len(r) + 1 /\ x[1] = e
      /\ \A i \in DOMAIN r : x[i + 1] = r[i]
    BY <1>1, ConsAt DEF r, x
<1>3. v \in 1..Len(s) /\ Len(s) \in Nat /\ DOMAIN s = 1..Len(s) /\ DOMAIN x = 1..Len(s)
      /\ DOMAIN r = 1..(Len(s) - 1)
    BY <1>1, <1>2
<1>4. ASSUME NEW k \in DOMAIN x \ {1}
      PROVE  \E i \in DOMAIN s \ {v} : x[k] = s[i]
    <2>1. k - 1 \in DOMAIN r /\ x[k] = r[k - 1]
        BY <1>2, <1>3
    <2>2. r[k - 1] = IF k - 1 < v THEN s[k - 1] ELSE s[k]
        BY <2>1, <1>1, <1>3
    <2> QED BY <2>1, <2>2, <1>3
<1>5. ASSUME NEW i \in DOMAIN s \ {v}
      PROVE  \E k \in DOMAIN x \ {1} : x[k] = s[i]
    <2>1. CASE i < v
        <3>1. i \in DOMAIN r /\ r[i] = s[i] /\ x[i + 1] = r[i] /\ i + 1 \in DOMAIN x \ {1}
            BY <2>1, <1>1, <1>2, <1>3
        <3> QED BY <3>1
    <2>2. CASE ~(i < v)
        <3>1. i - 1 \in DOMAIN r /\ r[i - 1] = s[i] /\ x[i] = r[i - 1] /\ i \in DOMAIN x \ {1}
            BY <2>2, <1>1, <1>2, <1>3
        <3> QED BY <3>1
    <2> QED BY <2>1, <2>2
<1>6. x \in Seq(T) /\ Len(x) = Len(s) /\ 1 \in DOMAIN x /\ x[1] = e
    BY <1>1, <1>2, <1>3
<1> QED BY <1>4, <1>5, <1>6 DEF Replaced, x

-----------------------------------------------------------------------------
(***************************************************************************)
(* The operators of the store, on entries whose time stamp may be a CPU ID.*)
(***************************************************************************)

\* Everything that a node can be sent.
Data == [name : S!Names, ts : Nat]

\* Two entries that differ in the flag USER2 at most.
Alike(x, y) == x.name = y.name /\ x.ts = y.ts /\ x.user1 = y.user1

LEMMA IdsAreNumbers == AllIds \subseteq Nat
<1>1. Ids \subseteq Nat /\ \A i \in Ids : CpuId[i] \in Nat
    BY ConstantsAssumption
<1> QED BY <1>1 DEF AllIds

\* strtol() keeps the order, but for what it saturates.
LEMMA StrtolOrder ==
    \A m, n \in Nat : S!strtol(n) \in 0..LongMax /\ (m <= n => S!strtol(m) <= S!strtol(n))
BY ConstantsAssumption DEF S!strtol

\* What is stored at a position, and with one of its flags changed.
LEMMA EntriesAt ==
    ASSUME NEW s \in Seq(Entries), NEW i \in DOMAIN s
    PROVE  /\ i \in Nat
           /\ s[i] \in Entries
           /\ s[i].ts \in Nat
           /\ S!strtol(s[i].ts) \in Nat
           /\ \A b \in BOOLEAN : [s[i] EXCEPT !.user1 = b] \in Entries
           /\ \A b \in BOOLEAN : [s[i] EXCEPT !.user2 = b] \in Entries
<1>1. i \in Nat /\ s[i] \in Entries
    OBVIOUS
<1>2. \A e \in Entries, b \in BOOLEAN :
        [e EXCEPT !.user1 = b] \in Entries /\ [e EXCEPT !.user2 = b] \in Entries
    BY DEF Entries
<1>3. s[i].ts \in Nat
    BY <1>1 DEF Entries
<1>4. \A n \in 0..LongMax : n \in Nat
    OBVIOUS
<1>5. S!strtol(s[i].ts) \in Nat
    BY <1>3, <1>4, StrtolOrder
<1> QED BY <1>1, <1>2, <1>3, <1>5

\* The scan for the oldest entry returns one of the candidates.
LEMMA OldestIsOne ==
    ASSUME NEW s \in Seq(Entries), NEW I \in SUBSET DOMAIN s, I # {}
    PROVE  S!Oldest(s, I) \in I
<1> DEFINE V == {S!strtol(s[i].ts) : i \in I}
           LeastAt(i) == \A j \in I : \/ S!strtol(s[i].ts) < S!strtol(s[j].ts)
                                      \/ S!strtol(s[i].ts) = S!strtol(s[j].ts) /\ i <= j
<1>1. \A i \in I : i \in Nat /\ S!strtol(s[i].ts) \in Nat
    BY EntriesAt
<1>2. PICK t \in V : \A u \in V : t <= u
    <2>1. V \in SUBSET Nat /\ V # {}
        BY <1>1
    <2> HIDE DEF V
    <2> QED BY <2>1, LeastNatural
<1> DEFINE J == {i \in I : S!strtol(s[i].ts) = t}
<1>3. PICK i \in J : \A j \in J : i <= j
    <2>1. J \in SUBSET Nat /\ J # {}
        BY <1>1, <1>2
    <2> HIDE DEF J
    <2> QED BY <2>1, LeastNatural
<1>4. i \in I /\ LeastAt(i)
    <2>1. \A j \in I : t <= S!strtol(s[j].ts)
        BY <1>2
    <2>2. \A j \in I : S!strtol(s[j].ts) = t => i <= j
        BY <1>3
    <2>3. i \in I /\ S!strtol(s[i].ts) = t
        BY <1>3
    <2> QED BY <2>1, <2>2, <2>3, <1>1
<1>5. S!Oldest(s, I) = CHOOSE k \in I : LeastAt(k)
    BY DEF S!Oldest
<1> HIDE DEF LeastAt
<1> QED BY <1>4, <1>5

\* What the strategy removes is an entry of the chunk's own name, or one without
\* a flag, or everything is flagged; it removes none only where an entry of the
\* name is younger, or everything is flagged.
LEMMA StrategyVictim ==
    ASSUME NEW s \in Seq(Entries), s # <<>>, NEW c \in Entries
    PROVE  /\ \A v \in cs_oldest_representative(s, c) :
                /\ v \in DOMAIN s
                /\ \/ s[v].name = c.name
                   \/ ~s[v].user1
                   \/ S!Unflagged(s) = {}
           /\ cs_oldest_representative(s, c) = {} =>
                S!Younger(s, c) # {} \/ S!Unflagged(s) = {}
<1> DEFINE same == S!SameName(s, c.name)
           foreign == S!Unregistered(s, registered)
<1>1. /\ same \in SUBSET DOMAIN s /\ S!Unflagged(s) \in SUBSET DOMAIN s
      /\ foreign \in SUBSET DOMAIN s /\ DOMAIN s # {}
    BY DEF S!SameName, S!Unflagged, S!Unregistered
<1>2. \A I \in SUBSET DOMAIN s : I # {} => S!Oldest(s, I) \in I
    BY OldestIsOne
<1>3. CASE same # {}
    <2>1. cs_oldest_representative(s, c) =
            IF S!strtol(s[S!Oldest(s, same)].ts) > S!strtol(c.ts)
            THEN {} ELSE {S!Oldest(s, same)}
        BY <1>3 DEF cs_oldest_representative, S!cs_oldest_representative, S!TooOld
    <2>2. S!Oldest(s, same) \in same
        BY <1>1, <1>2, <1>3
    <2>3. \A i \in same : i \in DOMAIN s /\ s[i].name = c.name
        BY DEF S!SameName
    <2>4. S!strtol(s[S!Oldest(s, same)].ts) > S!strtol(c.ts) => S!Younger(s, c) # {}
        BY <2>2 DEF S!Younger
    <2> HIDE DEF same
    <2> QED BY <2>1, <2>2, <2>3, <2>4
<1>4. CASE same = {} /\ S!Unflagged(s) # {}
    <2>1. cs_oldest_representative(s, c) = {S!Oldest(s, S!Unflagged(s))}
        BY <1>4 DEF cs_oldest_representative, S!cs_oldest_representative
    <2>2. S!Oldest(s, S!Unflagged(s)) \in S!Unflagged(s)
        BY <1>1, <1>2, <1>4
    <2> QED BY <2>1, <2>2 DEF S!Unflagged
<1>5. CASE same = {} /\ S!Unflagged(s) = {}
    <2>1. \/ cs_oldest_representative(s, c) = {}
          \/ foreign # {} /\ cs_oldest_representative(s, c) = {S!Oldest(s, foreign)}
          \/ cs_oldest_representative(s, c) = {S!Oldest(s, DOMAIN s)}
        BY <1>5 DEF cs_oldest_representative, S!cs_oldest_representative, S!TooOld
    <2> QED BY <2>1, <1>1, <1>2, <1>5
<1> QED BY <1>3, <1>4, <1>5

\* Resetting USER2 keeps everything else.
LEMMA ResetKeeps ==
    ASSUME NEW s \in Seq(Entries)
    PROVE  /\ ccnl_helper_reset(s) \in Seq(Entries)
           /\ Len(ccnl_helper_reset(s)) = Len(s)
           /\ DOMAIN ccnl_helper_reset(s) = DOMAIN s
           /\ \A i \in DOMAIN s : Alike(ccnl_helper_reset(s)[i], s[i])
<1>1. \A i \in DOMAIN s : s[i] \in Entries /\ [s[i] EXCEPT !.user2 = FALSE] \in Entries
    BY EntriesAt
<1>2. ccnl_helper_reset(s) = [i \in DOMAIN s |-> [s[i] EXCEPT !.user2 = FALSE]]
    BY DEF ccnl_helper_reset, S!ccnl_helper_reset
<1>3. ccnl_helper_reset(s) \in [1..Len(s) -> Entries]
    BY <1>1, <1>2
<1> QED BY <1>1, <1>2, <1>3 DEF Entries, Alike

\* Taking the flags of a source touches no other source.
LEMMA UnflagKeeps ==
    ASSUME NEW s \in Seq(Entries), NEW src
    PROVE  /\ _unflag_cs(s, src) \in Seq(Entries)
           /\ Len(_unflag_cs(s, src)) = Len(s)
           /\ DOMAIN _unflag_cs(s, src) = DOMAIN s
           /\ \A i \in DOMAIN s : /\ _unflag_cs(s, src)[i].name = s[i].name
                                  /\ _unflag_cs(s, src)[i].ts = s[i].ts
<1>1. \A i \in DOMAIN s : s[i] \in Entries /\ [s[i] EXCEPT !.user1 = FALSE] \in Entries
    BY EntriesAt
<1>2. _unflag_cs(s, src) = [i \in DOMAIN s |-> IF s[i].name.src = src
                                               THEN [s[i] EXCEPT !.user1 = FALSE]
                                               ELSE s[i]]
    BY DEF _unflag_cs, S!_unflag_cs
<1>3. _unflag_cs(s, src) \in [1..Len(s) -> Entries]
    BY <1>1, <1>2
<1> QED BY <1>1, <1>2, <1>3 DEF Entries

\* Flagging before storing touches no other name, and of this one only flags.
LEMMA ScanKeeps ==
    ASSUME NEW s \in Seq(Entries), NEW c
    PROVE  /\ S!HandleScan(s, c) \in Seq(Entries)
           /\ Len(S!HandleScan(s, c)) = Len(s)
           /\ DOMAIN S!HandleScan(s, c) = DOMAIN s
           /\ \A i \in DOMAIN s :
                /\ S!HandleScan(s, c)[i].name = s[i].name
                /\ S!HandleScan(s, c)[i].ts = s[i].ts
                /\ s[i].name # c.name => S!HandleScan(s, c)[i] = s[i]
<1> DEFINE stop == IF S!Younger(s, c) = {} THEN Len(s) + 1
                   ELSE CHOOSE i \in S!Younger(s, c) : \A j \in S!Younger(s, c) : i <= j
           f(i) == IF s[i].name = c.name /\ i <= stop
                   THEN [s[i] EXCEPT !.user1 = (i = stop)]
                   ELSE s[i]
<1>1. S!HandleScan(s, c) = [i \in DOMAIN s |-> f(i)]
    BY DEF S!HandleScan
<1>2. ASSUME NEW i \in DOMAIN s
      PROVE  /\ f(i) \in Entries /\ f(i).name = s[i].name /\ f(i).ts = s[i].ts
             /\ s[i].name # c.name => f(i) = s[i]
    <2> DEFINE b == (i = stop)
    <2>1. b \in BOOLEAN /\ s[i] \in Entries
        BY EntriesAt
    <2> HIDE DEF b, stop
    <2>2. /\ [s[i] EXCEPT !.user1 = b] \in Entries
          /\ [s[i] EXCEPT !.user1 = b].name = s[i].name
          /\ [s[i] EXCEPT !.user1 = b].ts = s[i].ts
        BY <2>1 DEF Entries
    <2> QED BY <2>1, <2>2 DEF b
<1> HIDE DEF f
<1>3. S!HandleScan(s, c) \in [1..Len(s) -> Entries]
    BY <1>1, <1>2
<1> QED BY <1>1, <1>2, <1>3

-----------------------------------------------------------------------------
(***************************************************************************)
(* Storing a chunk.                                                        *)
(***************************************************************************)

\* The store x holds the entries of s, but for some flags USER2.
Kept(s, x) == DOMAIN x = DOMAIN s /\ \A i \in DOMAIN s : Alike(x[i], s[i])

\* The store x holds e, at its head, and the entries of s outside R.
Entered(s, R, e, x) ==
    /\ 1 \in DOMAIN x /\ x[1] = e
    /\ \A k \in DOMAIN x \ {1} : \E i \in DOMAIN s \ R : Alike(x[k], s[i])
    /\ \A i \in DOMAIN s \ R : \E k \in DOMAIN x \ {1} : Alike(x[k], s[i])

\* What may make room for e: entries of its name, one without a flag, or any
\* if all of a full store are flagged.
Spares(s, R, e) ==
    \/ \A v \in R : s[v].name = e.name
    \/ \E v \in DOMAIN s : R = {v} /\ ~s[v].user1
    \/ S!Unflagged(s) = {} /\ Len(s) = Cap

\* What the relay does with the entry: refuse it, because it is stored, too old,
\* or everything is flagged, or store it.
LEMMA AddCases ==
    ASSUME NEW s \in Seq(Entries), Len(s) <= Cap, NEW e \in Entries,
           ccnl_content_add2cache(s, e)
    PROVE  /\ contents' \in Seq(Entries)
           /\ Len(contents') <= Cap
           /\ \/ /\ Kept(s, contents')
                 /\ S!IsStored(s, e) \/ S!Younger(s, e) # {} \/ S!Unflagged(s) = {}
              \/ \E R \in SUBSET DOMAIN s :
                    Entered(s, R, e, contents') /\ Spares(s, R, e)
<1>1. Len(s) \in Nat /\ Cap \in Nat \ {0}
    BY ConstantsAssumption
<1>2. CASE S!IsStored(s, e) /\ contents' = s
    BY <1>2 DEF Kept, Alike
<1>3. CASE Len(s) < Cap /\ contents' = Cons(e, s)
    <2> DEFINE x == Cons(e, s)
    <2>1. /\ x \in Seq(Entries) /\ Len(x) = Len(s) + 1 /\ x[1] = e
          /\ \A i \in DOMAIN s : x[i + 1] = s[i]
        BY ConsAt
    <2> HIDE DEF x
    <2>2. /\ \A k \in DOMAIN x \ {1} : k - 1 \in DOMAIN s /\ x[k] = s[k - 1]
          /\ \A i \in DOMAIN s : i + 1 \in DOMAIN x \ {1} /\ x[i + 1] = s[i]
          /\ 1 \in DOMAIN x
        BY <2>1, <1>1
    <2>3. Entered(s, {}, e, x) /\ Spares(s, {}, e)
        BY <2>1, <2>2 DEF Entered, Spares, Alike
    <2>4. contents' = x
        BY <1>3 DEF x
    <2>5. Len(x) <= Cap
        BY <2>1, <1>1, <1>3
    <2> QED BY <2>1, <2>3, <2>4, <2>5
<1>4. ASSUME Len(s) >= Cap, NEW t \in {s, ccnl_helper_reset(s)},
             \/ contents' = t /\ cs_oldest_representative(t, e) = {}
             \/ \E v \in cs_oldest_representative(t, e) : contents' = Cons(e, RemoveAt(t, v))
      PROVE  /\ contents' \in Seq(Entries)
             /\ Len(contents') <= Cap
             /\ \/ Kept(s, contents') /\ (S!Younger(s, e) # {} \/ S!Unflagged(s) = {})
                \/ \E R \in SUBSET DOMAIN s :
                      Entered(s, R, e, contents') /\ Spares(s, R, e)
    <2>1. /\ t \in Seq(Entries) /\ Len(t) = Len(s) /\ DOMAIN t = DOMAIN s
          /\ \A i \in DOMAIN s : Alike(t[i], s[i])
        BY <1>4, ResetKeeps DEF Alike
    <2>2. t # <<>>
        BY <2>1, <1>1, <1>4
    <2>3. S!Younger(t, e) = S!Younger(s, e) /\ S!Unflagged(t) = S!Unflagged(s)
        BY <2>1 DEF S!Younger, S!SameName, S!Unflagged, Alike
    <2>4. CASE contents' = t /\ cs_oldest_representative(t, e) = {}
        <3>1. S!Younger(s, e) # {} \/ S!Unflagged(s) = {}
            BY <2>1, <2>2, <2>3, <2>4, StrategyVictim
        <3> QED BY <3>1, <2>1, <2>4 DEF Kept
    <2>5. ASSUME NEW v \in cs_oldest_representative(t, e), contents' = Cons(e, RemoveAt(t, v))
          PROVE  /\ contents' \in Seq(Entries)
                 /\ Len(contents') <= Cap
                 /\ \E R \in SUBSET DOMAIN s :
                        Entered(s, R, e, contents') /\ Spares(s, R, e)
        <3>1. /\ v \in DOMAIN t
              /\ t[v].name = e.name \/ ~t[v].user1 \/ S!Unflagged(t) = {}
            BY <2>1, <2>2, StrategyVictim
        <3>2. contents' \in Seq(Entries) /\ Replaced(t, v, e, contents')
            BY <3>1, <2>1, <2>5, ReplacedEntries
        <3>3. Entered(s, {v}, e, contents')
            <4>1. ASSUME NEW k \in DOMAIN contents' \ {1}
                  PROVE  \E i \in DOMAIN s \ {v} : Alike(contents'[k], s[i])
                <5>1. PICK i \in DOMAIN t \ {v} : contents'[k] = t[i]
                    BY <3>2 DEF Replaced
                <5> QED BY <5>1, <2>1
            <4>2. ASSUME NEW i \in DOMAIN s \ {v}
                  PROVE  \E k \in DOMAIN contents' \ {1} : Alike(contents'[k], s[i])
                <5>1. PICK k \in DOMAIN contents' \ {1} : contents'[k] = t[i]
                    BY <3>2, <2>1 DEF Replaced
                <5> QED BY <5>1, <2>1
            <4> QED BY <3>2, <4>1, <4>2 DEF Entered, Replaced
        <3>4. Spares(s, {v}, e)
            <4>1. Len(s) = Cap
                BY <1>1, <1>4
            <4> QED BY <3>1, <4>1, <2>1, <2>3 DEF Spares, Alike
        <3>5. v \in DOMAIN s /\ Len(contents') <= Cap
            BY <3>1, <3>2, <2>1 DEF Replaced
        <3> QED BY <3>2, <3>3, <3>4, <3>5
    <2> QED BY <1>4, <2>4, <2>5
<1>5. \/ S!IsStored(s, e) /\ contents' = s
      \/ Len(s) < Cap /\ contents' = Cons(e, s)
      \/ /\ Len(s) >= Cap
         /\ \E t \in {s, ccnl_helper_reset(s)} :
                \/ contents' = t /\ cs_oldest_representative(t, e) = {}
                \/ \E v \in cs_oldest_representative(t, e) :
                        contents' = Cons(e, RemoveAt(t, v))
    BY Zenon DEF ccnl_content_add2cache
<1> QED BY <1>2, <1>3, <1>4, <1>5

\* The number of recent entries is at most the size of the store.
LEMMA CountFits ==
    ASSUME NEW t \in Seq(Entries), Len(t) <= Cap
    PROVE  S!CountUser2(t) \in 0..Cap
<1>1. IsFiniteSet(1..Len(t)) /\ Cardinality(1..Len(t)) = Len(t)
    <2>1. \A m \in Nat : IsFiniteSet(1..m) /\ Cardinality(1..m) = m
        <3> TAKE m \in Nat
        <3>1. 1 \in Int /\ m \in Int
            OBVIOUS
        <3>2. IsFiniteSet(1..m) /\ Cardinality(1..m) = IF 1 > m THEN 0 ELSE m - 1 + 1
            BY <3>1, FS_Interval, Zenon
        <3> QED BY <3>2
    <2> QED BY <2>1
<1>2. {i \in DOMAIN t : t[i].user2} \subseteq 1..Len(t)
    OBVIOUS
<1>3. /\ Cardinality({i \in DOMAIN t : t[i].user2}) <= Len(t)
      /\ IsFiniteSet({i \in DOMAIN t : t[i].user2})
    BY <1>1, <1>2, FS_Subset
<1>4. S!CountUser2(t) = Cardinality({i \in DOMAIN t : t[i].user2})
    BY DEF S!CountUser2, S!Cardinality, Cardinality
<1>5. S!CountUser2(t) \in Nat
    BY <1>3, <1>4, FS_CardinalityType
<1> QED BY <1>3, <1>4, <1>5, ConstantsAssumption

LEMMA AddCounts ==
    ASSUME NEW s \in Seq(Entries), Len(s) <= Cap, NEW e \in Entries,
           flaggedCache \in 0..Cap, firstTimeFull \in BOOLEAN,
           ccnl_content_add2cache(s, e)
    PROVE  firstTimeFull' \in BOOLEAN /\ flaggedCache' \in 0..Cap
<1>1. firstTimeFull' \in BOOLEAN
    BY DEF ccnl_content_add2cache
<1>2. \/ flaggedCache' = flaggedCache
      \/ \E t \in {s, ccnl_helper_reset(s)} : flaggedCache' = S!CountUser2(t)
    BY Zenon DEF ccnl_content_add2cache
<1>3. S!CountUser2(s) \in 0..Cap /\ S!CountUser2(ccnl_helper_reset(s)) \in 0..Cap
    BY CountFits, ResetKeeps
<1> QED BY <1>1, <1>2, <1>3

-----------------------------------------------------------------------------
(***************************************************************************)
(* Types, and the highest ID.                                              *)
(***************************************************************************)

\* The chunk that the relay is asked to store, and the store it is added to.
LEMMA Handled ==
    ASSUME contents \in Seq(Entries), NEW c \in Data, NEW b \in BOOLEAN
    PROVE  /\ [name |-> c.name, ts |-> c.ts, user1 |-> b, user2 |-> TRUE] \in Entries
           /\ \A t \in {S!HandleScan(contents, c), _unflag_cs(contents, Self)} :
                /\ t \in Seq(Entries) /\ Len(t) = Len(contents) /\ DOMAIN t = DOMAIN contents
                /\ \A i \in DOMAIN contents :
                        t[i].name = contents[i].name /\ t[i].ts = contents[i].ts
<1>1. [name |-> c.name, ts |-> c.ts, user1 |-> b, user2 |-> TRUE] \in Entries
    BY DEF Data, Entries
<1> DEFINE Of(t) == /\ t \in Seq(Entries) /\ Len(t) = Len(contents)
                    /\ DOMAIN t = DOMAIN contents
                    /\ \A i \in DOMAIN contents :
                            t[i].name = contents[i].name /\ t[i].ts = contents[i].ts
<1>2. Of(S!HandleScan(contents, c))
    BY ScanKeeps
<1>3. Of(_unflag_cs(contents, Self))
    BY UnflagKeeps
<1>4. \A t \in {S!HandleScan(contents, c), _unflag_cs(contents, Self)} : Of(t)
    <2> HIDE DEF Of
    <2> QED BY <1>2, <1>3
<1> QED BY <1>1, <1>4

\* Whatever the consumer does, it stores c or nothing.
LEMMA ConsumerAdds ==
    ASSUME NEW c \in Data, contents \in Seq(Entries), ccnlriot_consumer(c)
    PROVE  \/ UNCHANGED storeVars
           \/ \E b \in BOOLEAN, t \in {S!HandleScan(contents, c), _unflag_cs(contents, Self)} :
                ccnl_content_add2cache(t,
                    [name |-> c.name, ts |-> c.ts, user1 |-> b, user2 |-> TRUE])
<1>1. CASE _ccnl_helper_handle_content(c)
    <2> DEFINE b == S!Younger(contents, c) = {}
    <2>1. b \in BOOLEAN
        OBVIOUS
    <2>2. ccnl_content_add2cache(S!HandleScan(contents, c),
                [name |-> c.name, ts |-> c.ts, user1 |-> b, user2 |-> TRUE])
        BY <1>1, Zenon DEF _ccnl_helper_handle_content
    <2> HIDE DEF b
    <2> QED BY <2>1, <2>2, Zenon
<1>2. CASE CacheOwn(c)
    BY <1>2, Zenon DEF CacheOwn
<1> QED BY <1>1, <1>2 DEF ccnlriot_consumer

\* The data of a node and what it has seen stay what they are.
LEMMA ConsumerTypes ==
    ASSUME TypeOK, NEW c \in Data, ccnlriot_consumer(c)
    PROVE  /\ contents' \in Seq(Entries) /\ Len(contents') <= Cap
           /\ firstTimeFull' \in BOOLEAN /\ flaggedCache' \in 0..Cap
           /\ highest' \in 0..LongMax
<1>1. contents \in Seq(Entries) /\ Len(contents) <= Cap /\ firstTimeFull \in BOOLEAN
      /\ flaggedCache \in 0..Cap /\ highest \in 0..LongMax
    BY DEF TypeOK
<1>2. ASSUME UNCHANGED storeVars
      PROVE  /\ contents' \in Seq(Entries) /\ Len(contents') <= Cap
             /\ firstTimeFull' \in BOOLEAN /\ flaggedCache' \in 0..Cap
    BY <1>1, <1>2 DEF storeVars
<1>3. ASSUME NEW b \in BOOLEAN,
             NEW t \in {S!HandleScan(contents, c), _unflag_cs(contents, Self)},
             ccnl_content_add2cache(t,
                    [name |-> c.name, ts |-> c.ts, user1 |-> b, user2 |-> TRUE])
      PROVE  /\ contents' \in Seq(Entries) /\ Len(contents') <= Cap
             /\ firstTimeFull' \in BOOLEAN /\ flaggedCache' \in 0..Cap
    <2> DEFINE e == [name |-> c.name, ts |-> c.ts, user1 |-> b, user2 |-> TRUE]
    <2>1. e \in Entries /\ t \in Seq(Entries) /\ Len(t) <= Cap
        BY <1>1, <1>3, Handled
    <2>2. ccnl_content_add2cache(t, e)
        BY <1>3
    <2> HIDE DEF e
    <2>3. contents' \in Seq(Entries) /\ Len(contents') <= Cap
        BY <2>1, <2>2, AddCases
    <2> QED BY <2>1, <2>2, <2>3, <1>1, AddCounts
<1>4. highest' \in 0..LongMax
    <2>1. c.name.src \in Nat
        <3>1. c.name.src \in AllIds
            BY DEF Data, S!Names
        <3> QED BY <3>1, IdsAreNumbers
    <2>2. highest' = highest \/ highest' = S!strtol(c.name.src)
        BY DEF ccnlriot_consumer, CountId
    <2> QED BY <1>1, <2>1, <2>2, StrtolOrder
<1> QED BY <1>1, <1>2, <1>3, <1>4, ConsumerAdds

\* Every entry of the store was there before, or is c.
LEMMA ConsumerNames ==
    ASSUME TypeOK, NEW c \in Data, ccnlriot_consumer(c)
    PROVE  \A k \in DOMAIN contents' :
                \/ \E i \in DOMAIN contents : /\ contents'[k].name = contents[i].name
                                               /\ contents'[k].ts = contents[i].ts
                \/ /\ ~UNCHANGED storeVars
                   /\ contents'[k].name = c.name /\ contents'[k].ts = c.ts
<1>1. contents \in Seq(Entries) /\ Len(contents) <= Cap
    BY DEF TypeOK
<1>2. CASE UNCHANGED storeVars
    BY <1>2 DEF storeVars
<1>3. ASSUME ~UNCHANGED storeVars, NEW b \in BOOLEAN,
             NEW t \in {S!HandleScan(contents, c), _unflag_cs(contents, Self)},
             ccnl_content_add2cache(t,
                    [name |-> c.name, ts |-> c.ts, user1 |-> b, user2 |-> TRUE]),
             NEW k \in DOMAIN contents'
      PROVE  \/ \E i \in DOMAIN contents : /\ contents'[k].name = contents[i].name
                                            /\ contents'[k].ts = contents[i].ts
             \/ contents'[k].name = c.name /\ contents'[k].ts = c.ts
    <2> DEFINE e == [name |-> c.name, ts |-> c.ts, user1 |-> b, user2 |-> TRUE]
    <2>1. /\ e \in Entries /\ t \in Seq(Entries) /\ Len(t) <= Cap /\ DOMAIN t = DOMAIN contents
          /\ \A i \in DOMAIN contents : t[i].name = contents[i].name /\ t[i].ts = contents[i].ts
        BY <1>1, <1>3, Handled
    <2>2. ccnl_content_add2cache(t, e) /\ e.name = c.name /\ e.ts = c.ts
        BY <1>3
    <2> HIDE DEF e
    <2>3. Kept(t, contents') \/ \E R \in SUBSET DOMAIN t : Entered(t, R, e, contents')
        BY <2>1, <2>2, AddCases
    <2>4. CASE Kept(t, contents')
        BY <2>1, <2>4 DEF Kept, Alike
    <2>5. ASSUME NEW R \in SUBSET DOMAIN t, Entered(t, R, e, contents')
          PROVE  \/ \E i \in DOMAIN contents : /\ contents'[k].name = contents[i].name
                                                /\ contents'[k].ts = contents[i].ts
                 \/ contents'[k].name = c.name /\ contents'[k].ts = c.ts
        <3>1. CASE k = 1
            BY <3>1, <2>2, <2>5 DEF Entered
        <3>2. CASE k # 1
            <4>1. PICK i \in DOMAIN t : Alike(contents'[k], t[i])
                BY <3>2, <2>5 DEF Entered
            <4> QED BY <4>1, <2>1 DEF Alike
        <3> QED BY <3>1, <3>2
    <2> QED BY <2>3, <2>4, <2>5
<1> QED BY <1>1, <1>2, <1>3, ConsumerAdds

\* dow_highest_id stays an upper bound of the IDs in the store.
LEMMA ConsumerSees ==
    ASSUME TypeOK, HighestIsSeen, NEW c \in Data, ccnlriot_consumer(c)
    PROVE  HighestIsSeen'
<1>1. /\ highest \in Nat /\ c.name.src \in Nat
      /\ \A i \in DOMAIN contents : contents[i].name.src \in Nat
    <2>1. c.name.src \in AllIds
        BY DEF Data, S!Names
    <2>2. ASSUME NEW i \in DOMAIN contents
          PROVE  contents[i].name.src \in AllIds
        <3>1. contents[i] \in Entries
            BY DEF TypeOK
        <3> QED BY <3>1 DEF Entries, S!Names
    <2>3. highest \in Nat
        BY DEF TypeOK
    <2> QED BY <2>1, <2>2, <2>3, IdsAreNumbers
<1>2. S!strtol(c.name.src) \in Nat
      /\ \A i \in DOMAIN contents : S!strtol(contents[i].name.src) \in Nat
    <2>1. \A n \in 0..LongMax : n \in Nat
        OBVIOUS
    <2> QED BY <2>1, <1>1, StrtolOrder
<1>3. highest' \in Nat /\ highest' >= highest
      /\ (~UNCHANGED storeVars => highest' >= S!strtol(c.name.src))
    BY <1>1, <1>2 DEF ccnlriot_consumer, CountId
<1> SUFFICES ASSUME NEW k \in DOMAIN contents'
             PROVE  S!strtol(contents'[k].name.src) <= highest'
    BY DEF HighestIsSeen, S!strtol
<1>4. CASE \E i \in DOMAIN contents : contents'[k].name = contents[i].name
    <2>1. PICK i \in DOMAIN contents : contents'[k].name = contents[i].name
        BY <1>4
    <2>2. S!strtol(contents[i].name.src) <= highest
        BY DEF HighestIsSeen
    <2> QED BY <2>1, <2>2, <1>1, <1>2, <1>3
<1>5. CASE ~UNCHANGED storeVars /\ contents'[k].name = c.name
    BY <1>2, <1>3, <1>5
<1> QED BY <1>4, <1>5, ConsumerNames

LEMMA InitTypes == Init => TypeOK /\ HighestIsSeen
<1> SUFFICES ASSUME Init PROVE TypeOK /\ HighestIsSeen
    OBVIOUS
<1>1. contents \in Seq(Entries) /\ sensors \in Seq(PfxChars) /\ loopback \in Seq(Chunks)
    BY DEF Init
<1>2. Len(contents) <= Cap /\ flaggedCache \in 0..Cap /\ clock \in 1..MaxTs
      /\ highest \in 0..LongMax /\ heard \in [Peers -> 0..MaxTs]
    BY ConstantsAssumption DEF Init
<1>3. HighestIsSeen
    BY DEF Init, HighestIsSeen
<1> QED BY <1>1, <1>2, <1>3 DEF Init, TypeOK

\* What a node receives from others is a datum of another node.
LEMMA OthersSend ==
    /\ \A i \in Peers, t \in 1..MaxTs :
            [name |-> [pfx |-> PfxOf[i], src |-> i], ts |-> t] \in Data
    /\ \A i \in Peers :
            [name |-> [pfx |-> Beacon, src |-> CpuId[i]], ts |-> CpuId[i]] \in Data
    /\ \A i \in Peers : i # Self /\ CpuId[i] # Self
    /\ Chunks \subseteq Data
<1>1. \A i \in Peers : /\ i \in Ids /\ CpuId[i] \in Nat /\ i # Self /\ CpuId[i] # Self
                       /\ PfxOf[i] \in PfxChars \cup {Site}
    BY ConstantsAssumption
<1>2. \A i \in Peers : i \in AllIds /\ CpuId[i] \in AllIds
    BY <1>1 DEF AllIds
<1>3. \A i \in Peers : /\ [pfx |-> PfxOf[i], src |-> i] \in S!Names
                       /\ [pfx |-> Beacon, src |-> CpuId[i]] \in S!Names
    BY <1>1, <1>2 DEF S!Names
<1>4. \A t \in 1..MaxTs : t \in Nat
    BY ConstantsAssumption
<1> QED BY <1>1, <1>3, <1>4 DEF Data, Chunks

\* What the user enters is a chunk of another node.
LEMMA UserEnters == \A c \in DebugChunks : c \in Chunks /\ c.name.src # Self
<1> SUFFICES ASSUME NEW c \in DebugChunks PROVE c \in Chunks /\ c.name.src # Self
    OBVIOUS
<1>1. PICK q \in PfxChars \cup {Site}, i \in Ids \ {Self}, t \in 1..MaxTs :
        c = [name |-> [pfx |-> q, src |-> i], ts |-> t]
    BY ConstantsAssumption
<1>2. [pfx |-> q, src |-> i] \in S!Names
    BY DEF S!Names, AllIds
<1> QED BY <1>1, <1>2 DEF Chunks

\* When the half second is over there is a datum to publish.
Dated == pc = "publish" => datum \in Chunks

\* The actions that leave the store and the highest ID alone, but for the reset.
LEMMA OtherTypes ==
    ASSUME TypeOK, Dated,
           \/ Second \/ Beaconed \/ dow_new_data \/ Publish \/ Settled \/ BackToSleep
           \/ EndLoop \/ _start_dow \/ _stop_dow \/ _sub_prefix \/ _add_sensor
           \/ _debug_cache_date \/ Tick \/ UNCHANGED vars
    PROVE  TypeOK'
<1> USE DEF storeVars, shellVars, loopVars, managerLeaves, Receive, Continue, _radio_sleep
<1>1. CASE Second \/ Settled \/ BackToSleep \/ EndLoop \/ _stop_dow
    BY <1>1 DEF Second, Settled, BackToSleep, EndLoop, _stop_dow, TypeOK
<1>2. CASE Beaconed
    <2>1. ccnl_helper_reset(contents) \in Seq(Entries)
          /\ Len(ccnl_helper_reset(contents)) = Len(contents)
        BY ResetKeeps DEF TypeOK
    <2> QED BY <1>2, <2>1 DEF Beaconed, TypeOK
<1>3. CASE dow_new_data
    <2>1. PICK q \in S!DataPrefixes :
            datum' = [name |-> [pfx |-> q, src |-> Self], ts |-> clock]
        BY <1>3 DEF dow_new_data
    <2>2. q \in PfxChars \cup {Beacon, Site}
        <3>1. sensors \in Seq(PfxChars) /\ registered \in PfxChars \cup {None}
            BY DEF TypeOK
        <3> QED BY <3>1 DEF S!DataPrefixes, S!ToSet
    <2>3. [pfx |-> q, src |-> Self] \in S!Names
        BY <2>2, ConstantsAssumption DEF S!Names, AllIds
    <2>4. datum' \in Chunks
        BY <2>1, <2>3 DEF Chunks, TypeOK
    <2> QED BY <1>3, <2>4 DEF dow_new_data, TypeOK
<1>4. CASE Publish
    <2>1. loopback' \in Seq(Chunks)
        <3>1. datum \in Chunks
            BY <1>4 DEF Publish, Dated
        <3> QED BY <3>1, <1>4 DEF Publish, TypeOK
    <2> QED BY <1>4, <2>1 DEF Publish, TypeOK
<1>5. CASE _start_dow
    BY <1>5 DEF _start_dow, StartLoop, TypeOK
<1>6. CASE _sub_prefix
    BY <1>6 DEF _sub_prefix, TypeOK
<1>7. CASE _add_sensor
    <2>1. PICK q \in PfxChars :
            /\ sensors' = Append(sensors, q)
            /\ registered' = IF registered = None THEN q ELSE registered
        BY <1>7 DEF _add_sensor
    <2>2. Append(sensors, q) \in Seq(PfxChars)
        BY DEF TypeOK
    <2> QED BY <1>7, <2>1, <2>2 DEF _add_sensor, TypeOK
<1>8. CASE _debug_cache_date
    <2>1. PICK c \in Chunks : loopback' = <<c>>
        BY <1>8, UserEnters DEF _debug_cache_date
    <2> QED BY <1>8, <2>1 DEF _debug_cache_date, TypeOK
<1>9. CASE Tick
    <2>1. clock' \in 1..MaxTs
        BY <1>9, ConstantsAssumption DEF Tick, TypeOK
    <2> QED BY <1>9, <2>1 DEF Tick, TypeOK
<1>10. CASE UNCHANGED vars
    BY <1>10 DEF vars, TypeOK
<1> QED BY <1>1, <1>2, <1>3, <1>4, <1>5, <1>6, <1>7, <1>8, <1>9, <1>10

LEMMA StepDated == TypeOK /\ Dated /\ [Next]_vars => Dated'
<1> SUFFICES ASSUME TypeOK, Dated, [Next]_vars PROVE Dated'
    OBVIOUS
<1> USE DEF Dated, storeVars, shellVars, loopVars, managerLeaves, Receive, Continue
<1>1. CASE dow_new_data
    <2>1. PICK q \in S!DataPrefixes :
            datum' = [name |-> [pfx |-> q, src |-> Self], ts |-> clock]
        BY <1>1 DEF dow_new_data
    <2>2. q \in PfxChars \cup {Beacon, Site}
        <3>1. sensors \in Seq(PfxChars) /\ registered \in PfxChars \cup {None}
            BY DEF TypeOK
        <3> QED BY <3>1 DEF S!DataPrefixes, S!ToSet
    <2>3. [pfx |-> q, src |-> Self] \in S!Names
        BY <2>2, ConstantsAssumption DEF S!Names, AllIds
    <2> QED BY <2>1, <2>3 DEF Chunks, TypeOK
<1>2. CASE UNCHANGED <<pc, datum>>
    BY <1>2
<1>3. CASE pc' # "publish"
    BY <1>3
<1>4. CASE Second
    BY <1>2, <1>3, <1>4 DEF Second
<1>5. CASE Publish
    BY <1>3, <1>5 DEF Publish
<1>6. CASE Beaconed \/ Settled \/ EndLoop \/ _start_dow
    BY <1>3, <1>6 DEF Beaconed, Settled, EndLoop, _start_dow, StartLoop
<1>7. CASE \/ ReceiveOwn \/ ReceiveBroadcast \/ ReceiveBeacon \/ BackToSleep \/ _stop_dow
           \/ _sub_prefix \/ _add_sensor \/ _debug_cache_date \/ Tick \/ UNCHANGED vars
    BY <1>2, <1>7 DEF ReceiveOwn, ReceiveBroadcast, ReceiveBeacon, BackToSleep, _stop_dow,
        _sub_prefix, _add_sensor, _debug_cache_date, Tick, vars
<1> QED BY <1>1, <1>4, <1>5, <1>6, <1>7 DEF Next

\* What CCN-lite's thread receives, a datum of another node unless it is own.
LEMMA Receptions ==
    ASSUME TypeOK, ReceiveOwn \/ ReceiveBroadcast \/ ReceiveBeacon
    PROVE  \E c \in Data :
                /\ ccnlriot_consumer(c)
                /\ \/ loopback # <<>> /\ c = Head(loopback) /\ loopback' = Tail(loopback)
                   \/ c.name.src # Self /\ UNCHANGED loopback
<1>1. CASE ReceiveOwn
    <2>1. Head(loopback) \in Chunks
        BY <1>1 DEF ReceiveOwn, TypeOK
    <2> QED BY <1>1, <2>1, OthersSend DEF ReceiveOwn
<1>2. CASE ReceiveBroadcast
    <2>1. PICK i \in Peers : \E t \in heard[i] + 1 .. MaxTs :
            ccnlriot_consumer([name |-> [pfx |-> PfxOf[i], src |-> i], ts |-> t])
        BY <1>2 DEF ReceiveBroadcast
    <2> PICK t \in heard[i] + 1 .. MaxTs :
            ccnlriot_consumer([name |-> [pfx |-> PfxOf[i], src |-> i], ts |-> t])
        BY <2>1
    <2>2. t \in 1..MaxTs
        <3>1. heard[i] \in 0..MaxTs
            BY DEF TypeOK
        <3> QED BY <3>1, ConstantsAssumption
    <2> QED BY <1>2, <2>1, <2>2, OthersSend DEF ReceiveBroadcast
<1>3. CASE ReceiveBeacon
    BY <1>3, OthersSend DEF ReceiveBeacon
<1> QED BY <1>1, <1>2, <1>3

LEMMA StepTypes ==
    TypeOK /\ HighestIsSeen /\ Dated /\ [Next]_vars => TypeOK' /\ HighestIsSeen'
<1> SUFFICES ASSUME TypeOK, HighestIsSeen, Dated, [Next]_vars
             PROVE  TypeOK' /\ HighestIsSeen'
    OBVIOUS
<1>1. CASE ReceiveOwn \/ ReceiveBroadcast \/ ReceiveBeacon
    <2>1. PICK c \in Data :
            /\ ccnlriot_consumer(c)
            /\ \/ loopback # <<>> /\ c = Head(loopback) /\ loopback' = Tail(loopback)
               \/ c.name.src # Self /\ UNCHANGED loopback
        BY <1>1, Receptions
    <2>2. HighestIsSeen'
        BY <2>1, ConsumerSees
    <2>3. loopback' \in Seq(Chunks)
        <3>1. loopback \in Seq(Chunks)
            BY DEF TypeOK
        <3>2. loopback # <<>> => Tail(loopback) \in Seq(Chunks)
            BY <3>1
        <3> QED BY <2>1, <3>1, <3>2
    <2>4. heard' \in [Peers -> 0..MaxTs]
        <3>1. heard \in [Peers -> 0..MaxTs]
            BY DEF TypeOK
        <3>2. ASSUME NEW i \in Peers, NEW t \in heard[i] + 1 .. MaxTs
              PROVE  [heard EXCEPT ![i] = t] \in [Peers -> 0..MaxTs]
            <4>1. heard[i] \in 0..MaxTs
                BY <3>1
            <4>2. t \in 0..MaxTs
                BY <4>1, ConstantsAssumption
            <4> QED BY <3>1, <4>2
        <3>3. CASE heard' = heard
            BY <3>1, <3>3
        <3>4. CASE \E i \in Peers : \E t \in heard[i] + 1 .. MaxTs :
                    heard' = [heard EXCEPT ![i] = t]
            <4>1. PICK i \in Peers : \E t \in heard[i] + 1 .. MaxTs :
                    heard' = [heard EXCEPT ![i] = t]
                BY <3>4
            <4>2. PICK t \in heard[i] + 1 .. MaxTs : heard' = [heard EXCEPT ![i] = t]
                BY <4>1
            <4> QED BY <3>2, <4>2, Zenon
        <3> QED BY <1>1, <3>3, <3>4, Zenon DEF ReceiveOwn, ReceiveBroadcast, ReceiveBeacon
    <2>5. UNCHANGED <<shellVars, clock, loopVars, manual, datum>>
        BY <1>1 DEF ReceiveOwn, ReceiveBroadcast, ReceiveBeacon
    <2>6. /\ contents' \in Seq(Entries) /\ Len(contents') <= Cap
          /\ firstTimeFull' \in BOOLEAN /\ flaggedCache' \in 0..Cap
          /\ highest' \in 0..LongMax
        BY <2>1, ConsumerTypes
    <2> QED BY <2>2, <2>3, <2>4, <2>5, <2>6 DEF TypeOK, shellVars, loopVars
<1>2. CASE Beaconed
    <2>1. HighestIsSeen'
        BY <1>2, ResetKeeps
            DEF Beaconed, HighestIsSeen, TypeOK, Alike, managerLeaves, S!strtol
    <2> QED BY <1>2, <2>1, OtherTypes
<1>3. CASE \/ Second \/ dow_new_data \/ Publish \/ Settled \/ BackToSleep \/ EndLoop
           \/ _start_dow \/ _stop_dow \/ _sub_prefix \/ _add_sensor \/ _debug_cache_date
           \/ Tick \/ UNCHANGED vars
    <2>1. UNCHANGED <<contents, highest>>
        BY <1>3 DEF Second, dow_new_data, Publish, Settled, BackToSleep, EndLoop, _start_dow,
            _stop_dow, _sub_prefix, _add_sensor, _debug_cache_date, Tick, vars, storeVars,
            managerLeaves
    <2>2. HighestIsSeen'
        BY <2>1 DEF HighestIsSeen, S!strtol
    <2> QED BY <1>3, <2>2, OtherTypes
<1> QED BY <1>1, <1>2, <1>3 DEF Next

LEMMA AlwaysTyped == Spec => [](TypeOK /\ HighestIsSeen /\ Dated)
<1>1. Init => TypeOK /\ HighestIsSeen /\ Dated
    BY InitTypes DEF Init, Dated
<1> QED BY <1>1, StepTypes, StepDated, PTL DEF Spec

\* Type correctness, with the capacity of the store, the count of recent entries
\* that the shell prints, and an ID that strtol() can return.
THEOREM TypeCorrect == Spec => []TypeOK
BY AlwaysTyped, PTL

\* dow_highest_id bounds the IDs of everything stored: own data, which come over
\* the loopback interface, and beacons, with CPU IDs, included.
THEOREM NoHigherId == Spec => []HighestIsSeen
BY AlwaysTyped, PTL

-----------------------------------------------------------------------------
(***************************************************************************)
(* Own data.                                                               *)
(***************************************************************************)

Own(x) == x.name.src = Self

\* The newest own entries of a store are flagged.
Shields(s) ==
    \A i \in DOMAIN s :
        /\ Own(s[i])
        /\ \A j \in DOMAIN s : Own(s[j]) => s[j].ts <= s[i].ts
        => s[i].user1

\* No own entry is taken to be younger than the own chunk that arrives.
LEMMA NoneYounger ==
    ASSUME NEW s \in Seq(Entries), NEW c, Own(c), c.ts \in Nat,
           \A i \in DOMAIN s : Own(s[i]) => s[i].ts < c.ts
    PROVE  S!Younger(s, c) = {}
<1> SUFFICES ASSUME NEW i \in S!Younger(s, c) PROVE FALSE
    OBVIOUS
<1>1. i \in DOMAIN s /\ s[i].name = c.name /\ S!strtol(s[i].ts) > S!strtol(c.ts)
    BY DEF S!Younger, S!SameName
<1>2. s[i].ts <= c.ts /\ s[i].ts \in Nat
    BY <1>1, EntriesAt DEF Own
<1>3. /\ S!strtol(s[i].ts) <= S!strtol(c.ts)
      /\ S!strtol(s[i].ts) \in Int /\ S!strtol(c.ts) \in Int
    BY <1>1, <1>2, ConstantsAssumption DEF S!strtol
<1> QED BY <1>1, <1>3

\* An own chunk, newer than the own entries and flagged, is the newest then,
\* unless nothing makes room for it because everything is flagged.
LEMMA OwnAdded ==
    ASSUME NEW s \in Seq(Entries), Len(s) <= Cap, NEW e \in Entries, Own(e), e.user1,
           \A i \in DOMAIN s : Own(s[i]) => s[i].ts < e.ts,
           ccnl_content_add2cache(s, e)
    PROVE  Shields(contents')
<1>1. e.ts \in Nat /\ \A i \in DOMAIN s : s[i].ts \in Nat
    BY EntriesAt DEF Entries
<1>2. ~S!IsStored(s, e)
    BY <1>1 DEF S!IsStored, Own
<1>3. S!Younger(s, e) = {}
    BY <1>1, NoneYounger
<1>4. CASE Kept(s, contents') /\ S!Unflagged(s) = {}
    BY <1>4 DEF Kept, Alike, Shields, S!Unflagged
<1>5. ASSUME NEW R \in SUBSET DOMAIN s, Entered(s, R, e, contents')
      PROVE  Shields(contents')
    <2> SUFFICES ASSUME NEW k \in DOMAIN contents', Own(contents'[k]),
                        \A l \in DOMAIN contents' :
                            Own(contents'[l]) => contents'[l].ts <= contents'[k].ts
                 PROVE  contents'[k].user1
        BY DEF Shields
    <2>1. CASE k = 1
        BY <2>1, <1>5 DEF Entered
    <2>2. CASE k # 1
        <3>1. PICK i \in DOMAIN s : Alike(contents'[k], s[i])
            BY <2>2, <1>5 DEF Entered
        <3>2. contents'[k].ts < e.ts /\ contents'[k].ts \in Nat
            BY <3>1, <1>1 DEF Alike, Own
        <3>3. e.ts <= contents'[k].ts
            BY <1>5 DEF Entered
        <3> QED BY <3>2, <3>3, <1>1
    <2> QED BY <2>1, <2>2
<1> QED BY <1>2, <1>3, <1>4, <1>5, AddCases

\* A chunk of another node leaves the newest own entry, or nothing unflagged.
LEMMA ForeignAdded ==
    ASSUME NEW s \in Seq(Entries), Len(s) <= Cap, NEW e \in Entries, ~Own(e),
           Shields(s), ccnl_content_add2cache(s, e)
    PROVE  Shields(contents')
<1>1. \A i \in DOMAIN s : s[i].ts \in Nat
    BY EntriesAt
<1>2. CASE Kept(s, contents')
    BY <1>2 DEF Kept, Alike, Shields, Own
<1>3. ASSUME NEW R \in SUBSET DOMAIN s, Entered(s, R, e, contents'), Spares(s, R, e)
      PROVE  Shields(contents')
    <2> SUFFICES ASSUME NEW k \in DOMAIN contents', Own(contents'[k]),
                        \A l \in DOMAIN contents' :
                            Own(contents'[l]) => contents'[l].ts <= contents'[k].ts
                 PROVE  contents'[k].user1
        BY DEF Shields
    <2>1. k # 1
        BY <1>3 DEF Entered
    <2>2. PICK i \in DOMAIN s \ R : Alike(contents'[k], s[i])
        BY <2>1, <1>3 DEF Entered
    <2>3. \A j \in DOMAIN s \ R : Own(s[j]) => s[j].ts <= s[i].ts
        <3> TAKE j \in DOMAIN s \ R
        <3>1. PICK l \in DOMAIN contents' : Alike(contents'[l], s[j])
            BY <1>3 DEF Entered
        <3> QED BY <2>2, <3>1 DEF Alike, Own
    <2> SUFFICES ASSUME ~s[i].user1 PROVE FALSE
        BY <2>2 DEF Alike
    <2>4. PICK j \in DOMAIN s : Own(s[j]) /\ s[j].ts > s[i].ts
        BY <2>2, <1>1 DEF Shields, Alike, Own
    <2>5. j \in R
        BY <2>3, <2>4, <2>2, <1>1
    <2>6. S!Unflagged(s) # {}
        BY <2>2 DEF S!Unflagged
    <2>7. s[j].name # e.name
        BY <2>4 DEF Own
    <2>8. R = {j} /\ ~s[j].user1
        BY <1>3, <2>5, <2>6, <2>7 DEF Spares
    <2>9. PICK l \in DOMAIN s : Own(s[l]) /\ s[l].ts > s[j].ts
        BY <2>4, <2>8, <1>1 DEF Shields
    <2>10. l \notin R
        BY <2>8, <2>9, <1>1
    <2> QED BY <2>3, <2>4, <2>9, <2>10, <2>2, <1>1
<1> QED BY <1>2, <1>3, AddCases

\* The newest own entry stays flagged, or an own chunk that is newer takes over.
LEMMA ConsumerShields ==
    ASSUME TypeOK, Shields(contents), NEW c \in Data, ccnlriot_consumer(c),
           \A i \in DOMAIN contents : Own(c) /\ Own(contents[i]) => contents[i].ts < c.ts
    PROVE  Shields(contents')
<1>1. contents \in Seq(Entries) /\ Len(contents) <= Cap /\ c.ts \in Nat
    BY DEF TypeOK, Data
<1>2. CASE UNCHANGED storeVars
    BY <1>2 DEF storeVars
<1>3. ASSUME NEW b \in BOOLEAN,
             NEW t \in {S!HandleScan(contents, c), _unflag_cs(contents, Self)},
             ccnl_content_add2cache(t,
                    [name |-> c.name, ts |-> c.ts, user1 |-> b, user2 |-> TRUE]),
             \/ Own(c) /\ b
             \/ ~Own(c) /\ Shields(t)
      PROVE  Shields(contents')
    <2> DEFINE e == [name |-> c.name, ts |-> c.ts, user1 |-> b, user2 |-> TRUE]
    <2>1. /\ e \in Entries /\ t \in Seq(Entries) /\ Len(t) <= Cap /\ DOMAIN t = DOMAIN contents
          /\ \A i \in DOMAIN contents : t[i].name = contents[i].name /\ t[i].ts = contents[i].ts
        BY <1>1, <1>3, Handled
    <2>2. ccnl_content_add2cache(t, e) /\ e.ts = c.ts /\ (Own(e) <=> Own(c)) /\ (e.user1 <=> b)
        BY <1>3 DEF Own
    <2> HIDE DEF e
    <2>3. \A i \in DOMAIN t : Own(c) /\ Own(t[i]) => t[i].ts < e.ts
        BY <2>1, <2>2 DEF Own
    <2>4. CASE Own(c) /\ b
        BY <2>1, <2>2, <2>3, <2>4, OwnAdded
    <2>5. CASE ~Own(c) /\ Shields(t)
        BY <2>1, <2>2, <2>5, ForeignAdded
    <2> QED BY <1>3, <2>4, <2>5
<1>4. CASE _ccnl_helper_handle_content(c)
    <2> DEFINE b == S!Younger(contents, c) = {}
               t == S!HandleScan(contents, c)
    <2>1. b \in BOOLEAN /\ (Own(c) => b)
        BY <1>1, NoneYounger
    <2>2. ccnl_content_add2cache(t,
                [name |-> c.name, ts |-> c.ts, user1 |-> b, user2 |-> TRUE])
        BY <1>4, Zenon DEF _ccnl_helper_handle_content
    <2>3. ~Own(c) => Shields(t)
        <3>1. /\ DOMAIN t = DOMAIN contents
              /\ \A i \in DOMAIN contents : /\ t[i].name = contents[i].name
                                            /\ t[i].ts = contents[i].ts
                                            /\ contents[i].name # c.name => t[i] = contents[i]
            BY <1>1, ScanKeeps
        <3> HIDE DEF t
        <3> QED BY <3>1 DEF Shields, Own
    <2> HIDE DEF b
    <2>4. (Own(c) /\ b) \/ (~Own(c) /\ Shields(t))
        BY <2>1, <2>3
    <2> QED BY <2>1, <2>2, <2>4, <1>3
<1>5. CASE CacheOwn(c) /\ Own(c)
    <2>1. ccnl_content_add2cache(_unflag_cs(contents, Self),
            [name |-> c.name, ts |-> c.ts, user1 |-> TRUE, user2 |-> TRUE])
        BY <1>5, Zenon DEF CacheOwn
    <2> QED BY <2>1, <1>3, <1>5
<1> QED BY <1>2, <1>4, <1>5 DEF ccnlriot_consumer, Own

\* Own data are stored in the order of their time stamps: on the loopback
\* interface each is newer than what is before it and than what is stored, and
\* none is newer than the last datum, which is not among them before it leaves.
Past(x) == x.ts <= datum.ts /\ (pc = "publish" => x.ts # datum.ts)

OwnInOrder ==
    /\ \A i \in DOMAIN contents : Own(contents[i]) => Past(contents[i])
    /\ \A k \in DOMAIN loopback : Own(loopback[k]) => Past(loopback[k])
    /\ \A i \in DOMAIN contents, k \in DOMAIN loopback :
            Own(contents[i]) /\ Own(loopback[k]) => contents[i].ts < loopback[k].ts
    /\ \A k, l \in DOMAIN loopback :
            k < l /\ Own(loopback[k]) /\ Own(loopback[l]) => loopback[k].ts < loopback[l].ts

\* The inductive invariant behind OwnNewestIsFlagged.
IInv == TypeOK /\ Dated /\ OwnInOrder /\ Shields(contents)

\* What CCN-lite's thread receives keeps the order.
LEMMA ReceptionOrders ==
    ASSUME IInv, ReceiveOwn \/ ReceiveBroadcast \/ ReceiveBeacon
    PROVE  OwnInOrder' /\ Shields(contents)'
<1>1. TypeOK /\ OwnInOrder /\ Shields(contents)
    BY DEF IInv
<1>2. PICK c \in Data :
            /\ ccnlriot_consumer(c)
            /\ \/ loopback # <<>> /\ c = Head(loopback) /\ loopback' = Tail(loopback)
               \/ c.name.src # Self /\ UNCHANGED loopback
    BY <1>1, Receptions
<1>3. UNCHANGED <<datum, pc>>
    BY DEF ReceiveOwn, ReceiveBroadcast, ReceiveBeacon, loopVars
<1>4. loopback # <<>> =>
        /\ 1 \in DOMAIN loopback /\ Head(loopback) = loopback[1]
        /\ \A k \in DOMAIN Tail(loopback) :
                /\ k + 1 \in DOMAIN loopback /\ 1 < k + 1
                /\ Tail(loopback)[k] = loopback[k + 1]
        /\ \A k, l \in DOMAIN Tail(loopback) : k < l => k + 1 < l + 1
    <2>1. loopback \in Seq(Chunks)
        BY <1>1 DEF TypeOK
    <2> QED BY <2>1
<1>5. /\ \A i \in DOMAIN contents : Own(c) /\ Own(contents[i]) => contents[i].ts < c.ts
      /\ Own(c) => Past(c)
      /\ \A k \in DOMAIN loopback' : Own(c) /\ Own(loopback'[k]) => c.ts < loopback'[k].ts
      /\ \A k \in DOMAIN loopback' : \E l \in DOMAIN loopback : loopback'[k] = loopback[l]
      /\ \A k, l \in DOMAIN loopback' : k < l =>
            \E m, n \in DOMAIN loopback :
                m < n /\ loopback'[k] = loopback[m] /\ loopback'[l] = loopback[n]
    <2>1. CASE loopback # <<>> /\ c = Head(loopback) /\ loopback' = Tail(loopback)
        BY <2>1, <1>1, <1>4 DEF OwnInOrder
    <2>2. CASE c.name.src # Self /\ UNCHANGED loopback
        BY <2>2 DEF Own
    <2> QED BY <1>2, <2>1, <2>2
<1>6. Shields(contents')
    BY <1>1, <1>2, <1>5, ConsumerShields
<1>7. \A k \in DOMAIN contents' :
        \/ \E i \in DOMAIN contents : /\ contents'[k].name = contents[i].name
                                       /\ contents'[k].ts = contents[i].ts
        \/ contents'[k].name = c.name /\ contents'[k].ts = c.ts
    BY <1>1, <1>2, ConsumerNames
<1>8. OwnInOrder'
    <2>1. ASSUME NEW i \in DOMAIN contents', Own(contents'[i])
          PROVE  /\ Past(contents'[i])
                 /\ \A k \in DOMAIN loopback' :
                        Own(loopback'[k]) => contents'[i].ts < loopback'[k].ts
        BY <2>1, <1>1, <1>3, <1>5, <1>7 DEF OwnInOrder, Own, Past
    <2>2. ASSUME NEW k \in DOMAIN loopback', Own(loopback'[k])
          PROVE  Past(loopback'[k])
        BY <2>2, <1>1, <1>3, <1>5 DEF OwnInOrder, Own, Past
    <2>3. ASSUME NEW k \in DOMAIN loopback', NEW l \in DOMAIN loopback',
                 k < l, Own(loopback'[k]), Own(loopback'[l])
          PROVE  loopback'[k].ts < loopback'[l].ts
        BY <2>3, <1>1, <1>5 DEF OwnInOrder
    <2> QED BY <2>1, <2>2, <2>3, <1>3 DEF OwnInOrder, Own, Past
<1> QED BY <1>6, <1>8 DEF Shields, Own

\* The manager names a datum of this instant, later than the one before, and it
\* leaves before the next is named; a wake-up resets another flag.
LEMMA OtherOrders ==
    ASSUME IInv,
           \/ Second \/ Beaconed \/ dow_new_data \/ Publish \/ Settled \/ BackToSleep
           \/ EndLoop \/ _start_dow \/ _stop_dow \/ _sub_prefix \/ _add_sensor
           \/ _debug_cache_date \/ Tick \/ UNCHANGED vars
    PROVE  OwnInOrder' /\ Shields(contents)'
<1> USE DEF storeVars, shellVars, loopVars, managerLeaves, Receive, Continue
<1>1. /\ TypeOK /\ Dated /\ OwnInOrder /\ Shields(contents)
      /\ contents \in Seq(Entries) /\ loopback \in Seq(Chunks)
    BY DEF IInv, TypeOK
<1>2. /\ datum.ts \in Nat /\ clock \in Nat
      /\ \A i \in DOMAIN contents : contents[i].ts \in Nat
      /\ \A k \in DOMAIN loopback : loopback[k].ts \in Nat
    <2>1. datum.ts \in Nat /\ clock \in Nat
        BY <1>1 DEF TypeOK, Chunks, NoDatum
    <2>2. \A k \in DOMAIN loopback : loopback[k].ts \in Nat
        <3>1. \A k \in DOMAIN loopback : loopback[k] \in Chunks
            BY <1>1
        <3> QED BY <3>1 DEF Chunks
    <2> QED BY <2>1, <2>2, <1>1, EntriesAt
<1>3. UNCHANGED contents => Shields(contents)'
    BY <1>1 DEF Shields, Own
<1>4. CASE dow_new_data
    <2>1. datum'.ts > datum.ts /\ UNCHANGED <<contents, loopback>>
        BY <1>2, <1>4 DEF dow_new_data
    <2>2. datum'.ts \in Nat
        BY <1>2, <1>4 DEF dow_new_data
    <2> QED BY <1>1, <1>2, <1>3, <2>1, <2>2 DEF OwnInOrder, Past, Own
<1>5. CASE Publish
    <2>1. /\ UNCHANGED <<contents, datum>> /\ pc = "publish" /\ pc' # "publish"
          /\ loopback' = Append(loopback, datum)
        BY <1>5 DEF Publish
    <2>2. /\ \A i \in DOMAIN contents : Own(contents[i]) => contents[i].ts < datum.ts
          /\ \A k \in DOMAIN loopback : Own(loopback[k]) => loopback[k].ts < datum.ts
        BY <1>1, <1>2, <2>1 DEF OwnInOrder, Past
    <2>3. \A k \in DOMAIN loopback' :
            \/ k \in DOMAIN loopback /\ loopback'[k] = loopback[k]
            \/ k = Len(loopback) + 1 /\ loopback'[k] = datum
        BY <1>1, <2>1
    <2>4. \A k \in DOMAIN loopback : k \in Nat /\ k < Len(loopback) + 1
        BY <1>1
    <2>5. Len(loopback) \in Nat
        BY <1>1
    <2>6. ASSUME NEW k \in DOMAIN loopback', NEW l \in DOMAIN loopback',
                 k < l, Own(loopback'[k]), Own(loopback'[l])
          PROVE  loopback'[k].ts < loopback'[l].ts
        <3>1. k \in DOMAIN loopback /\ loopback'[k] = loopback[k]
            BY <2>3, <2>4, <2>5, <2>6
        <3> QED BY <3>1, <2>2, <2>3, <2>6, <1>1 DEF OwnInOrder
    <2>7. /\ \A i \in DOMAIN contents' : Own(contents'[i]) => contents'[i].ts <= datum'.ts
          /\ \A k \in DOMAIN loopback' : Own(loopback'[k]) => loopback'[k].ts <= datum'.ts
          /\ \A i \in DOMAIN contents', k \in DOMAIN loopback' :
                Own(contents'[i]) /\ Own(loopback'[k]) => contents'[i].ts < loopback'[k].ts
        BY <2>1, <2>2, <2>3, <1>1, <1>2 DEF OwnInOrder
    <2> QED BY <1>3, <2>1, <2>6, <2>7 DEF OwnInOrder, Past, Own
<1>6. CASE _debug_cache_date
    <2>1. PICK c \in DebugChunks : loopback' = <<c>>
        BY <1>6 DEF _debug_cache_date
    <2>2. ~Own(c) /\ UNCHANGED <<contents, datum, pc>>
        BY <1>6, UserEnters DEF _debug_cache_date, Own
    <2>3. \A k \in DOMAIN loopback' : loopback'[k] = c
        BY <2>1
    <2> QED BY <1>1, <1>3, <2>2, <2>3 DEF OwnInOrder, Past, Own
<1>7. CASE Beaconed
    <2>1. /\ DOMAIN contents' = DOMAIN contents
          /\ \A i \in DOMAIN contents : Alike(contents'[i], contents[i])
          /\ UNCHANGED <<loopback, datum>> /\ pc' # "publish"
        BY <1>1, <1>7, ResetKeeps DEF Beaconed
    <2>2. OwnInOrder'
        BY <1>1, <2>1 DEF OwnInOrder, Past, Own, Alike
    <2>3. Shields(contents)'
        BY <1>1, <2>1 DEF Shields, Own, Alike
    <2> QED BY <2>2, <2>3
<1>8. CASE \/ Second \/ Settled \/ BackToSleep \/ EndLoop \/ _start_dow \/ _stop_dow
           \/ _sub_prefix \/ _add_sensor \/ Tick \/ UNCHANGED vars
    <2>1. UNCHANGED <<contents, loopback, datum>> /\ (pc' = "publish" => pc = "publish")
        BY <1>8 DEF Second, Settled, BackToSleep, EndLoop, _start_dow, StartLoop, _stop_dow,
            _sub_prefix, _add_sensor, Tick, vars
    <2> QED BY <1>1, <1>3, <2>1 DEF OwnInOrder, Past, Own
<1> QED BY <1>4, <1>5, <1>6, <1>7, <1>8

\* No step takes the flag from the newest own entry, or stores own data in
\* another order.
LEMMA OwnOrdered == Spec => []IInv
<1>1. Init => IInv
    BY InitTypes DEF Init, IInv, Dated, OwnInOrder, Shields
<1>2. IInv /\ TypeOK' /\ Dated' /\ [Next]_vars => IInv'
    <2> SUFFICES ASSUME IInv, TypeOK', Dated', [Next]_vars
                 PROVE  OwnInOrder' /\ Shields(contents)'
        BY DEF IInv
    <2>1. CASE ReceiveOwn \/ ReceiveBroadcast \/ ReceiveBeacon
        BY <2>1, ReceptionOrders
    <2>2. CASE ~(ReceiveOwn \/ ReceiveBroadcast \/ ReceiveBeacon)
        BY <2>2, OtherOrders DEF Next
    <2> QED BY <2>1, <2>2
<1> QED BY <1>1, <1>2, AlwaysTyped, PTL DEF Spec

\* "this is our own content, so we know that it is always the newest": the newest
\* own datum in the store is flagged, whether the node was inactive or deputy when
\* it came back over the loopback interface, and whatever was pushed out for it.
THEOREM OwnNewestFlagged == Spec => []OwnNewestIsFlagged
<1>1. IInv => OwnNewestIsFlagged
    BY DEF IInv, Shields, Own, OwnNewestIsFlagged
<1> QED BY <1>1, OwnOrdered, PTL

-----------------------------------------------------------------------------
(***************************************************************************)
(* What a deputy answers.                                                  *)
(***************************************************************************)

\* For any chunk number the producer finds an entry, where it counts one at all:
\* the one at which its count stops, or else the last one it counted.
LEMMA ProducerFinds ==
    ASSUME NEW s \in Seq(Entries), NEW num \in Nat, Matches(s) # {}
    PROVE  ccnlriot_producer(s, num) # {}
<1> DEFINE stop == {i \in 1..Len(s) : Cardinality({j \in Matches(s) : j < i}) = num}
           first == {i \in stop : \A j \in stop : i <= j}
           last == {i \in Matches(s) : \A j \in Matches(s) : j <= i}
<1>1. ccnlriot_producer(s, num) = IF stop # {} /\ num < Cap THEN first ELSE last
    BY DEF ccnlriot_producer
<1>2. stop # {} => first # {}
    <2>1. stop \in SUBSET Nat
        OBVIOUS
    <2> HIDE DEF stop
    <2> QED BY <2>1, LeastNatural
<1>3. last # {}
    <2>1. Len(s) \in Nat /\ \A i \in Matches(s) : i \in Nat /\ i <= Len(s)
        BY DEF Matches
    <2> DEFINE V == {Len(s) - i : i \in Matches(s)}
    <2>2. PICK d \in V : \A u \in V : d <= u
        <3>1. V \in SUBSET Nat /\ V # {}
            BY <2>1
        <3> HIDE DEF V
        <3> QED BY <3>1, LeastNatural
    <2>3. PICK i \in Matches(s) : d = Len(s) - i
        BY <2>2
    <2>4. \A j \in Matches(s) : Len(s) - i <= Len(s) - j
        BY <2>2, <2>3
    <2>5. \A j \in Matches(s) : j <= i
        BY <2>1, <2>3, <2>4
    <2> QED BY <2>3, <2>5
<1> HIDE DEF stop, first, last
<1> QED BY <1>1, <1>2, <1>3

\* A deputy that has anything of its subscription answers a request for any chunk
\* number, also one that is beyond the end of its store ("failsafe").
THEOREM AlwaysAnswers == Spec => []AnswersIfItCan
<1>1. TypeOK => AnswersIfItCan
    <2>1. \A num \in 0..Cap : num \in Nat
        BY ConstantsAssumption
    <2> QED BY <2>1, ProducerFinds DEF TypeOK, AnswersIfItCan
<1> QED BY <1>1, TypeCorrect, PTL

-----------------------------------------------------------------------------
(***************************************************************************)
(* The hardwired placement.                                                *)
(***************************************************************************)

\* Data of another node, not a beacon.
Foreign(x) == ~Own(x) /\ x.name.pfx # Beacon

\* No two flagged entries have one name.
Sole(s) ==
    \A i, j \in DOMAIN s : s[i].user1 /\ s[j].user1 /\ s[i].name = s[j].name => i = j

\* A flagged entry of its name is as new as the entry at i.
Crown(s, i) ==
    \E j \in DOMAIN s : /\ s[j].name = s[i].name
                        /\ s[j].user1
                        /\ S!strtol(s[i].ts) <= S!strtol(s[j].ts)

\* The newest value of each name of another node is flagged.
Crowned(s) == \A i \in DOMAIN s : Foreign(s[i]) => Crown(s, i)

\* f tells where the entries of x behind its head were in s.
Moved(s, e, x, f) ==
    /\ 1 \in DOMAIN x /\ x[1] = e
    /\ f \in [DOMAIN x \ {1} -> DOMAIN s]
    /\ \A k \in DOMAIN x \ {1} : Alike(x[k], s[f[k]])
    /\ \A k, l \in DOMAIN x \ {1} : f[k] = f[l] => k = l

\* What is stored moves back by at most one place, and no entry is doubled.
LEMMA AddMoves ==
    ASSUME NEW s \in Seq(Entries), Len(s) <= Cap, NEW e \in Entries,
           ccnl_content_add2cache(s, e)
    PROVE  Kept(s, contents') \/ \E f : Moved(s, e, contents', f)
<1>1. Len(s) \in Nat /\ Cap \in Nat \ {0} /\ DOMAIN s = 1..Len(s)
    BY ConstantsAssumption
<1>2. CASE S!IsStored(s, e) /\ contents' = s
    BY <1>2 DEF Kept, Alike
<1>3. CASE contents' = Cons(e, s)
    <2> DEFINE x == Cons(e, s)
               f == [k \in DOMAIN x \ {1} |-> k - 1]
    <2>1. /\ x \in Seq(Entries) /\ Len(x) = Len(s) + 1 /\ x[1] = e
          /\ \A i \in DOMAIN s : x[i + 1] = s[i]
        BY ConsAt
    <2> HIDE DEF x
    <2>2. DOMAIN x = 1..(Len(s) + 1) /\ 1 \in DOMAIN x
        BY <2>1, <1>1
    <2>3. ASSUME NEW k \in DOMAIN x \ {1}
          PROVE  k - 1 \in DOMAIN s /\ x[k] = s[k - 1] /\ k \in Nat
        BY <2>1, <2>2, <1>1
    <2>4. \A k \in DOMAIN x \ {1} : f[k] = k - 1
        OBVIOUS
    <2>5. f \in [DOMAIN x \ {1} -> DOMAIN s]
        BY <2>3
    <2>6. \A k, l \in DOMAIN x \ {1} : f[k] = f[l] => k = l
        BY <2>3, <2>4
    <2> HIDE DEF f
    <2>7. Moved(s, e, x, f)
        BY <2>1, <2>2, <2>3, <2>4, <2>5, <2>6 DEF Moved, Alike
    <2> QED BY <2>7, <1>3 DEF x
<1>4. ASSUME Len(s) >= Cap, NEW t \in {s, ccnl_helper_reset(s)},
             NEW v \in cs_oldest_representative(t, e), contents' = Cons(e, RemoveAt(t, v))
      PROVE  \E f : Moved(s, e, contents', f)
    <2>1. /\ t \in Seq(Entries) /\ Len(t) = Len(s) /\ DOMAIN t = DOMAIN s
          /\ \A i \in DOMAIN s : Alike(t[i], s[i])
        BY <1>4, ResetKeeps DEF Alike
    <2>2. v \in DOMAIN t
        BY <2>1, <1>1, <1>4, StrategyVictim
    <2> DEFINE r == RemoveAt(t, v)
               x == Cons(e, r)
               f == [k \in DOMAIN x \ {1} |-> IF k - 1 < v THEN k - 1 ELSE k]
    <2>3. /\ r \in Seq(Entries) /\ Len(r) = Len(s) - 1
          /\ \A i \in 1..(Len(s) - 1) : r[i] = IF i < v THEN t[i] ELSE t[i + 1]
        BY <2>1, <2>2, RemoveAtAt
    <2> HIDE DEF r
    <2>4. /\ x \in Seq(Entries) /\ Len(x) = Len(r) + 1 /\ x[1] = e
          /\ \A i \in DOMAIN r : x[i + 1] = r[i]
        BY <2>3, ConsAt
    <2> HIDE DEF x
    <2>5. DOMAIN x = 1..Len(s) /\ 1 \in DOMAIN x /\ DOMAIN r = 1..(Len(s) - 1) /\ v \in 1..Len(s)
        BY <2>1, <2>2, <2>3, <2>4, <1>1
    <2>6. \A k \in DOMAIN x \ {1} : f[k] = IF k - 1 < v THEN k - 1 ELSE k
        OBVIOUS
    <2>7. ASSUME NEW k \in DOMAIN x \ {1}
          PROVE  f[k] \in DOMAIN s /\ x[k] = t[f[k]] /\ k \in Nat /\ f[k] \in Nat \ {v}
        <3>1. k \in 2..Len(s) /\ k - 1 \in DOMAIN r /\ (k - 1) + 1 = k
            BY <2>5, <1>1
        <3>2. x[k] = r[k - 1]
            BY <3>1, <2>4
        <3>3. x[k] = IF k - 1 < v THEN t[k - 1] ELSE t[k]
            BY <3>1, <3>2, <2>3, <2>5
        <3> QED BY <3>1, <3>3, <2>5, <2>6, <1>1
    <2>8. f \in [DOMAIN x \ {1} -> DOMAIN s]
        BY <2>6, <2>7
    <2>9. \A k, l \in DOMAIN x \ {1} : f[k] = f[l] => k = l
        BY <2>5, <2>6, <2>7
    <2> HIDE DEF f
    <2>10. \A k \in DOMAIN x \ {1} : Alike(x[k], s[f[k]])
        BY <2>1, <2>7
    <2>11. Moved(s, e, x, f)
        BY <2>4, <2>5, <2>8, <2>9, <2>10 DEF Moved
    <2> QED BY <2>11, <1>4 DEF x, r
<1>5. ASSUME NEW t \in {s, ccnl_helper_reset(s)}, contents' = t
      PROVE  Kept(s, contents')
    BY <1>5, ResetKeeps DEF Kept, Alike
<1>6. \/ S!IsStored(s, e) /\ contents' = s
      \/ contents' = Cons(e, s)
      \/ /\ Len(s) >= Cap
         /\ \E t \in {s, ccnl_helper_reset(s)} :
                \/ contents' = t
                \/ \E v \in cs_oldest_representative(t, e) :
                        contents' = Cons(e, RemoveAt(t, v))
    BY Zenon DEF ccnl_content_add2cache
<1> QED BY <1>2, <1>3, <1>4, <1>5, <1>6

\* Of a name none of whose entries is flagged, the new entry is the only one.
LEMMA AddSole ==
    ASSUME NEW s \in Seq(Entries), Len(s) <= Cap, NEW e \in Entries, Sole(s),
           \A i \in DOMAIN s : s[i].name = e.name => ~s[i].user1,
           ccnl_content_add2cache(s, e)
    PROVE  Sole(contents')
<1>1. CASE Kept(s, contents')
    BY <1>1 DEF Kept, Sole, Alike
<1>2. ASSUME NEW f, Moved(s, e, contents', f)
      PROVE  Sole(contents')
    <2> SUFFICES ASSUME NEW k \in DOMAIN contents', NEW l \in DOMAIN contents',
                        contents'[k].user1, contents'[l].user1,
                        contents'[k].name = contents'[l].name
                 PROVE  k = l
        BY DEF Sole
    <2>1. ASSUME NEW m \in DOMAIN contents' \ {1}
          PROVE  f[m] \in DOMAIN s /\ Alike(contents'[m], s[f[m]])
        BY <1>2 DEF Moved
    <2>2. contents'[1] = e
        BY <1>2 DEF Moved
    <2>3. CASE k # 1 /\ l # 1
        <3>1. f[k] = f[l]
            BY <2>1, <2>3 DEF Alike, Sole
        <3> QED BY <3>1, <2>3, <1>2 DEF Moved
    <2>4. CASE k = 1 /\ l # 1
        BY <2>1, <2>2, <2>4 DEF Alike
    <2>5. CASE k # 1 /\ l = 1
        BY <2>1, <2>2, <2>5 DEF Alike
    <2> QED BY <2>3, <2>4, <2>5
<1> QED BY <1>1, <1>2, AddMoves

\* The newest value of each name stays flagged: the new entry takes over for its
\* own name, and what makes room for it is of that name, or has no flag, or was
\* the only value of its name.
LEMMA AddCrowned ==
    ASSUME NEW s \in Seq(Entries), Len(s) <= Cap, NEW e \in Entries, Sole(s),
           e.user1, S!Younger(s, e) = {},
           \A i \in DOMAIN s : s[i].name = e.name => ~s[i].user1,
           \A i \in DOMAIN s : Foreign(s[i]) /\ s[i].name # e.name => Crown(s, i),
           Foreign(e) => ~S!IsStored(s, e),
           ccnl_content_add2cache(s, e)
    PROVE  Crowned(contents')
<1>1. \A i \in DOMAIN s : s[i].name = e.name => S!strtol(s[i].ts) <= S!strtol(e.ts)
    <2>1. \A i \in DOMAIN s : S!strtol(s[i].ts) \in Nat
        BY EntriesAt
    <2>2. S!strtol(e.ts) \in Nat
        <3>1. \A n \in 0..LongMax : n \in Nat
            OBVIOUS
        <3> QED BY <3>1, StrtolOrder DEF Entries
    <2> QED BY <2>1, <2>2 DEF S!Younger, S!SameName
<1>2. CASE /\ Kept(s, contents')
           /\ S!IsStored(s, e) \/ S!Younger(s, e) # {} \/ S!Unflagged(s) = {}
    <2> SUFFICES ASSUME NEW k \in DOMAIN contents', Foreign(contents'[k])
                 PROVE  Crown(contents', k)
        BY DEF Crowned
    <2>1. k \in DOMAIN s /\ Alike(contents'[k], s[k]) /\ Foreign(s[k])
        BY <1>2 DEF Kept, Alike, Foreign, Own
    <2>2. s[k].name # e.name
        BY <2>1, <1>2 DEF Foreign, Own, S!Unflagged
    <2>3. PICK j \in DOMAIN s : /\ s[j].name = s[k].name /\ s[j].user1
                                /\ S!strtol(s[k].ts) <= S!strtol(s[j].ts)
        BY <2>1, <2>2 DEF Crown
    <2>4. j \in DOMAIN contents' /\ Alike(contents'[j], s[j])
        BY <1>2 DEF Kept
    <2> QED BY <2>1, <2>3, <2>4 DEF Crown, Alike
<1>3. ASSUME NEW R \in SUBSET DOMAIN s, Entered(s, R, e, contents'), Spares(s, R, e)
      PROVE  Crowned(contents')
    <2> SUFFICES ASSUME NEW k \in DOMAIN contents', Foreign(contents'[k])
                 PROVE  Crown(contents', k)
        BY DEF Crowned
    <2>1. 1 \in DOMAIN contents' /\ contents'[1] = e
        BY <1>3 DEF Entered
    <2>2. CASE k = 1
        <3>1. S!strtol(e.ts) <= S!strtol(e.ts)
            <4>1. \A n \in 0..LongMax : n \in Int
                OBVIOUS
            <4> QED BY <4>1, StrtolOrder DEF Entries
        <3> QED BY <2>1, <2>2, <3>1 DEF Crown
    <2>3. ASSUME k # 1
          PROVE  Crown(contents', k)
        <3>1. PICK i \in DOMAIN s \ R : Alike(contents'[k], s[i])
            BY <1>3, <2>3 DEF Entered
        <3>2. CASE s[i].name = e.name
            BY <3>1, <3>2, <2>1, <1>1 DEF Crown, Alike
        <3>3. CASE s[i].name # e.name
            <4>1. Foreign(s[i])
                BY <3>1 DEF Alike, Foreign, Own
            <4>2. PICK j \in DOMAIN s : /\ s[j].name = s[i].name /\ s[j].user1
                                        /\ S!strtol(s[i].ts) <= S!strtol(s[j].ts)
                BY <3>3, <4>1 DEF Crown
            <4>3. j \notin R
                <5>1. S!Unflagged(s) = {} => s[i].user1
                    BY DEF S!Unflagged
                <5>2. S!Unflagged(s) = {} => i = j
                    BY <4>2, <5>1 DEF Sole
                <5> QED BY <3>1, <3>3, <4>2, <5>2, <1>3 DEF Spares
            <4>4. PICK l \in DOMAIN contents' : Alike(contents'[l], s[j])
                BY <4>3, <1>3 DEF Entered
            <4> QED BY <3>1, <4>2, <4>4 DEF Crown, Alike
        <3> QED BY <3>2, <3>3
    <2> QED BY <2>2, <2>3
<1> QED BY <1>2, <1>3, AddCases

\* A store full of flagged entries holds one entry for each name that it may
\* hold at all: a chunk of a further name does not exist.
LEMMA NoFurtherName ==
    ASSUME PlacementFits, NEW s \in Seq(Entries), Len(s) = Cap, Sole(s),
           S!Unflagged(s) = {}, \A i \in DOMAIN s : s[i].name \in Placed,
           NEW n \in Placed, \A i \in DOMAIN s : s[i].name # n
    PROVE  FALSE
<1> DEFINE f == [i \in 1..Cap |-> s[i].name]
           T == Placed \ {n}
<1>1. Cap \in Nat \ {0} /\ DOMAIN s = 1..Cap
    BY ConstantsAssumption
<1>2. IsFiniteSet(1..Cap) /\ Cardinality(1..Cap) = Cap
    <2>1. 1 \in Int /\ Cap \in Int
        BY <1>1
    <2>2. IsFiniteSet(1..Cap) /\ Cardinality(1..Cap) = IF 1 > Cap THEN 0 ELSE Cap - 1 + 1
        BY <2>1, FS_Interval, Zenon
    <2> QED BY <2>2, <1>1
<1>3. IsFiniteSet(T) /\ Cardinality(T) = Cardinality(Placed) - 1
    BY FS_RemoveElement DEF PlacementFits
<1>4. Cardinality(Placed) \in Nat
    BY FS_CardinalityType DEF PlacementFits
<1>5. Cardinality(T) < Cardinality(1..Cap)
    BY <1>1, <1>2, <1>3, <1>4 DEF PlacementFits
<1>6. f \in [1..Cap -> T]
    BY <1>1
<1>7. PICK i \in 1..Cap, j \in 1..Cap : i # j /\ f[i] = f[j]
    <2> HIDE DEF f, T
    <2> QED BY <1>2, <1>3, <1>5, <1>6, FS_PigeonHole
<1>8. s[i].user1 /\ s[j].user1 /\ s[i].name = s[j].name
    BY <1>1, <1>7 DEF S!Unflagged
<1> QED BY <1>1, <1>7, <1>8 DEF Sole

\* x holds a value of each of the names of s of other nodes, as new as any in s.
Keeps(s, x) ==
    \A i \in DOMAIN s : Foreign(s[i]) =>
        \E k \in DOMAIN x : /\ x[k].name = s[i].name
                            /\ S!strtol(s[i].ts) <= S!strtol(x[k].ts)

\* So an entry makes room that is of the name of the chunk or not flagged, and
\* no name loses its newest value.
LEMMA AddKeeps ==
    ASSUME NEW s \in Seq(Entries), Len(s) <= Cap, NEW e \in Entries,
           S!Younger(s, e) = {},
           \A i \in DOMAIN s : s[i].name = e.name => ~s[i].user1,
           \A i \in DOMAIN s : Foreign(s[i]) /\ s[i].name # e.name => Crown(s, i),
           PlacementFits, Sole(s), e.name \in Placed,
           \A i \in DOMAIN s : s[i].name \in Placed,
           ccnl_content_add2cache(s, e)
    PROVE  Keeps(s, contents')
<1>1. \A i \in DOMAIN s : S!strtol(s[i].ts) \in Nat
    BY EntriesAt
<1>2. \A i \in DOMAIN s : s[i].name = e.name => S!strtol(s[i].ts) <= S!strtol(e.ts)
    <2>1. S!strtol(e.ts) \in Nat
        <3>1. \A n \in 0..LongMax : n \in Nat
            OBVIOUS
        <3> QED BY <3>1, StrtolOrder DEF Entries
    <2> QED BY <1>1, <2>1 DEF S!Younger, S!SameName
<1>3. CASE Kept(s, contents')
    BY <1>1, <1>3 DEF Kept, Alike, Keeps
<1>4. ASSUME NEW R \in SUBSET DOMAIN s, Entered(s, R, e, contents'), Spares(s, R, e)
      PROVE  Keeps(s, contents')
    <2> SUFFICES ASSUME NEW i \in DOMAIN s, Foreign(s[i])
                 PROVE  \E k \in DOMAIN contents' :
                            /\ contents'[k].name = s[i].name
                            /\ S!strtol(s[i].ts) <= S!strtol(contents'[k].ts)
        BY DEF Keeps
    <2>1. 1 \in DOMAIN contents' /\ contents'[1] = e
        BY <1>4 DEF Entered
    <2>2. CASE s[i].name = e.name
        BY <2>1, <2>2, <1>2
    <2>3. CASE s[i].name # e.name
        <3>1. PICK j \in DOMAIN s : /\ s[j].name = s[i].name /\ s[j].user1
                                    /\ S!strtol(s[i].ts) <= S!strtol(s[j].ts)
            BY <2>3 DEF Crown
        <3>2. ~(S!Unflagged(s) = {} /\ Len(s) = Cap)
            <4> SUFFICES ASSUME S!Unflagged(s) = {}, Len(s) = Cap
                         PROVE  FALSE
                OBVIOUS
            <4>1. \A l \in DOMAIN s : s[l].name # e.name
                BY DEF S!Unflagged
            <4> QED BY <4>1, NoFurtherName
        <3>3. j \notin R
            BY <2>3, <3>1, <3>2, <1>4 DEF Spares
        <3>4. PICK k \in DOMAIN contents' : Alike(contents'[k], s[j])
            BY <3>3, <1>4 DEF Entered
        <3> QED BY <3>1, <3>4 DEF Alike
    <2> QED BY <2>2, <2>3
<1> QED BY <1>3, <1>4, AddCases

\* The store t that chunk c is added to: the flags of c's name are gone, the
\* other names of other nodes have theirs, and c is no older than its name.
Prepared(t, c) ==
    /\ t \in Seq(Entries) /\ Len(t) <= Cap /\ DOMAIN t = DOMAIN contents
    /\ \A i \in DOMAIN contents : t[i].name = contents[i].name /\ t[i].ts = contents[i].ts
    /\ Sole(t)
    /\ S!Younger(t, c) = {}
    /\ \A i \in DOMAIN t : t[i].name = c.name => ~t[i].user1
    /\ \A i \in DOMAIN t : Foreign(t[i]) /\ t[i].name # c.name => Crown(t, i)
    /\ Foreign(c) => ~S!IsStored(t, c)

\* A chunk that arrives in the order of its name, not stored yet if it is a datum
\* of another node.
InTime(c) ==
    /\ S!Younger(contents, c) = {}
    /\ Foreign(c) => ~S!IsStored(contents, c)

\* The scan for the flags takes those of the name away.
LEMMA ScanPrepares ==
    ASSUME TypeOK, Sole(contents), Crowned(contents), NEW c \in Data, InTime(c)
    PROVE  Prepared(S!HandleScan(contents, c), c)
<1> DEFINE t == S!HandleScan(contents, c)
<1>1. contents \in Seq(Entries) /\ Len(contents) <= Cap
    BY DEF TypeOK
<1>2. /\ t \in Seq(Entries) /\ Len(t) = Len(contents) /\ DOMAIN t = DOMAIN contents
      /\ \A i \in DOMAIN contents :
            /\ t[i].name = contents[i].name
            /\ t[i].ts = contents[i].ts
            /\ contents[i].name # c.name => t[i] = contents[i]
    BY <1>1, ScanKeeps
<1>3. ASSUME NEW i \in DOMAIN contents, contents[i].name = c.name
      PROVE  ~t[i].user1
    <2>1. t[i] = IF i <= Len(contents) + 1
                 THEN [contents[i] EXCEPT !.user1 = (i = Len(contents) + 1)]
                 ELSE contents[i]
        BY <1>3 DEF S!HandleScan, InTime
    <2>2. i <= Len(contents) + 1 /\ i # Len(contents) + 1
        BY <1>1
    <2>3. contents[i] \in Entries
        BY <1>1
    <2>4. t[i] = [contents[i] EXCEPT !.user1 = FALSE]
        BY <2>1, <2>2
    <2>5. [contents[i] EXCEPT !.user1 = FALSE].user1 = FALSE
        BY <2>3 DEF Entries
    <2> QED BY <2>4, <2>5
<1> HIDE DEF t
<1>4. Sole(t)
    BY <1>2, <1>3 DEF Sole
<1>5. S!Younger(t, c) = {} /\ (Foreign(c) => ~S!IsStored(t, c))
    BY <1>2 DEF InTime, S!Younger, S!SameName, S!IsStored
<1>6. ASSUME NEW i \in DOMAIN t, Foreign(t[i]), t[i].name # c.name
      PROVE  Crown(t, i)
    <2>1. i \in DOMAIN contents /\ t[i] = contents[i]
        BY <1>2, <1>6
    <2>2. PICK j \in DOMAIN contents :
            /\ contents[j].name = contents[i].name /\ contents[j].user1
            /\ S!strtol(contents[i].ts) <= S!strtol(contents[j].ts)
        BY <2>1, <1>6 DEF Crowned, Crown
    <2>3. t[j] = contents[j] /\ j \in DOMAIN t
        BY <1>2, <1>6, <2>1, <2>2
    <2> QED BY <2>1, <2>2, <2>3 DEF Crown
<1> QED BY <1>1, <1>2, <1>3, <1>4, <1>5, <1>6 DEF Prepared, t

\* Taking the flags of own data away touches no name of another node.
LEMMA UnflagPrepares ==
    ASSUME TypeOK, Sole(contents), Crowned(contents), NEW c \in Data, InTime(c), Own(c)
    PROVE  Prepared(_unflag_cs(contents, Self), c)
<1> DEFINE t == _unflag_cs(contents, Self)
<1>1. contents \in Seq(Entries) /\ Len(contents) <= Cap
    BY DEF TypeOK
<1>2. /\ t \in Seq(Entries) /\ Len(t) = Len(contents) /\ DOMAIN t = DOMAIN contents
      /\ \A i \in DOMAIN contents :
            t[i].name = contents[i].name /\ t[i].ts = contents[i].ts
    BY <1>1, UnflagKeeps
<1>3. ASSUME NEW i \in DOMAIN contents
      PROVE  /\ Own(contents[i]) => ~t[i].user1
             /\ ~Own(contents[i]) => t[i] = contents[i]
    <2>1. t[i] = IF contents[i].name.src = Self
                 THEN [contents[i] EXCEPT !.user1 = FALSE] ELSE contents[i]
        BY DEF _unflag_cs, S!_unflag_cs
    <2>2. contents[i] \in Entries
        BY <1>1
    <2>3. [contents[i] EXCEPT !.user1 = FALSE].user1 = FALSE
        BY <2>2 DEF Entries
    <2> QED BY <2>1, <2>3 DEF Own
<1> HIDE DEF t
<1>4. Sole(t)
    BY <1>2, <1>3 DEF Sole
<1>5. S!Younger(t, c) = {} /\ (Foreign(c) => ~S!IsStored(t, c))
    BY <1>2 DEF InTime, S!Younger, S!SameName, S!IsStored
<1>6. ASSUME NEW i \in DOMAIN t, Foreign(t[i])
      PROVE  Crown(t, i)
    <2>1. i \in DOMAIN contents /\ ~Own(contents[i]) /\ t[i] = contents[i]
        BY <1>2, <1>3, <1>6 DEF Foreign, Own
    <2>2. PICK j \in DOMAIN contents :
            /\ contents[j].name = contents[i].name /\ contents[j].user1
            /\ S!strtol(contents[i].ts) <= S!strtol(contents[j].ts)
        BY <2>1, <1>6 DEF Crowned, Crown
    <2>3. t[j] = contents[j] /\ j \in DOMAIN t
        BY <1>2, <1>3, <2>1, <2>2 DEF Own
    <2> QED BY <2>1, <2>2, <2>3 DEF Crown
<1>7. \A i \in DOMAIN t : t[i].name = c.name => ~t[i].user1
    BY <1>2, <1>3 DEF Own
<1> QED BY <1>1, <1>2, <1>4, <1>5, <1>6, <1>7 DEF Prepared, t

\* The entry that c becomes, with the flag.
Flagged(c) == [name |-> c.name, ts |-> c.ts, user1 |-> TRUE, user2 |-> TRUE]

\* A chunk in time is flagged when it is added, by a deputy, which considers what
\* it may store, and by an inactive node, which stores its own data.
LEMMA ConsumerPrepares ==
    ASSUME TypeOK, Sole(contents), Crowned(contents), NEW c \in Data, InTime(c),
           ccnlriot_consumer(c)
    PROVE  \/ UNCHANGED storeVars
           \/ \E t : /\ Prepared(t, c)
                     /\ ccnl_content_add2cache(t, Flagged(c))
                     /\ Own(c) \/ MayCache(c)
<1>1. CASE _ccnl_helper_handle_content(c) /\ MayCache(c)
    <2>1. (S!Younger(contents, c) = {}) = TRUE
        BY DEF InTime
    <2>2. ccnl_content_add2cache(S!HandleScan(contents, c), Flagged(c))
        BY <1>1, <2>1 DEF _ccnl_helper_handle_content, Flagged
    <2> QED BY <1>1, <2>2, ScanPrepares
<1>2. CASE CacheOwn(c) /\ Own(c)
    BY <1>2, UnflagPrepares DEF CacheOwn, Flagged
<1> QED BY <1>1, <1>2 DEF ccnlriot_consumer, Own

\* Where an entry or a chunk came from: another node's data arrive in the order
\* of their time stamps, of which h is the last; a beacon is always the same.
FromPeer(x, h) ==
    /\ x.name.src \in Peers
    /\ x.name.pfx # Beacon
    /\ x.ts <= h[x.name.src]
FromBeacon(x) == x.name.pfx = Beacon /\ x.ts = x.name.src
FromUser(x) == \E c \in DebugChunks : x.name = c.name /\ x.ts = c.ts
Came(x, h) == Own(x) \/ FromPeer(x, h) \/ FromBeacon(x) \/ FromUser(x)

\* A chunk of the user's is ahead of all on the loopback interface, not stored yet.
Entering(k) == k = 1 /\ loopback[k] \in DebugChunks /\ ~S!IsStored(contents, loopback[k])

\* The prefixes of own data.
DataPfx == PfxChars \cup {Site}

\* What has arrived so far, and that before "start" there is none of it.
Arrivals ==
    /\ \A i \in DOMAIN contents : Came(contents[i], heard)
    /\ \A k \in DOMAIN loopback : Own(loopback[k]) => loopback[k].name.pfx \in DataPfx
    /\ \A k \in DOMAIN loopback : ~Own(loopback[k]) => Entering(k)
    /\ Own(datum) /\ datum.name.pfx \in DataPfx
    /\ pc = "off" => contents = <<>> /\ loopback = <<>>
    /\ manual => \A i \in DOMAIN contents : contents[i].name \in Placed

\* The inductive invariant behind KeepsNewest.
Placement == IInv /\ Arrivals /\ Sole(contents) /\ Crowned(contents)

\* What receiving chunk c does apart from storing it.
Arrival(c) ==
    /\ c \in Data /\ ccnlriot_consumer(c) /\ InTime(c)
    /\ Own(c) => c.name.pfx \in DataPfx
    /\ ~Own(c) => c.name \in Sent
    /\ Came(c, heard')
    /\ heard' \in [Peers -> Nat] /\ \A i \in Peers : heard[i] <= heard'[i]
    /\ \A k \in DOMAIN loopback' : \E l \in DOMAIN loopback : loopback'[k] = loopback[l]
    /\ \A k \in DOMAIN loopback' : ~Own(loopback'[k]) =>
            k \in DOMAIN loopback /\ loopback'[k] = loopback[k] /\ loopback[k].name # c.name
    /\ pc # "off" /\ UNCHANGED <<pc, manual, datum>>

\* The names of what the user enters.
LEMMA UserNames ==
    ASSUME PlacementFits, NEW c \in DebugChunks
    PROVE  c.name.src \notin Peers /\ c.name.pfx # Beacon
<1>1. PICK q \in PfxChars \cup {Site}, i \in Ids \ {Self}, t \in 1..MaxTs :
        c = [name |-> [pfx |-> q, src |-> i], ts |-> t]
    BY ConstantsAssumption
<1> QED BY <1>1 DEF PlacementFits

\* What comes back from the loopback interface is newer than the own data in the
\* store, or the first chunk of its name.
LEMMA OwnArrives ==
    ASSUME PlacementFits, Placement, ReceiveOwn
    PROVE  \E c : Arrival(c)
<1> PICK c : c = Head(loopback)
    OBVIOUS
<1>1. TypeOK /\ OwnInOrder /\ Arrivals /\ contents \in Seq(Entries) /\ loopback \in Seq(Chunks)
    BY DEF Placement, IInv, TypeOK
<1>2. /\ loopback # <<>> /\ c = loopback[1] /\ 1 \in DOMAIN loopback /\ c \in Chunks
      /\ loopback' = Tail(loopback) /\ ccnlriot_consumer(c)
    BY <1>1 DEF ReceiveOwn
<1>3. \A k \in DOMAIN loopback' :
        /\ k + 1 \in DOMAIN loopback /\ k + 1 # 1
        /\ loopback'[k] = loopback[k + 1]
    <2>1. Tail(loopback) \in Seq(Chunks) /\ Len(Tail(loopback)) = Len(loopback) - 1
          /\ \A k \in 1..(Len(loopback) - 1) : Tail(loopback)[k] = loopback[k + 1]
        BY <1>1, <1>2
    <2> QED BY <2>1, <1>1, <1>2
<1>4. c \in Data /\ c.ts \in Nat /\ c.name \in S!Names
    BY <1>2, OthersSend DEF Data
<1>5. UNCHANGED <<pc, manual, datum, heard>> /\ pc # "off"
    BY <1>1, <1>2 DEF ReceiveOwn, Arrivals, loopVars
<1>6. heard' \in [Peers -> Nat] /\ \A i \in Peers : heard[i] <= heard'[i]
    <2>1. heard \in [Peers -> 0..MaxTs]
        BY <1>1 DEF TypeOK
    <2>2. \A i \in Peers : heard[i] \in Nat
        BY <2>1, ConstantsAssumption
    <2> QED BY <2>1, <2>2, <1>5
<1>7. CASE Own(c)
    <2>1. S!Younger(contents, c) = {}
        BY <1>1, <1>2, <1>4, <1>7, NoneYounger DEF OwnInOrder
    <2>2. InTime(c)
        BY <2>1, <1>7 DEF InTime, Foreign
    <2>3. Came(c, heard') /\ c.name.pfx \in DataPfx
        BY <1>1, <1>2, <1>7 DEF Came, Own, Arrivals
    <2>4. \A k \in DOMAIN loopback' : Own(loopback'[k])
        BY <1>1, <1>3 DEF Arrivals, Entering
    <2> QED BY <2>2, <2>3, <2>4, <1>2, <1>3, <1>4, <1>5, <1>6, <1>7 DEF Arrival
<1>8. CASE ~Own(c)
    <2>1. c \in DebugChunks /\ ~S!IsStored(contents, c)
        BY <1>1, <1>2, <1>8 DEF Arrivals, Entering
    <2>2. \A i \in DOMAIN contents : contents[i].name # c.name
        <3> SUFFICES ASSUME NEW i \in DOMAIN contents, contents[i].name = c.name PROVE FALSE
            OBVIOUS
        <3>1. c.name.src \notin Peers /\ c.name.pfx # Beacon
            BY <2>1, UserNames
        <3>2. FromUser(contents[i])
            BY <3>1, <1>1, <1>8 DEF Arrivals, Came, Own, FromPeer, FromBeacon
        <3>3. contents[i].ts = c.ts
            BY <3>2, <2>1 DEF FromUser, PlacementFits
        <3> QED BY <3>3, <2>1 DEF S!IsStored
    <2>3. InTime(c)
        BY <2>1, <2>2 DEF InTime, S!Younger, S!SameName
    <2>4. Came(c, heard') /\ c.name \in Sent
        BY <2>1 DEF Came, FromUser, Sent
    <2>5. \A k \in DOMAIN loopback' : Own(loopback'[k])
        BY <1>1, <1>3 DEF Arrivals, Entering
    <2> QED BY <2>3, <2>4, <2>5, <1>2, <1>3, <1>4, <1>5, <1>6, <1>8 DEF Arrival
<1> QED BY <1>7, <1>8

\* A broadcast is newer than what is stored of its source.
LEMMA BroadcastArrives ==
    ASSUME PlacementFits, Placement, ReceiveBroadcast
    PROVE  \E c : Arrival(c)
<1>1. TypeOK /\ Arrivals /\ contents \in Seq(Entries) /\ heard \in [Peers -> 0..MaxTs]
    BY DEF Placement, IInv, TypeOK
<1>2. PICK i \in Peers : \E t \in heard[i] + 1 .. MaxTs :
        /\ ccnlriot_consumer([name |-> [pfx |-> PfxOf[i], src |-> i], ts |-> t])
        /\ heard' = [heard EXCEPT ![i] = t]
    BY DEF ReceiveBroadcast
<1>3. PICK t \in heard[i] + 1 .. MaxTs :
        /\ ccnlriot_consumer([name |-> [pfx |-> PfxOf[i], src |-> i], ts |-> t])
        /\ heard' = [heard EXCEPT ![i] = t]
    BY <1>2
<1> DEFINE c == [name |-> [pfx |-> PfxOf[i], src |-> i], ts |-> t]
<1>4. \A j \in Peers : heard[j] \in Nat /\ heard[j] <= MaxTs
    BY <1>1, ConstantsAssumption
<1>5. t \in 1..MaxTs /\ t \in Nat /\ t > heard[i] /\ MaxTs \in Nat
    BY <1>3, <1>4, ConstantsAssumption
<1>6. c \in Data /\ i # Self /\ ccnlriot_consumer(c)
    BY <1>3, <1>5, OthersSend
<1>7. PfxOf[i] \in PfxChars \cup {Site} /\ PfxOf[i] # Beacon
    BY ConstantsAssumption DEF PlacementFits
<1>8. c.name.src = i /\ c.name.pfx = PfxOf[i] /\ c.ts = t /\ c.name \in Sent /\ ~Own(c)
    BY <1>6 DEF Sent, Own
<1> HIDE DEF c
<1>9. \A k \in DOMAIN contents : contents[k].name = c.name => contents[k].ts < c.ts
    <2> SUFFICES ASSUME NEW k \in DOMAIN contents, contents[k].name = c.name
                 PROVE  contents[k].ts < c.ts
        OBVIOUS
    <2>1. \A d \in DebugChunks : d.name # c.name
        BY <1>8 DEF PlacementFits
    <2>2. FromPeer(contents[k], heard)
        BY <2>1, <1>1, <1>6, <1>7, <1>8 DEF Arrivals, Came, Own, FromBeacon, FromUser
    <2>3. contents[k].ts \in Nat
        BY <1>1, EntriesAt
    <2> QED BY <2>2, <2>3, <1>4, <1>5, <1>8 DEF FromPeer
<1>10. InTime(c)
    <2>1. ASSUME NEW k \in S!Younger(contents, c)
          PROVE  FALSE
        <3>1. k \in DOMAIN contents /\ contents[k].name = c.name
              /\ S!strtol(contents[k].ts) > S!strtol(c.ts)
            BY <2>1 DEF S!Younger, S!SameName
        <3>2. contents[k].ts \in Nat /\ contents[k].ts <= t
            BY <3>1, <1>1, <1>5, <1>8, <1>9, EntriesAt
        <3>3. /\ S!strtol(contents[k].ts) <= S!strtol(t)
              /\ S!strtol(contents[k].ts) \in 0..LongMax /\ S!strtol(t) \in 0..LongMax
            BY <3>2, <1>5, StrtolOrder
        <3>4. S!strtol(contents[k].ts) \in Int /\ S!strtol(t) \in Int
            BY <3>3
        <3> QED BY <3>1, <3>3, <3>4, <1>8
    <2>2. ~S!IsStored(contents, c)
        <3> SUFFICES ASSUME NEW k \in DOMAIN contents,
                            contents[k].name = c.name, contents[k].ts = c.ts
                     PROVE  FALSE
            BY DEF S!IsStored
        <3> QED BY <1>5, <1>8, <1>9
    <2> QED BY <2>1, <2>2 DEF InTime
<1>11. heard' \in [Peers -> Nat] /\ (\A j \in Peers : heard[j] <= heard'[j]) /\ heard'[i] = t
    <2>1. heard' \in [Peers -> Nat] /\ \A j \in Peers : heard'[j] = IF j = i THEN t ELSE heard[j]
        BY <1>1, <1>3, <1>4, <1>5
    <2> QED BY <2>1, <1>4, <1>5
<1>12. Came(c, heard')
    <2>1. c.ts <= heard'[i]
        BY <1>5, <1>8, <1>11
    <2> QED BY <2>1, <1>7, <1>8 DEF Came, FromPeer
<1>13. UNCHANGED <<loopback, pc, manual, datum>> /\ pc # "off"
    BY DEF ReceiveBroadcast, loopVars
<1>14. \A k \in DOMAIN loopback : ~Own(loopback[k]) => loopback[k].name # c.name
    BY <1>1, <1>8 DEF Arrivals, Entering, PlacementFits
<1>15. Arrival(c)
    BY <1>6, <1>8, <1>10, <1>11, <1>12, <1>13, <1>14 DEF Arrival
<1> QED BY <1>15

\* A beacon that is stored already is the only entry of its name.
LEMMA BeaconArrives ==
    ASSUME PlacementFits, Placement, ReceiveBeacon
    PROVE  \E c : Arrival(c)
<1>1. TypeOK /\ Arrivals /\ contents \in Seq(Entries) /\ heard \in [Peers -> 0..MaxTs]
    BY DEF Placement, IInv, TypeOK
<1>2. PICK i \in Peers :
        ccnlriot_consumer([name |-> [pfx |-> Beacon, src |-> CpuId[i]], ts |-> CpuId[i]])
    BY DEF ReceiveBeacon
<1> DEFINE c == [name |-> [pfx |-> Beacon, src |-> CpuId[i]], ts |-> CpuId[i]]
<1>3. c \in Data /\ CpuId[i] # Self /\ ccnlriot_consumer(c)
    BY <1>2, OthersSend
<1>4. c.name.src = CpuId[i] /\ c.name.pfx = Beacon /\ c.ts = CpuId[i] /\ c.name \in Sent
      /\ ~Own(c)
    BY <1>3 DEF Sent, Own
<1> HIDE DEF c
<1>5. \A d \in DebugChunks : d.name.pfx # Beacon
    BY UserNames
<1>6. \A k \in DOMAIN contents : contents[k].name = c.name => contents[k].ts = c.ts
    BY <1>1, <1>4, <1>5 DEF Arrivals, Came, Own, FromPeer, FromBeacon, FromUser
<1>7. InTime(c)
    <2>1. \A k \in DOMAIN contents : S!strtol(contents[k].ts) \in Int
        BY <1>1, EntriesAt
    <2>2. S!Younger(contents, c) = {}
        BY <2>1, <1>6 DEF S!Younger, S!SameName
    <2> QED BY <2>2, <1>4 DEF InTime, Foreign
<1>8. heard' \in [Peers -> Nat] /\ \A j \in Peers : heard[j] <= heard'[j]
    <2>1. \A j \in Peers : heard[j] \in Nat
        BY <1>1, ConstantsAssumption
    <2>2. UNCHANGED heard
        BY DEF ReceiveBeacon
    <2> QED BY <2>1, <2>2, <1>1
<1>9. Came(c, heard')
    BY <1>4 DEF Came, FromBeacon
<1>10. UNCHANGED <<loopback, pc, manual, datum>> /\ pc # "off"
    BY DEF ReceiveBeacon, loopVars
<1>11. \A k \in DOMAIN loopback : ~Own(loopback[k]) => loopback[k].name # c.name
    BY <1>1, <1>4, <1>5 DEF Arrivals, Entering
<1>12. Arrival(c)
    BY <1>3, <1>4, <1>7, <1>8, <1>9, <1>10, <1>11 DEF Arrival
<1> QED BY <1>12

\* What is stored when an ID was set by hand is one of the names placed here.
LEMMA InPlace ==
    ASSUME manual, NEW c, Arrival(c), Own(c) \/ MayCache(c)
    PROVE  c.name \in Placed
<1>1. CASE Own(c)
    <2>1. c.name \in S!Names /\ c.name.src = Self /\ c.name.pfx \in DataPfx
        BY <1>1 DEF Arrival, Data, Own
    <2>2. c.name = [pfx |-> c.name.pfx, src |-> Self]
        BY <2>1 DEF S!Names
    <2> QED BY <2>1, <2>2 DEF Placed, DataPfx
<1>2. CASE ~Own(c)
    BY <1>2 DEF MayCache, Arrival, Placed
<1> QED BY <1>1, <1>2

\* The entries after a reception came the way of those before it, or of c.
LEMMA ArrivalsStay ==
    ASSUME Placement, NEW c, Arrival(c)
    PROVE  Arrivals'
<1>1. TypeOK /\ Sole(contents) /\ Crowned(contents) /\ Arrivals
      /\ c \in Data /\ ccnlriot_consumer(c) /\ InTime(c)
    BY DEF Placement, IInv, Arrival
<1>2. \A k \in DOMAIN contents' :
        \/ \E i \in DOMAIN contents : /\ contents'[k].name = contents[i].name
                                       /\ contents'[k].ts = contents[i].ts
        \/ /\ ~UNCHANGED storeVars
           /\ contents'[k].name = c.name /\ contents'[k].ts = c.ts
    BY <1>1, ConsumerNames
<1>3. UNCHANGED <<pc, manual, datum>> /\ pc # "off"
    BY DEF Arrival
<1>4. ASSUME NEW x, NEW y, x.name = y.name, x.ts = y.ts, y.ts \in Nat, Came(y, heard)
      PROVE  Came(x, heard')
    <2>1. CASE FromPeer(y, heard)
        <3>1. y.name.src \in Peers /\ y.name.pfx # Beacon /\ y.ts <= heard[y.name.src]
            BY <2>1 DEF FromPeer
        <3>2. heard[y.name.src] \in Nat /\ heard'[y.name.src] \in Nat
              /\ heard[y.name.src] <= heard'[y.name.src]
            <4>1. heard \in [Peers -> 0..MaxTs] /\ heard' \in [Peers -> Nat]
                  /\ \A i \in Peers : heard[i] <= heard'[i]
                BY <1>1 DEF TypeOK, Arrival
            <4>2. \A i \in Peers : heard[i] \in Nat
                BY <4>1, ConstantsAssumption
            <4> QED BY <3>1, <4>1, <4>2
        <3>3. y.ts <= heard'[y.name.src]
            BY <3>1, <3>2, <1>4
        <3> QED BY <3>1, <3>3, <1>4 DEF Came, FromPeer
    <2>2. CASE Own(y) \/ FromBeacon(y) \/ FromUser(y)
        BY <2>2, <1>4 DEF Came, Own, FromBeacon, FromUser
    <2> QED BY <2>1, <2>2, <1>4 DEF Came
<1>5. ASSUME NEW k \in DOMAIN contents'
      PROVE  Came(contents'[k], heard')
    <2>1. CASE \E i \in DOMAIN contents : /\ contents'[k].name = contents[i].name
                                           /\ contents'[k].ts = contents[i].ts
        <3>1. PICK i \in DOMAIN contents : /\ contents'[k].name = contents[i].name
                                            /\ contents'[k].ts = contents[i].ts
            BY <2>1
        <3>2. contents[i].ts \in Nat
            BY <1>1, EntriesAt DEF TypeOK
        <3>3. Came(contents[i], heard)
            BY <1>1 DEF Arrivals
        <3> QED BY <3>1, <3>2, <3>3, <1>4
    <2>2. CASE contents'[k].name = c.name /\ contents'[k].ts = c.ts
        <3>1. Came(c, heard')
            BY DEF Arrival
        <3> QED BY <2>2, <3>1 DEF Came, Own, FromPeer, FromBeacon, FromUser
    <2> QED BY <2>1, <2>2, <1>2
<1>6. ASSUME NEW k \in DOMAIN loopback'
      PROVE  /\ Own(loopback'[k]) => loopback'[k].name.pfx \in DataPfx
             /\ ~Own(loopback'[k]) => Entering(k)'
    <2>1. Own(loopback'[k]) => loopback'[k].name.pfx \in DataPfx
        BY <1>1 DEF Arrival, Arrivals
    <2>2. ASSUME ~Own(loopback'[k])
          PROVE  Entering(k)'
        <3>1. k \in DOMAIN loopback /\ loopback'[k] = loopback[k] /\ loopback[k].name # c.name
            BY <2>2 DEF Arrival
        <3>2. k = 1 /\ loopback[k] \in DebugChunks /\ ~S!IsStored(contents, loopback[k])
            BY <2>2, <3>1, <1>1 DEF Arrivals, Entering
        <3>3. ~S!IsStored(contents', loopback[k])
            BY <3>1, <3>2, <1>2 DEF S!IsStored
        <3> QED BY <3>1, <3>2, <3>3 DEF Entering, S!IsStored
    <2> QED BY <2>1, <2>2
<1>7. ASSUME manual', NEW k \in DOMAIN contents'
      PROVE  contents'[k].name \in Placed
    <2>1. CASE \E i \in DOMAIN contents : contents'[k].name = contents[i].name
        BY <2>1, <1>1, <1>3, <1>7 DEF Arrivals
    <2>2. CASE ~UNCHANGED storeVars /\ contents'[k].name = c.name
        <3>1. Own(c) \/ MayCache(c)
            BY <2>2, <1>1, ConsumerPrepares
        <3> QED BY <3>1, <2>2, <1>3, <1>7, InPlace
    <2> QED BY <2>1, <2>2, <1>2
<1>8. Own(datum)' /\ datum'.name.pfx \in DataPfx
    BY <1>1, <1>3 DEF Arrivals, Own
<1> QED BY <1>3, <1>5, <1>6, <1>7, <1>8 DEF Arrivals, Own

\* A reception keeps the flags in order and, with an ID set by hand, the newest
\* value of each name.
LEMMA ArrivalKeeps ==
    ASSUME PlacementFits, Placement, NEW c, Arrival(c)
    PROVE  /\ Sole(contents') /\ Crowned(contents')
           /\ manual => Keeps(contents, contents')
<1>1. TypeOK /\ Sole(contents) /\ Crowned(contents) /\ Arrivals
      /\ c \in Data /\ ccnlriot_consumer(c) /\ InTime(c) /\ contents \in Seq(Entries)
    BY DEF Placement, IInv, Arrival, TypeOK
<1>2. CASE UNCHANGED storeVars
    <2>1. contents' = contents
        BY <1>2 DEF storeVars
    <2>2. \A i \in DOMAIN contents : S!strtol(contents[i].ts) \in Nat
        BY <1>1, EntriesAt
    <2>3. Keeps(contents, contents')
        BY <2>1, <2>2 DEF Keeps
    <2> QED BY <1>1, <2>1, <2>3
<1>3. ASSUME NEW t, Prepared(t, c), ccnl_content_add2cache(t, Flagged(c)),
             Own(c) \/ MayCache(c)
      PROVE  /\ Sole(contents') /\ Crowned(contents')
             /\ manual => Keeps(contents, contents')
    <2> DEFINE e == Flagged(c)
    <2>1. /\ e \in Entries /\ e.name = c.name /\ e.ts = c.ts /\ e.user1
          /\ (Foreign(e) <=> Foreign(c))
        BY <1>1 DEF Flagged, Entries, Data, Foreign, Own
    <2>2. ccnl_content_add2cache(t, e)
        BY <1>3
    <2> HIDE DEF e
    <2>3. /\ t \in Seq(Entries) /\ Len(t) <= Cap /\ DOMAIN t = DOMAIN contents
          /\ \A i \in DOMAIN contents :
                t[i].name = contents[i].name /\ t[i].ts = contents[i].ts
          /\ Sole(t)
          /\ \A i \in DOMAIN t : t[i].name = e.name => ~t[i].user1
          /\ \A i \in DOMAIN t : Foreign(t[i]) /\ t[i].name # e.name => Crown(t, i)
        BY <1>3, <2>1 DEF Prepared
    <2>4. S!Younger(t, e) = {} /\ (Foreign(e) => ~S!IsStored(t, e))
        BY <1>3, <2>1 DEF Prepared, S!Younger, S!SameName, S!IsStored
    <2>5. Sole(contents')
        BY <2>1, <2>2, <2>3, AddSole
    <2>6. Crowned(contents')
        BY <2>1, <2>2, <2>3, <2>4, AddCrowned
    <2>7. ASSUME manual
          PROVE  Keeps(contents, contents')
        <3>1. e.name \in Placed
            BY <1>3, <2>1, <2>7, InPlace
        <3>2. \A i \in DOMAIN t : t[i].name \in Placed
            BY <1>1, <2>3, <2>7 DEF Arrivals
        <3>3. Keeps(t, contents')
            BY <3>1, <3>2, <2>1, <2>2, <2>3, <2>4, AddKeeps
        <3> QED BY <3>3, <2>3 DEF Keeps, Foreign, Own
    <2> QED BY <2>5, <2>6, <2>7
<1> QED BY <1>1, <1>2, <1>3, ConsumerPrepares

\* The manager and the shell change no more of the store than which entries are
\* recent.
LEMMA OtherArrivals ==
    ASSUME Placement,
           \/ Second \/ Beaconed \/ dow_new_data \/ Publish \/ Settled \/ BackToSleep
           \/ EndLoop \/ _start_dow \/ _stop_dow \/ _sub_prefix \/ _add_sensor
           \/ _debug_cache_date \/ Tick \/ UNCHANGED vars
    PROVE  /\ Arrivals' /\ Sole(contents') /\ Crowned(contents')
           /\ Keeps(contents, contents')
<1> USE DEF storeVars, shellVars, loopVars, managerLeaves, Receive, Continue
<1>1. /\ TypeOK /\ Arrivals /\ Sole(contents) /\ Crowned(contents)
      /\ contents \in Seq(Entries) /\ loopback \in Seq(Chunks)
    BY DEF Placement, IInv, TypeOK
<1>2. UNCHANGED heard
    BY DEF Second, Beaconed, dow_new_data, Publish, Settled, BackToSleep, EndLoop,
        _start_dow, _stop_dow, _sub_prefix, _add_sensor, _debug_cache_date, Tick, vars
<1>3. Kept(contents, contents')
    <2>1. CASE Beaconed
        BY <2>1, <1>1, ResetKeeps DEF Beaconed, Kept
    <2>2. CASE ~Beaconed
        <3>1. contents' = contents
            BY <2>2 DEF Second, dow_new_data, Publish, Settled, BackToSleep, EndLoop,
                _start_dow, _stop_dow, _sub_prefix, _add_sensor, _debug_cache_date, Tick, vars
        <3> QED BY <3>1 DEF Kept, Alike
    <2> QED BY <2>1, <2>2
<1>4. Sole(contents')
    BY <1>1, <1>3 DEF Kept, Alike, Sole
<1>5. Crowned(contents')
    <2> SUFFICES ASSUME NEW k \in DOMAIN contents', Foreign(contents'[k])
                 PROVE  Crown(contents', k)
        BY DEF Crowned
    <2>1. k \in DOMAIN contents /\ Alike(contents'[k], contents[k]) /\ Crown(contents, k)
        BY <1>1, <1>3 DEF Kept, Alike, Foreign, Own, Crowned
    <2> QED BY <2>1, <1>3 DEF Crown, Kept, Alike
<1>6. Keeps(contents, contents')
    <2>1. \A i \in DOMAIN contents : S!strtol(contents[i].ts) \in Nat
        BY <1>1, EntriesAt
    <2> QED BY <2>1, <1>3 DEF Keeps, Kept, Alike
<1>7. \A i \in DOMAIN contents' : Came(contents'[i], heard')
    BY <1>1, <1>2, <1>3
        DEF Kept, Alike, Arrivals, Came, Own, FromPeer, FromBeacon, FromUser
<1>8. \A i \in DOMAIN contents' :
        i \in DOMAIN contents /\ contents'[i].name = contents[i].name
    BY <1>3 DEF Kept, Alike
<1>9. \A x : S!IsStored(contents', x) <=> S!IsStored(contents, x)
    BY <1>3 DEF Kept, Alike, S!IsStored
<1>10. ASSUME UNCHANGED <<loopback, datum>>, pc' # "off" \/ UNCHANGED <<pc, contents>>,
              UNCHANGED manual \/ contents' = <<>>
       PROVE  Arrivals'
    <2>1. \A k \in DOMAIN loopback' : ~Own(loopback'[k]) => Entering(k)'
        BY <1>1, <1>9, <1>10 DEF Arrivals, Entering, S!IsStored
    <2>2. manual' => \A i \in DOMAIN contents' : contents'[i].name \in Placed
        <3>1. CASE contents' = <<>>
            BY <3>1
        <3>2. CASE UNCHANGED manual
            BY <3>2, <1>1, <1>8 DEF Arrivals
        <3> QED BY <3>1, <3>2, <1>10
    <2>3. /\ Own(datum)' /\ datum'.name.pfx \in DataPfx
          /\ \A k \in DOMAIN loopback' : Own(loopback'[k]) => loopback'[k].name.pfx \in DataPfx
          /\ pc' = "off" => contents' = <<>> /\ loopback' = <<>>
        BY <1>1, <1>10 DEF Arrivals, Own
    <2> QED BY <1>7, <2>1, <2>2, <2>3 DEF Arrivals, Own
<1>11. CASE \/ Second \/ Beaconed \/ Settled \/ BackToSleep \/ EndLoop \/ _start_dow
            \/ _stop_dow \/ _sub_prefix \/ _add_sensor \/ Tick \/ UNCHANGED vars
    <2>1. UNCHANGED <<loopback, datum>>
        BY <1>11 DEF Second, Beaconed, Settled, BackToSleep, EndLoop, _start_dow, _stop_dow,
            _sub_prefix, _add_sensor, Tick, vars
    <2>2. pc' # "off" \/ UNCHANGED <<pc, contents>>
        BY <1>11 DEF Second, Beaconed, Settled, BackToSleep, EndLoop, _start_dow, StartLoop,
            _stop_dow, _sub_prefix, _add_sensor, Tick, vars
    <2>3. UNCHANGED manual \/ contents' = <<>>
        <3>1. CASE _start_dow
            BY <3>1, <1>1 DEF _start_dow, Arrivals
        <3>2. CASE ~_start_dow
            BY <3>2, <1>11 DEF Second, Beaconed, Settled, BackToSleep, EndLoop, _stop_dow,
                _sub_prefix, _add_sensor, Tick, vars
        <3> QED BY <3>1, <3>2
    <2> QED BY <2>1, <2>2, <2>3, <1>4, <1>5, <1>6, <1>10
<1>12. CASE dow_new_data
    <2>1. PICK q \in S!DataPrefixes :
            datum' = [name |-> [pfx |-> q, src |-> Self], ts |-> clock]
        BY <1>12 DEF dow_new_data
    <2>2. q \in DataPfx
        <3>1. sensors \in Seq(PfxChars) /\ registered \in PfxChars \cup {None}
            BY <1>1 DEF TypeOK
        <3> QED BY <3>1 DEF S!DataPrefixes, S!ToSet, DataPfx
    <2>3. Own(datum)' /\ datum'.name.pfx \in DataPfx
        BY <2>1, <2>2 DEF Own
    <2>4. UNCHANGED <<contents, loopback, manual>> /\ pc' # "off"
        BY <1>12 DEF dow_new_data
    <2>5. \A k \in DOMAIN loopback' : ~Own(loopback'[k]) => Entering(k)'
        BY <1>1, <2>4 DEF Arrivals, Entering, S!IsStored
    <2>6. Arrivals'
        BY <1>1, <1>7, <2>3, <2>4, <2>5 DEF Arrivals, Own
    <2> QED BY <2>6, <1>4, <1>5, <1>6
<1>13. CASE Publish
    <2>1. /\ UNCHANGED <<contents, datum, manual>> /\ pc' # "off"
          /\ loopback' = Append(loopback, datum)
        BY <1>13 DEF Publish
    <2>2. \A k \in DOMAIN loopback' :
            \/ k \in DOMAIN loopback /\ loopback'[k] = loopback[k]
            \/ loopback'[k] = datum
        BY <1>1, <2>1
    <2>3. \A k \in DOMAIN loopback' : ~Own(loopback'[k]) => Entering(k)'
        BY <1>1, <2>1, <2>2 DEF Arrivals, Entering, S!IsStored
    <2>4. \A k \in DOMAIN loopback' : Own(loopback'[k]) => loopback'[k].name.pfx \in DataPfx
        BY <1>1, <2>2 DEF Arrivals
    <2>5. Arrivals'
        BY <1>1, <1>7, <2>1, <2>3, <2>4 DEF Arrivals, Own
    <2> QED BY <2>5, <1>4, <1>5, <1>6
<1>14. CASE _debug_cache_date
    <2>1. PICK c \in DebugChunks : loopback' = <<c>> /\ ~S!IsStored(contents, c)
        BY <1>14 DEF _debug_cache_date
    <2>2. UNCHANGED <<contents, datum, manual, pc>> /\ pc # "off"
        BY <1>14 DEF _debug_cache_date
    <2>3. \A k \in DOMAIN loopback' : k = 1 /\ loopback'[k] = c
        BY <2>1
    <2>4. ~Own(c)
        BY UserEnters DEF Own
    <2>5. \A k \in DOMAIN loopback' : Entering(k)'
        BY <2>1, <2>2, <2>3 DEF Entering, S!IsStored
    <2>6. Arrivals'
        BY <1>1, <1>7, <2>2, <2>3, <2>4, <2>5 DEF Arrivals, Own
    <2> QED BY <2>6, <1>4, <1>5, <1>6
<1> QED BY <1>11, <1>12, <1>13, <1>14

\* The newest value of a name is found where one is stored.
LEMMA NewestIsStored ==
    ASSUME NEW s \in Seq(Entries), NEW n, S!SameName(s, n) # {}
    PROVE  \E i \in S!SameName(s, n) :
                /\ S!Newest(s, n) = S!strtol(s[i].ts)
                /\ \A j \in S!SameName(s, n) : S!strtol(s[j].ts) <= S!strtol(s[i].ts)
<1>1. \A i \in S!SameName(s, n) : S!strtol(s[i].ts) \in Nat /\ S!strtol(s[i].ts) <= LongMax
    <2> TAKE i \in S!SameName(s, n)
    <2>1. s[i].ts \in Nat
        BY EntriesAt DEF S!SameName
    <2>2. \A m \in 0..LongMax : m \in Nat /\ m <= LongMax
        BY ConstantsAssumption
    <2> QED BY <2>1, <2>2, StrtolOrder
<1> DEFINE V == {LongMax - S!strtol(s[i].ts) : i \in S!SameName(s, n)}
<1>2. PICK d \in V : \A u \in V : d <= u
    <2>1. V \in SUBSET Nat /\ V # {}
        BY <1>1, ConstantsAssumption
    <2> HIDE DEF V
    <2> QED BY <2>1, LeastNatural
<1>3. PICK i \in S!SameName(s, n) : d = LongMax - S!strtol(s[i].ts)
    BY <1>2
<1>4. \A j \in S!SameName(s, n) : S!strtol(s[j].ts) <= S!strtol(s[i].ts)
    <2>1. \A j \in S!SameName(s, n) :
            LongMax - S!strtol(s[i].ts) <= LongMax - S!strtol(s[j].ts)
        BY <1>2, <1>3
    <2> QED BY <2>1, <1>1, ConstantsAssumption
<1> DEFINE T == {S!strtol(s[j].ts) : j \in S!SameName(s, n)}
           Top(t) == \A j \in S!SameName(s, n) : S!strtol(s[j].ts) <= t
<1>5. S!Newest(s, n) = CHOOSE t \in T : Top(t)
    BY DEF S!Newest
<1>6. S!strtol(s[i].ts) \in T /\ Top(S!strtol(s[i].ts))
    BY <1>4
<1>7. S!Newest(s, n) \in T /\ Top(S!Newest(s, n))
    <2> HIDE DEF T, Top
    <2> QED BY <1>5, <1>6
<1> QED BY <1>7

\* What keeps a value of each name keeps the names, and their newest values.
LEMMA KeptIsNewest ==
    ASSUME NEW s \in Seq(Entries), NEW x \in Seq(Entries), Keeps(s, x), NEW n \in DataNames(s)
    PROVE  n \in DataNames(x) /\ S!Newest(x, n) >= S!Newest(s, n)
<1>1. n \in S!Names /\ n.src # Self /\ n.pfx # Beacon /\ S!SameName(s, n) # {}
    BY DEF DataNames, S!ForeignNames
<1>2. PICK i \in S!SameName(s, n) : S!Newest(s, n) = S!strtol(s[i].ts)
    BY <1>1, NewestIsStored
<1>3. i \in DOMAIN s /\ s[i].name = n
    BY DEF S!SameName
<1>4. PICK k \in DOMAIN x : x[k].name = n /\ S!strtol(s[i].ts) <= S!strtol(x[k].ts)
    BY <1>1, <1>3 DEF Keeps, Foreign, Own
<1>5. k \in S!SameName(x, n)
    BY <1>4 DEF S!SameName
<1>6. PICK l \in S!SameName(x, n) :
        S!Newest(x, n) = S!strtol(x[l].ts) /\ S!strtol(x[k].ts) <= S!strtol(x[l].ts)
    BY <1>5, NewestIsStored
<1>7. S!strtol(s[i].ts) \in Nat /\ S!strtol(x[k].ts) \in Nat /\ S!strtol(x[l].ts) \in Nat
    BY <1>3, EntriesAt DEF S!SameName
<1>8. n \in DataNames(x)
    BY <1>1, <1>5 DEF DataNames, S!ForeignNames
<1> QED BY <1>2, <1>4, <1>6, <1>7, <1>8

\* A step keeps the invariant and, with an ID set by hand, the newest value of
\* every name of another node.
LEMMA StepKeeps ==
    ASSUME PlacementFits, Placement, [Next]_vars
    PROVE  /\ Arrivals' /\ Sole(contents') /\ Crowned(contents')
           /\ manual => Keeps(contents, contents')
<1>1. CASE ReceiveOwn \/ ReceiveBroadcast \/ ReceiveBeacon
    <2>1. PICK c : Arrival(c)
        BY <1>1, OwnArrives, BroadcastArrives, BeaconArrives
    <2> QED BY <2>1, ArrivalsStay, ArrivalKeeps
<1>2. CASE ~(ReceiveOwn \/ ReceiveBroadcast \/ ReceiveBeacon)
    BY <1>2, OtherArrivals DEF Next
<1> QED BY <1>1, <1>2

\* The hardwired placement works for every instance that it is laid out for: a
\* node whose ID was set by hand never gives up the newest value it has of any
\* name, as long as there is an entry for each name it is responsible for.
THEOREM NewestIsKept ==
    ASSUME PlacementFits
    PROVE  Spec => KeepsNewest
<1> DEFINE Kind == Arrivals /\ Sole(contents) /\ Crowned(contents)
           Steps == manual => \A n \in DataNames(contents) :
                        /\ n \in DataNames(contents')
                        /\ S!Newest(contents', n) >= S!Newest(contents, n)
<1>1. Init => IInv /\ Kind
    <2> SUFFICES ASSUME Init PROVE IInv /\ Kind
        OBVIOUS
    <2>1. IInv
        BY InitTypes DEF Init, IInv, Dated, OwnInOrder, Shields
    <2>2. Own(datum) /\ datum.name.pfx \in DataPfx
        BY DEF Init, NoDatum, Own, DataPfx
    <2>3. DOMAIN contents = {} /\ DOMAIN loopback = {} /\ ~manual
        BY DEF Init
    <2>4. Arrivals
        BY <2>2, <2>3 DEF Init, Arrivals
    <2> QED BY <2>1, <2>3, <2>4 DEF Sole, Crowned
<1>2. IInv /\ Kind /\ [Next]_vars => Kind'
    BY StepKeeps DEF Placement
<1>3. IInv /\ Kind /\ TypeOK' /\ [Next]_vars => [Steps]_vars
    <2> SUFFICES ASSUME IInv, Kind, TypeOK', [Next]_vars, manual
                 PROVE  \A n \in DataNames(contents) :
                            /\ n \in DataNames(contents')
                            /\ S!Newest(contents', n) >= S!Newest(contents, n)
        OBVIOUS
    <2>1. Keeps(contents, contents')
        BY StepKeeps DEF Placement
    <2>2. contents \in Seq(Entries) /\ contents' \in Seq(Entries)
        BY DEF IInv, TypeOK
    <2> QED BY <2>1, <2>2, KeptIsNewest
<1>4. Spec => []IInv
    BY OwnOrdered
<1> HIDE DEF Kind
<1> QED BY <1>1, <1>2, <1>3, <1>4, TypeCorrect, PTL DEF Spec, KeepsNewest

=============================================================================
