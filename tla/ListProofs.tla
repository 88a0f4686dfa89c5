---------------------------- MODULE ListProofs -----------------------------
(***************************************************************************)
(* Proofs about include/list.h: the circular lists (ListRing) and the      *)
(* hlists (HListRing), as module Lists composes them.                      *)
(*                                                                         *)
(* The pointers are read as words, sequences of objects in which none      *)
(* occurs twice.  A circular list is a ring: its head followed by its      *)
(* entries is a chain whose ends are tied.  A ring may be read from any of *)
(* its objects, so whatever a call does is done at the end of some reading *)
(* of it: the call is a change of one tie, however close its arguments lie *)
(* to each other or to the head.  An hlist is a line: a chain that ends in *)
(* NULL and keeps, of each object, the address of the pointer in it.       *)
(***************************************************************************)
EXTENDS Lists, SequenceTheorems, TLAPS

(* The list heads and entries in memory.                                   *)
Object == ListHead \cup Node

-----------------------------------------------------------------------------
(* Words: the objects one meets along the pointers, none of them twice.    *)
In(w) == {w[i] : i \in 1..Len(w)}

Start(w) == w[1]

End(w) == w[Len(w)]

Word(w) == /\ w \in Seq(Object)
           /\ w # <<>>
           /\ \A i, j \in 1..Len(w) : w[i] = w[j] => i = j

(* The word of a single object.                                            *)
One(n) == <<n>>

(* What is known of every word.                                            *)
LEMMA WordFacts ==
  ASSUME NEW w, Word(w)
  PROVE  /\ w \in Seq(Object) /\ Len(w) \in Nat /\ Len(w) >= 1
         /\ 1 \in 1..Len(w) /\ Len(w) \in 1..Len(w)
         /\ Start(w) \in In(w) /\ End(w) \in In(w)
         /\ In(w) \subseteq Object
         /\ \A i, j \in 1..Len(w) : w[i] = w[j] => i = j
<1>1. /\ w \in Seq(Object) /\ Len(w) \in Nat /\ Len(w) >= 1
      /\ 1 \in 1..Len(w) /\ Len(w) \in 1..Len(w)
      /\ \A i \in 1..Len(w) : w[i] \in Object
  BY EmptySeq, LenProperties DEF Word
<1>2. QED
  BY <1>1 DEF Word, In, Start, End

LEMMA OneObject ==
  ASSUME NEW n \in Object
  PROVE  /\ Word(One(n)) /\ In(One(n)) = {n}
         /\ Start(One(n)) = n /\ End(One(n)) = n
         /\ One(n) \in Seq(Object) /\ Len(One(n)) = 1 /\ One(n) # <<>>
<1> DEFINE w == One(n)
<1>1. w \in Seq(Object) /\ Len(w) = 1 /\ w[1] = n /\ w # <<>>
  BY DEF One
<1> HIDE DEF w
<1>2. \A i \in 1..Len(w) : i = 1
  BY <1>1
<1>3. Word(w) /\ In(w) = {n} /\ Start(w) = n /\ End(w) = n
  BY <1>1, <1>2 DEF Word, In, Start, End
<1>4. QED
  BY <1>1, <1>3 DEF w

(* The positions of a concatenation.                                       *)
LEMMA Joined ==
  ASSUME NEW S, NEW u \in Seq(S), NEW v \in Seq(S)
  PROVE  /\ u \o v \in Seq(S)
         /\ Len(u) \in Nat /\ Len(v) \in Nat
         /\ Len(u \o v) = Len(u) + Len(v)
         /\ \A i \in 1..Len(u) : i \in 1..Len(u \o v) /\ (u \o v)[i] = u[i]
         /\ \A i \in 1..Len(v) : /\ Len(u) + i \in 1..Len(u \o v)
                                 /\ (u \o v)[Len(u) + i] = v[i]
         /\ \A i \in 1..Len(u \o v) :
              i \in 1..Len(u) \/ (i - Len(u) \in 1..Len(v) /\ (u \o v)[i] = v[i - Len(u)])
<1>1. /\ u \o v \in Seq(S) /\ Len(u) \in Nat /\ Len(v) \in Nat
      /\ Len(u \o v) = Len(u) + Len(v)
      /\ \A i \in 1..(Len(u) + Len(v)) :
           (u \o v)[i] = IF i <= Len(u) THEN u[i] ELSE v[i - Len(u)]
  BY ConcatProperties, LenProperties
<1>2. QED
  BY <1>1

LEMMA JoinedIn ==
  ASSUME NEW S, NEW u \in Seq(S), NEW v \in Seq(S)
  PROVE  In(u \o v) = In(u) \cup In(v)
<1>1. ASSUME NEW r \in In(u \o v) PROVE r \in In(u) \cup In(v)
  BY Joined DEF In
<1>2. ASSUME NEW r \in In(u) PROVE r \in In(u \o v)
  <2>1. PICK i \in 1..Len(u) : r = u[i]
    BY DEF In
  <2>2. i \in 1..Len(u \o v) /\ (u \o v)[i] = u[i]
    BY Joined
  <2>3. QED
    BY <2>1, <2>2 DEF In
<1>3. ASSUME NEW r \in In(v) PROVE r \in In(u \o v)
  <2>1. PICK i \in 1..Len(v) : r = v[i]
    BY DEF In
  <2>2. Len(u) + i \in 1..Len(u \o v) /\ (u \o v)[Len(u) + i] = v[i]
    BY Joined
  <2>3. QED
    BY <2>1, <2>2 DEF In
<1>4. QED
  BY <1>1, <1>2, <1>3

LEMMA JoinedEnds ==
  ASSUME NEW u \in Seq(Object), NEW v \in Seq(Object)
  PROVE  /\ u # <<>> => Start(u \o v) = Start(u)
         /\ v # <<>> => End(u \o v) = End(v)
<1>1. /\ Len(u) \in Nat /\ Len(v) \in Nat /\ Len(u \o v) = Len(u) + Len(v)
      /\ \A i \in 1..Len(u) : (u \o v)[i] = u[i]
      /\ \A i \in 1..Len(v) : (u \o v)[Len(u) + i] = v[i]
  BY Joined
<1>2. ASSUME u # <<>> PROVE Start(u \o v) = Start(u)
  <2>1. 1 \in 1..Len(u)
    BY <1>1, <1>2, EmptySeq
  <2>2. QED
    BY <1>1, <2>1 DEF Start
<1>3. ASSUME v # <<>> PROVE End(u \o v) = End(v)
  <2>1. Len(v) \in 1..Len(v)
    BY <1>1, <1>3, EmptySeq
  <2>2. QED
    BY <1>1, <2>1 DEF End
<1>4. QED
  BY <1>2, <1>3

(* Two words that share no object make one, ...                            *)
LEMMA JoinWords ==
  ASSUME NEW u, NEW v, Word(u), Word(v), In(u) \cap In(v) = {}
  PROVE  /\ Word(u \o v)
         /\ In(u \o v) = In(u) \cup In(v)
         /\ Start(u \o v) = Start(u)
         /\ End(u \o v) = End(v)
<1>1. u \in Seq(Object) /\ v \in Seq(Object) /\ Len(u) >= 1 /\ Len(v) >= 1
  BY WordFacts
<1>2. /\ u \o v \in Seq(Object) /\ Len(u) \in Nat /\ Len(v) \in Nat
      /\ Len(u \o v) = Len(u) + Len(v)
      /\ \A i \in 1..Len(u) : i \in 1..Len(u \o v) /\ (u \o v)[i] = u[i]
      /\ \A i \in 1..Len(v) : Len(u) + i \in 1..Len(u \o v) /\ (u \o v)[Len(u) + i] = v[i]
      /\ \A i \in 1..Len(u \o v) :
           i \in 1..Len(u) \/ (i - Len(u) \in 1..Len(v) /\ (u \o v)[i] = v[i - Len(u)])
  BY <1>1, Joined
<1>3. ASSUME NEW i \in 1..Len(u \o v), NEW j \in 1..Len(u \o v), (u \o v)[i] = (u \o v)[j]
      PROVE  i = j
  <2>1. CASE i \in 1..Len(u) /\ j \in 1..Len(u)
    BY <1>2, <1>3, <2>1, WordFacts
  <2>2. CASE i \in 1..Len(u) /\ j \notin 1..Len(u)
    <3>1. u[i] \in In(u) /\ v[j - Len(u)] \in In(v) /\ u[i] = v[j - Len(u)]
      BY <1>2, <1>3, <2>2 DEF In
    <3>2. QED
      BY <3>1
  <2>3. CASE i \notin 1..Len(u) /\ j \in 1..Len(u)
    <3>1. u[j] \in In(u) /\ v[i - Len(u)] \in In(v) /\ u[j] = v[i - Len(u)]
      BY <1>2, <1>3, <2>3 DEF In
    <3>2. QED
      BY <3>1
  <2>4. CASE i \notin 1..Len(u) /\ j \notin 1..Len(u)
    <3>1. i - Len(u) \in 1..Len(v) /\ j - Len(u) \in 1..Len(v) /\ v[i - Len(u)] = v[j - Len(u)]
      BY <1>2, <1>3, <2>4
    <3>2. i - Len(u) = j - Len(u)
      BY <3>1, WordFacts
    <3>3. QED
      BY <1>2, <3>2
  <2>5. QED
    BY <2>1, <2>2, <2>3, <2>4
<1>4. Word(u \o v)
  <2>1. u \o v # <<>>
    BY <1>1, <1>2, EmptySeq
  <2>2. QED
    BY <1>2, <1>3, <2>1 DEF Word
<1>5. Start(u \o v) = Start(u) /\ End(u \o v) = End(v)
  <2>1. 1 \in 1..Len(u) /\ Len(v) \in 1..Len(v)
    BY <1>1, <1>2
  <2>2. QED
    BY <1>2, <2>1 DEF Start, End
<1>6. QED
  BY <1>1, <1>4, <1>5, JoinedIn

(* ... and a word can be taken apart anywhere.                             *)
LEMMA SplitWord ==
  ASSUME NEW u \in Seq(Object), NEW v \in Seq(Object), Word(u \o v), u # <<>>, v # <<>>
  PROVE  Word(u) /\ Word(v) /\ In(u) \cap In(v) = {}
<1>2. /\ u \o v \in Seq(Object) /\ Len(u) \in Nat /\ Len(v) \in Nat
      /\ Len(u \o v) = Len(u) + Len(v)
      /\ \A i \in 1..Len(u) : i \in 1..Len(u \o v) /\ (u \o v)[i] = u[i]
      /\ \A i \in 1..Len(v) : Len(u) + i \in 1..Len(u \o v) /\ (u \o v)[Len(u) + i] = v[i]
  BY Joined
<1>3. \A i, j \in 1..Len(u \o v) : (u \o v)[i] = (u \o v)[j] => i = j
  BY DEF Word
<1>4. Word(u)
  BY <1>2, <1>3 DEF Word
<1>5. Word(v)
  <2>1. ASSUME NEW i \in 1..Len(v), NEW j \in 1..Len(v), v[i] = v[j]
        PROVE  i = j
    <3>1. Len(u) + i = Len(u) + j
      BY <1>2, <1>3, <2>1
    <3>2. QED
      BY <1>2, <3>1
  <2>2. QED
    BY <2>1 DEF Word
<1>6. In(u) \cap In(v) = {}
  <2>1. ASSUME NEW i \in 1..Len(u), NEW j \in 1..Len(v), u[i] = v[j]
        PROVE  FALSE
    <3>1. i = Len(u) + j
      BY <1>2, <1>3, <2>1
    <3>2. QED
      BY <1>2, <3>1
  <2>2. QED
    BY <2>1 DEF In
<1>7. QED
  BY <1>4, <1>5, <1>6

-----------------------------------------------------------------------------
(* Chains: the pointers lead along a word, and back.  What a pointer back  *)
(* holds is the address ad[p] of the object p it leads to: for circular    *)
(* lists, p itself; for hlists, the pointer in p.                          *)
Linked(nx, pv, ad, p, q) == nx[p] = q /\ pv[q] = ad[p]

Chain(nx, pv, ad, w) ==
    /\ Word(w)
    /\ \A i \in 1..(Len(w) - 1) : Linked(nx, pv, ad, w[i], w[i + 1])

LEMMA OneChain ==
  ASSUME NEW nx, NEW pv, NEW ad, NEW n \in Object
  PROVE  Chain(nx, pv, ad, One(n))
<1>1. Len(One(n)) = 1 /\ Word(One(n))
  BY OneObject
<1>2. 1..(Len(One(n)) - 1) = {}
  BY <1>1
<1>3. QED
  BY <1>1, <1>2 DEF Chain

LEMMA JoinChains ==
  ASSUME NEW nx, NEW pv, NEW ad, NEW u, NEW v,
         Chain(nx, pv, ad, u), Chain(nx, pv, ad, v), In(u) \cap In(v) = {},
         Linked(nx, pv, ad, End(u), Start(v))
  PROVE  Chain(nx, pv, ad, u \o v)
<1>1. Word(u) /\ Word(v)
  BY DEF Chain
<1>2. /\ u \o v \in Seq(Object) /\ Len(u) \in Nat /\ Len(v) \in Nat
      /\ Len(u) >= 1 /\ Len(v) >= 1
      /\ Len(u \o v) = Len(u) + Len(v)
      /\ \A i \in 1..Len(u) : i \in 1..Len(u \o v) /\ (u \o v)[i] = u[i]
      /\ \A i \in 1..Len(v) : Len(u) + i \in 1..Len(u \o v) /\ (u \o v)[Len(u) + i] = v[i]
  BY <1>1, WordFacts, Joined
<1>3. ASSUME NEW i \in 1..(Len(u \o v) - 1)
      PROVE  Linked(nx, pv, ad, (u \o v)[i], (u \o v)[i + 1])
  <2>1. CASE i < Len(u)
    <3>1. i \in 1..(Len(u) - 1) /\ i \in 1..Len(u) /\ i + 1 \in 1..Len(u)
      BY <1>2, <2>1
    <3>2. Linked(nx, pv, ad, u[i], u[i + 1])
      BY <3>1 DEF Chain
    <3>3. QED
      BY <1>2, <3>1, <3>2
  <2>2. CASE i = Len(u)
    <3>1. i \in 1..Len(u) /\ 1 \in 1..Len(v)
      BY <1>2, <2>2
    <3>2. (u \o v)[i] = End(u) /\ (u \o v)[i + 1] = Start(v)
      BY <1>2, <2>2, <3>1 DEF End, Start
    <3>3. QED
      BY <3>2
  <2>3. CASE i > Len(u)
    <3>1. PICK k \in Int : k = i - Len(u)
      BY <1>2
    <3>2. /\ k \in 1..(Len(v) - 1) /\ k \in 1..Len(v) /\ k + 1 \in 1..Len(v)
          /\ i = Len(u) + k /\ i + 1 = Len(u) + (k + 1)
      BY <1>2, <2>3, <3>1
    <3>3. Linked(nx, pv, ad, v[k], v[k + 1])
      BY <3>2 DEF Chain
    <3>4. (u \o v)[i] = v[k] /\ (u \o v)[i + 1] = v[k + 1]
      BY <1>2, <3>2
    <3>5. QED
      BY <3>3, <3>4
  <2>4. QED
    BY <1>2, <2>1, <2>2, <2>3
<1>4. QED
  BY <1>1, <1>3, JoinWords DEF Chain

LEMMA SplitChain ==
  ASSUME NEW nx, NEW pv, NEW ad, NEW u \in Seq(Object), NEW v \in Seq(Object),
         Chain(nx, pv, ad, u \o v), u # <<>>, v # <<>>
  PROVE  /\ Chain(nx, pv, ad, u) /\ Chain(nx, pv, ad, v)
         /\ In(u) \cap In(v) = {}
         /\ Linked(nx, pv, ad, End(u), Start(v))
<1>1. Word(u) /\ Word(v) /\ In(u) \cap In(v) = {}
  BY SplitWord DEF Chain
<1>2. /\ Len(u) \in Nat /\ Len(v) \in Nat
      /\ Len(u) >= 1 /\ Len(v) >= 1
      /\ Len(u \o v) = Len(u) + Len(v)
      /\ \A i \in 1..Len(u) : i \in 1..Len(u \o v) /\ (u \o v)[i] = u[i]
      /\ \A i \in 1..Len(v) : Len(u) + i \in 1..Len(u \o v) /\ (u \o v)[Len(u) + i] = v[i]
  BY <1>1, WordFacts, Joined
<1>3. \A i \in 1..(Len(u \o v) - 1) : Linked(nx, pv, ad, (u \o v)[i], (u \o v)[i + 1])
  BY DEF Chain
<1>4. ASSUME NEW i \in 1..(Len(u) - 1)
      PROVE  Linked(nx, pv, ad, u[i], u[i + 1])
  <2>1. i \in 1..(Len(u \o v) - 1) /\ i \in 1..Len(u) /\ i + 1 \in 1..Len(u)
    BY <1>2
  <2>2. QED
    BY <1>2, <1>3, <2>1
<1>5. ASSUME NEW i \in 1..(Len(v) - 1)
      PROVE  Linked(nx, pv, ad, v[i], v[i + 1])
  <2>1. /\ Len(u) + i \in 1..(Len(u \o v) - 1) /\ i \in 1..Len(v) /\ i + 1 \in 1..Len(v)
        /\ (Len(u) + i) + 1 = Len(u) + (i + 1)
    BY <1>2
  <2>2. QED
    BY <1>2, <1>3, <2>1
<1>6. Linked(nx, pv, ad, End(u), Start(v))
  <2>1. /\ Len(u) \in 1..(Len(u \o v) - 1) /\ Len(u) \in 1..Len(u) /\ 1 \in 1..Len(v)
    BY <1>2
  <2>2. QED
    BY <1>2, <1>3, <2>1 DEF End, Start
<1>7. QED
  BY <1>1, <1>4, <1>5, <1>6 DEF Chain

(* A chain does not depend on the pointer out of its end and on the one    *)
(* back from its start.                                                    *)
LEMMA ChainKept ==
  ASSUME NEW nx, NEW pv, NEW ad, NEW w, Chain(nx, pv, ad, w), NEW nx2, NEW pv2,
         \A r \in In(w) : r # End(w) => nx2[r] = nx[r],
         \A r \in In(w) : r # Start(w) => pv2[r] = pv[r]
  PROVE  Chain(nx2, pv2, ad, w)
<1>1. /\ Len(w) \in Nat /\ Len(w) >= 1
      /\ 1 \in 1..Len(w) /\ Len(w) \in 1..Len(w)
      /\ \A i, j \in 1..Len(w) : w[i] = w[j] => i = j
  BY WordFacts DEF Chain
<1>2. ASSUME NEW i \in 1..(Len(w) - 1)
      PROVE  Linked(nx2, pv2, ad, w[i], w[i + 1])
  <2>1. /\ i \in 1..Len(w) /\ i + 1 \in 1..Len(w) /\ i # Len(w) /\ i + 1 # 1
    BY <1>1
  <2>2. w[i] \in In(w) /\ w[i] # End(w) /\ w[i + 1] \in In(w) /\ w[i + 1] # Start(w)
    BY <1>1, <2>1 DEF In, End, Start
  <2>3. Linked(nx, pv, ad, w[i], w[i + 1])
    BY DEF Chain
  <2>4. QED
    BY <2>2, <2>3 DEF Linked
<1>3. QED
  BY <1>2 DEF Chain

-----------------------------------------------------------------------------
(* Rings: a chain whose end leads to its start.                            *)
Self == [p \in Object |-> p]

Strand(h, w) == Chain(h.next, h.prev, Self, w)

Tied(h, p, q) == h.next[p] = q /\ h.prev[q] = p

Ring(h, w) == Strand(h, w) /\ Tied(h, End(w), Start(w))

LEMMA TiedIsLinked ==
  ASSUME NEW h, NEW p \in Object, NEW q
  PROVE  Linked(h.next, h.prev, Self, p, q) <=> Tied(h, p, q)
  BY DEF Linked, Tied, Self

LEMMA StrandFacts ==
  ASSUME NEW h, NEW w, Strand(h, w)
  PROVE  /\ Word(w) /\ w \in Seq(Object) /\ w # <<>>
         /\ Start(w) \in In(w) /\ End(w) \in In(w) /\ In(w) \subseteq Object
  BY WordFacts DEF Strand, Chain, Word

LEMMA OneStrand ==
  ASSUME NEW h, NEW n \in Object
  PROVE  Strand(h, One(n))
  BY OneChain DEF Strand

LEMMA JoinStrands ==
  ASSUME NEW h, NEW u, NEW v, Strand(h, u), Strand(h, v), In(u) \cap In(v) = {},
         Tied(h, End(u), Start(v))
  PROVE  /\ Strand(h, u \o v)
         /\ In(u \o v) = In(u) \cup In(v)
         /\ Start(u \o v) = Start(u) /\ End(u \o v) = End(v)
<1>1. End(u) \in Object /\ Word(u) /\ Word(v)
  BY StrandFacts
<1>2. Linked(h.next, h.prev, Self, End(u), Start(v))
  BY <1>1, TiedIsLinked
<1>3. QED
  BY <1>1, <1>2, JoinChains, JoinWords DEF Strand

LEMMA SplitStrand ==
  ASSUME NEW h, NEW u \in Seq(Object), NEW v \in Seq(Object),
         Strand(h, u \o v), u # <<>>, v # <<>>
  PROVE  /\ Strand(h, u) /\ Strand(h, v)
         /\ In(u) \cap In(v) = {}
         /\ In(u \o v) = In(u) \cup In(v)
         /\ Tied(h, End(u), Start(v))
         /\ Start(u \o v) = Start(u) /\ End(u \o v) = End(v)
<1>1. /\ Chain(h.next, h.prev, Self, u) /\ Chain(h.next, h.prev, Self, v)
      /\ In(u) \cap In(v) = {}
      /\ Linked(h.next, h.prev, Self, End(u), Start(v))
  BY SplitChain DEF Strand
<1>2. Word(u) /\ Word(v) /\ End(u) \in Object
  BY <1>1, WordFacts DEF Chain
<1>3. Tied(h, End(u), Start(v))
  BY <1>1, <1>2, TiedIsLinked
<1>4. QED
  BY <1>1, <1>2, <1>3, JoinWords DEF Strand

LEMMA StrandKept ==
  ASSUME NEW h, NEW w, Strand(h, w), NEW g,
         \A r \in In(w) : r # End(w) => g.next[r] = h.next[r],
         \A r \in In(w) : r # Start(w) => g.prev[r] = h.prev[r]
  PROVE  Strand(g, w)
  BY ChainKept DEF Strand

LEMMA RingKept ==
  ASSUME NEW h, NEW w, Ring(h, w), NEW g,
         \A r \in In(w) : g.next[r] = h.next[r] /\ g.prev[r] = h.prev[r]
  PROVE  Ring(g, w)
<1>1. Start(w) \in In(w) /\ End(w) \in In(w)
  BY StrandFacts DEF Ring
<1>2. QED
  BY <1>1, StrandKept DEF Ring, Tied

(* Two strands that lead into each other are a ring, ...                   *)
LEMMA TieRing ==
  ASSUME NEW h, NEW u, NEW v, Strand(h, u), Strand(h, v), In(u) \cap In(v) = {},
         Tied(h, End(u), Start(v)), Tied(h, End(v), Start(u))
  PROVE  Ring(h, u \o v)
  BY JoinStrands DEF Ring

(* ... a ring can be taken apart anywhere, ...                             *)
LEMMA CutRing ==
  ASSUME NEW h, NEW u \in Seq(Object), NEW v \in Seq(Object),
         Ring(h, u \o v), u # <<>>, v # <<>>
  PROVE  /\ Strand(h, u) /\ Strand(h, v) /\ In(u) \cap In(v) = {}
         /\ In(u \o v) = In(u) \cup In(v)
         /\ Tied(h, End(u), Start(v)) /\ Tied(h, End(v), Start(u))
  BY SplitStrand DEF Ring

LEMMA CutOne ==
  ASSUME NEW h, NEW w \in Seq(Object), w # <<>>, NEW n \in Object, Ring(h, w \o One(n))
  PROVE  /\ Strand(h, w) /\ n \notin In(w)
         /\ Tied(h, End(w), n) /\ Tied(h, n, Start(w))
<1>1. One(n) \in Seq(Object) /\ One(n) # <<>>
  BY OneObject
<1>2. /\ Strand(h, w) /\ In(w) \cap In(One(n)) = {}
      /\ Tied(h, End(w), Start(One(n))) /\ Tied(h, End(One(n)), Start(w))
  BY <1>1, CutRing
<1>3. QED
  BY <1>2, OneObject

LEMMA TieOne ==
  ASSUME NEW h, NEW w, Strand(h, w), NEW n \in Object, n \notin In(w),
         Tied(h, End(w), n), Tied(h, n, Start(w))
  PROVE  Ring(h, w \o One(n))
<1>1. Strand(h, One(n)) /\ In(w) \cap In(One(n)) = {}
  BY OneStrand, OneObject
<1>2. Tied(h, End(w), Start(One(n))) /\ Tied(h, End(One(n)), Start(w))
  BY OneObject
<1>3. QED
  BY <1>1, <1>2, TieRing

(* ... and it has no beginning: any of its objects may be called first.    *)
LEMMA TurnRing ==
  ASSUME NEW h, NEW u \in Seq(Object), NEW v \in Seq(Object), Ring(h, u \o v)
  PROVE  Ring(h, v \o u)
<1>1. CASE u = <<>>
  <2>1. u \o v = v /\ v \o u = v
    BY <1>1, ConcatEmptySeq
  <2>2. QED
    BY <2>1
<1>2. CASE v = <<>>
  <2>1. u \o v = u /\ v \o u = u
    BY <1>2, ConcatEmptySeq
  <2>2. QED
    BY <2>1
<1>3. CASE u # <<>> /\ v # <<>>
  <2>1. /\ Strand(h, u) /\ Strand(h, v) /\ In(v) \cap In(u) = {}
        /\ Tied(h, End(u), Start(v)) /\ Tied(h, End(v), Start(u))
    BY <1>3, CutRing
  <2>2. QED
    BY <2>1, TieRing
<1>4. QED
  BY <1>1, <1>2, <1>3

(* A strand that is put between the end and the start of a ring.           *)
LEMMA LinkIn ==
  ASSUME NEW h, NEW g, NEW w, NEW f, Ring(h, w), Strand(h, f), In(w) \cap In(f) = {},
         Tied(g, End(w), Start(f)), Tied(g, End(f), Start(w)),
         \A r \in In(w) : r # End(w) => g.next[r] = h.next[r],
         \A r \in In(w) : r # Start(w) => g.prev[r] = h.prev[r],
         \A r \in In(f) : r # End(f) => g.next[r] = h.next[r],
         \A r \in In(f) : r # Start(f) => g.prev[r] = h.prev[r]
  PROVE  Ring(g, w \o f)
<1>1. Strand(g, w) /\ Strand(g, f)
  BY StrandKept DEF Ring
<1>2. QED
  BY <1>1, TieRing

-----------------------------------------------------------------------------
(* The pointers of all objects but those of T are what they were.          *)
NextKept(h, g, T) == \A r \in Object : r \notin T => g.next[r] = h.next[r]

PrevKept(h, g, T) == \A r \in Object : r \notin T => g.prev[r] = h.prev[r]

Pointer == Object \cup {R!NULL, R!LIST_POISON1, R!LIST_POISON2}

Heap == [next : [Object -> Pointer], prev : [Object -> Pointer]]

Apart(l) == \A x, y \in ListHead : x # y => In(l[x]) \cap In(l[y]) = {}

Spare(l) == {n \in Node : \A x \in ListHead : n \notin In(l[x])}

(* The invariant of the circular lists: the pointers of each head make a   *)
(* ring with the entries the contract puts on it, and no entry is on two   *)
(* lists.                                                                  *)
RingState(h, l) ==
    /\ h \in Heap
    /\ l \in [ListHead -> Seq(Node)]
    /\ \A x \in ListHead : Ring(h, One(x) \o l[x])
    /\ Apart(l)

LEMMA NodeWords ==
  /\ \A s \in Seq(Node) : s \in Seq(Object) /\ In(s) \subseteq Node
  /\ \A x \in ListHead : x \in Object /\ x \notin Node
  /\ \A n \in Node : n \in Object
<1>1. Node \subseteq Object /\ ListHead \subseteq Object /\ ListHead \cap Node = {}
  BY ListAssumption DEF Object
<1>2. ASSUME NEW s \in Seq(Node) PROVE s \in Seq(Object) /\ In(s) \subseteq Node
  BY <1>1, LenProperties DEF In
<1>3. QED
  BY <1>1, <1>2

(* The ring of a head and its entries.                                     *)
LEMMA RingWord ==
  ASSUME NEW x \in ListHead, NEW s \in Seq(Node)
  PROVE  /\ One(x) \o s \in Seq(Object)
         /\ One(x) \o s # <<>>
         /\ In(One(x) \o s) = {x} \cup In(s)
         /\ x \notin In(s)
         /\ Start(One(x) \o s) = x
<1>1. x \in Object /\ s \in Seq(Object) /\ In(s) \subseteq Node /\ x \notin Node
  BY NodeWords
<1>2. One(x) \in Seq(Object) /\ In(One(x)) = {x} /\ Start(One(x)) = x /\ Len(One(x)) = 1
  BY <1>1, OneObject
<1>3. /\ One(x) \o s \in Seq(Object) /\ Len(One(x) \o s) = 1 + Len(s) /\ Len(s) \in Nat
      /\ Start(One(x) \o s) = x
  <2>1. 1 \in 1..Len(One(x))
    BY <1>2
  <2>2. QED
    BY <1>1, <1>2, <2>1, Joined DEF Start
<1>4. One(x) \o s # <<>>
  BY <1>3, EmptySeq
<1>5. In(One(x) \o s) = {x} \cup In(s)
  BY <1>1, <1>2, JoinedIn
<1>6. QED
  BY <1>1, <1>3, <1>4, <1>5

(* The sequences, with another one for x.                                  *)
Put(l, x, s) == [l EXCEPT ![x] = s]

LEMMA PutFacts ==
  ASSUME NEW l \in [ListHead -> Seq(Node)], NEW x \in ListHead, NEW s \in Seq(Node)
  PROVE  /\ Put(l, x, s) \in [ListHead -> Seq(Node)]
         /\ Put(l, x, s)[x] = s
         /\ \A z \in ListHead : z # x => Put(l, x, s)[z] = l[z]
  BY DEF Put

LEMMA GoneIsSpare ==
  ASSUME NEW h, NEW l, RingState(h, l), NEW x \in ListHead, NEW s \in Seq(Node),
         NEW n \in Node, n \in In(l[x]), n \notin In(s)
  PROVE  n \in Spare(Put(l, x, s))
<1> DEFINE k == Put(l, x, s)
<1>1. l \in [ListHead -> Seq(Node)] /\ \A z \in ListHead : z # x => In(l[z]) \cap In(l[x]) = {}
  BY DEF RingState, Apart
<1>2. k[x] = s /\ \A z \in ListHead : z # x => k[z] = l[z]
  BY <1>1, PutFacts
<1> HIDE DEF k
<1>3. \A z \in ListHead : n \notin In(k[z])
  BY <1>1, <1>2
<1>4. n \in Spare(k)
  BY <1>3 DEF Spare
<1>5. QED
  BY <1>4 DEF k

(* A call that touches only the list of x and spare entries.               *)
LEMMA ChangeOne ==
  ASSUME NEW h, NEW l, RingState(h, l), NEW x \in ListHead,
         NEW s \in Seq(Node), In(s) \subseteq In(l[x]) \cup Spare(l),
         NEW g \in Heap, Ring(g, One(x) \o s),
         \A r \in Object : r \notin {x} \cup In(l[x]) \cup Spare(l)
                             => g.next[r] = h.next[r] /\ g.prev[r] = h.prev[r],
         NEW k, k = Put(l, x, s)
  PROVE  RingState(g, k)
<1>1. /\ l \in [ListHead -> Seq(Node)]
      /\ \A z \in ListHead : Ring(h, One(z) \o l[z])
      /\ \A y, z \in ListHead : y # z => In(l[y]) \cap In(l[z]) = {}
  BY DEF RingState, Apart
<1>2. /\ k \in [ListHead -> Seq(Node)] /\ k[x] = s
      /\ \A z \in ListHead : z # x => k[z] = l[z]
  BY <1>1, PutFacts
<1>3. ASSUME NEW z \in ListHead, z # x
      PROVE  Ring(g, One(z) \o k[z])
  <2>1. /\ Ring(h, One(z) \o l[z]) /\ k[z] = l[z]
        /\ In(One(z) \o l[z]) = {z} \cup In(l[z])
        /\ l[z] \in Seq(Node)
    BY <1>1, <1>2, <1>3, RingWord
  <2>2. z \in Object /\ z \notin Node /\ In(l[z]) \subseteq Node /\ In(l[x]) \subseteq Node /\ x \notin Node
        /\ \A n \in Node : n \in Object
    BY <1>1, <2>1, NodeWords
  <2>3. ASSUME NEW r \in In(One(z) \o l[z])
        PROVE  r \in Object /\ r \notin {x} \cup In(l[x]) \cup Spare(l)
    BY <1>1, <1>3, <2>1, <2>2 DEF Spare
  <2>4. QED
    BY <2>1, <2>3, RingKept
<1>4. \A z \in ListHead : Ring(g, One(z) \o k[z])
  BY <1>2, <1>3
<1>5. Apart(k)
  <2>1. ASSUME NEW y \in ListHead, y # x
        PROVE  In(k[y]) \cap In(s) = {}
    <3>1. k[y] = l[y] /\ In(l[y]) \cap In(l[x]) = {}
      BY <1>1, <1>2, <2>1
    <3>2. In(l[y]) \cap Spare(l) = {}
      BY DEF Spare
    <3>3. QED
      BY <3>1, <3>2
  <2>2. QED
    BY <1>1, <1>2, <2>1 DEF Apart
<1>6. QED
  BY <1>2, <1>4, <1>5 DEF RingState

(* A call that touches only the lists of x and y, and spare entries.       *)
LEMMA ChangeTwo ==
  ASSUME NEW h, NEW l, RingState(h, l), NEW x \in ListHead, NEW y \in ListHead, x # y,
         NEW s \in Seq(Node), NEW t \in Seq(Node), In(s) \cap In(t) = {},
         In(s) \cup In(t) \subseteq In(l[x]) \cup In(l[y]),
         NEW g \in Heap, Ring(g, One(x) \o s), Ring(g, One(y) \o t),
         \A r \in Object : r \notin {x, y} \cup In(l[x]) \cup In(l[y])
                             => g.next[r] = h.next[r] /\ g.prev[r] = h.prev[r],
         NEW k, k = Put(Put(l, x, s), y, t)
  PROVE  RingState(g, k)
<1>1. /\ l \in [ListHead -> Seq(Node)]
      /\ \A z \in ListHead : Ring(h, One(z) \o l[z])
      /\ \A u, z \in ListHead : u # z => In(l[u]) \cap In(l[z]) = {}
  BY DEF RingState, Apart
<1>2. /\ k \in [ListHead -> Seq(Node)] /\ k[x] = s /\ k[y] = t
      /\ \A z \in ListHead : z # x /\ z # y => k[z] = l[z]
  <2>1. PICK j : j = Put(l, x, s)
    OBVIOUS
  <2>2. /\ j \in [ListHead -> Seq(Node)] /\ j[x] = s
        /\ \A z \in ListHead : z # x => j[z] = l[z]
    BY <1>1, <2>1, PutFacts
  <2>3. k = Put(j, y, t)
    BY <2>1
  <2>4. j \in [ListHead -> Seq(Node)]
    BY <2>2
  <2>5. /\ k \in [ListHead -> Seq(Node)] /\ k[y] = t
        /\ \A z \in ListHead : z # y => k[z] = j[z]
    BY <2>3, <2>4, PutFacts
  <2>6. QED
    BY <2>2, <2>5
<1>3. ASSUME NEW z \in ListHead, z # x, z # y
      PROVE  Ring(g, One(z) \o k[z])
  <2>1. /\ Ring(h, One(z) \o l[z]) /\ k[z] = l[z]
        /\ In(One(z) \o l[z]) = {z} \cup In(l[z])
        /\ l[z] \in Seq(Node)
    BY <1>1, <1>2, <1>3, RingWord
  <2>2. /\ z \in Object /\ z \notin Node /\ In(l[z]) \subseteq Node
        /\ In(l[x]) \subseteq Node /\ x \notin Node
        /\ In(l[y]) \subseteq Node /\ y \notin Node
        /\ \A n \in Node : n \in Object
    BY <1>1, <2>1, NodeWords
  <2>3. ASSUME NEW r \in In(One(z) \o l[z])
        PROVE  r \in Object /\ r \notin {x, y} \cup In(l[x]) \cup In(l[y])
    <3>1. In(l[z]) \cap In(l[x]) = {} /\ In(l[z]) \cap In(l[y]) = {}
      BY <1>1, <1>3
    <3>2. r = z \/ r \in In(l[z])
      BY <2>1
    <3>3. QED
      BY <1>3, <2>2, <3>1, <3>2
  <2>4. QED
    BY <2>1, <2>3, RingKept
<1>4. \A z \in ListHead : Ring(g, One(z) \o k[z])
  BY <1>2, <1>3
<1>5. Apart(k)
  <2>1. ASSUME NEW z \in ListHead, z # x, z # y
        PROVE  In(k[z]) \cap In(s) = {} /\ In(k[z]) \cap In(t) = {}
    BY <1>1, <1>2, <2>1
  <2>2. ASSUME NEW u \in ListHead, NEW z \in ListHead, u # z
        PROVE  In(k[u]) \cap In(k[z]) = {}
    <3>1. CASE u \notin {x, y} /\ z \notin {x, y}
      BY <1>1, <1>2, <2>2, <3>1
    <3>2. CASE u \in {x, y} /\ z \notin {x, y}
      BY <1>2, <2>1, <3>2
    <3>3. CASE u \notin {x, y} /\ z \in {x, y}
      BY <1>2, <2>1, <3>3
    <3>4. CASE u \in {x, y} /\ z \in {x, y}
      BY <1>2, <2>2, <3>4
    <3>5. QED
      BY <3>1, <3>2, <3>3, <3>4
  <2>3. QED
    BY <2>2 DEF Apart
<1>6. QED
  BY <1>2, <1>4, <1>5 DEF RingState

-----------------------------------------------------------------------------
(* A head with the entries a, n and b is a ring of n and of the rest of    *)
(* the way round.                                                          *)
Rest(x, a, b) == b \o (One(x) \o a)

LEMMA Associative ==
  ASSUME NEW u \in Seq(Object), NEW v \in Seq(Object), NEW w \in Seq(Object)
  PROVE  (u \o v) \o w = u \o (v \o w)
  BY ConcatAssociative

LEMMA Around ==
  ASSUME NEW x \in ListHead, NEW a \in Seq(Node), NEW b \in Seq(Node)
  PROVE  /\ a \o b \in Seq(Node) /\ In(a \o b) = In(a) \cup In(b)
         /\ Rest(x, a, b) \in Seq(Object) /\ Rest(x, a, b) # <<>>
         /\ In(Rest(x, a, b)) = {x} \cup In(a) \cup In(b)
         /\ \A h : Ring(h, One(x) \o (a \o b)) <=> Ring(h, Rest(x, a, b))
<1>1. /\ a \in Seq(Object) /\ b \in Seq(Object) /\ One(x) \in Seq(Object)
      /\ One(x) \o a \in Seq(Object) /\ One(x) \o a # <<>>
      /\ In(One(x) \o a) = {x} \cup In(a)
  BY NodeWords, RingWord, OneObject
<1>2. a \o b \in Seq(Node) /\ In(a \o b) = In(a) \cup In(b)
  BY Joined, JoinedIn
<1>3. PICK u \in Seq(Object) : u = One(x) \o a
  BY <1>1
<1>4. u # <<>> /\ In(u) = {x} \cup In(a)
  BY <1>1, <1>3
<1>5. /\ b \o u \in Seq(Object) /\ In(b \o u) = In(b) \cup In(u)
      /\ Len(b \o u) = Len(b) + Len(u) /\ Len(b) \in Nat /\ Len(u) \in Nat
  <2>1. u \in Seq(Object)
    BY <1>3
  <2>2. In(b \o u) = In(b) \cup In(u)
    BY <1>1, <2>1, JoinedIn
  <2>3. QED
    BY <1>1, <2>1, <2>2, Joined
<1>6. b \o u # <<>>
  BY <1>4, <1>5, EmptySeq
<1>7. One(x) \o (a \o b) = u \o b
  BY <1>1, <1>3, Associative
<1>8. \A h : Ring(h, u \o b) <=> Ring(h, b \o u)
  BY <1>1, <1>3, TurnRing
<1>9. QED
  BY <1>2, <1>3, <1>4, <1>5, <1>6, <1>7, <1>8 DEF Rest

LEMMA AroundWord ==
  ASSUME NEW x \in ListHead, NEW a \in Seq(Node), NEW f \in Seq(Node), NEW b \in Seq(Node)
  PROVE  /\ (a \o f) \o b \in Seq(Node)
         /\ In((a \o f) \o b) = In(a) \cup In(f) \cup In(b)
         /\ \A h : Ring(h, One(x) \o ((a \o f) \o b)) <=> Ring(h, Rest(x, a, b) \o f)
<1>1. /\ a \in Seq(Object) /\ b \in Seq(Object) /\ One(x) \in Seq(Object)
      /\ f \in Seq(Object) /\ One(x) \o a \in Seq(Object)
  BY NodeWords, RingWord, OneObject
<1>2. a \o f \in Seq(Node) /\ In(a \o f) = In(a) \cup In(f)
  BY Joined, JoinedIn
<1>3. (a \o f) \o b \in Seq(Node) /\ In((a \o f) \o b) = In(a) \cup In(f) \cup In(b)
  <2>1. PICK v \in Seq(Node) : v = a \o f
    BY <1>2
  <2>2. v \o b \in Seq(Node) /\ In(v \o b) = In(v) \cup In(b)
    BY <2>1, Joined, JoinedIn, ZenonT(20)
  <2>3. QED
    BY <1>2, <2>1, <2>2
<1>4. PICK u \in Seq(Object) : u = One(x) \o a
  BY <1>1
<1>5. PICK v \in Seq(Object) : v = a \o f
  BY <1>1, Joined
<1>6. PICK c \in Seq(Object) : c = u \o f
  BY <1>1, Joined
<1>7. One(x) \o (v \o b) = (One(x) \o v) \o b
  <2>1. v \in Seq(Object) /\ One(x) \in Seq(Object) /\ b \in Seq(Object)
    BY <1>1, <1>5
  <2>2. QED
    BY <2>1, Associative, SMTT(20)
<1>8. One(x) \o v = c
  <2>1. a \in Seq(Object) /\ One(x) \in Seq(Object) /\ f \in Seq(Object)
    BY <1>1
  <2>2. (One(x) \o a) \o f = One(x) \o (a \o f)
    BY <2>1, Associative, SMTT(20)
  <2>3. QED
    BY <1>4, <1>5, <1>6, <2>2
<1>9. \A h : Ring(h, c \o b) <=> Ring(h, b \o c)
  BY <1>1, <1>6, TurnRing
<1>10. b \o c = (b \o u) \o f
  <2>1. u \in Seq(Object) /\ f \in Seq(Object) /\ b \in Seq(Object)
    BY <1>1, <1>4
  <2>2. b \o (u \o f) = (b \o u) \o f
    BY <2>1, Associative, SMTT(20)
  <2>3. QED
    BY <1>6, <2>2
<1>11. QED
  BY <1>3, <1>4, <1>5, <1>7, <1>8, <1>9, <1>10 DEF Rest

LEMMA AroundOne ==
  ASSUME NEW x \in ListHead, NEW a \in Seq(Node), NEW n \in Node, NEW b \in Seq(Node)
  PROVE  /\ (a \o One(n)) \o b \in Seq(Node)
         /\ In((a \o One(n)) \o b) = In(a) \cup {n} \cup In(b)
         /\ \A h : Ring(h, One(x) \o ((a \o One(n)) \o b)) <=> Ring(h, Rest(x, a, b) \o One(n))
<1>1. One(n) \in Seq(Node) /\ In(One(n)) = {n}
  BY NodeWords, OneObject DEF One
<1>2. QED
  BY <1>1, AroundWord

(* n is on the list of x, between the entries a and the entries b.         *)
Lies(l, x, a, n, b) == /\ x \in ListHead
                       /\ n \in Node
                       /\ a \in Seq(Node)
                       /\ b \in Seq(Node)
                       /\ l[x] = (a \o One(n)) \o b

(* The neighbours of an entry.                                             *)
LEMMA Neighbours ==
  ASSUME NEW h, NEW l, RingState(h, l), NEW x, NEW a, NEW n, NEW b, Lies(l, x, a, n, b),
         NEW w, w = Rest(x, a, b)
  PROVE  /\ w \in Seq(Object) /\ w # <<>> /\ Ring(h, w \o One(n)) /\ Strand(h, w)
         /\ n \notin In(w) /\ n \in Object
         /\ h.prev[n] = End(w) /\ h.next[n] = Start(w)
         /\ End(w) \in In(w) /\ Start(w) \in In(w) /\ In(w) \subseteq Object
         /\ In(w) = {x} \cup In(a) \cup In(b)
         /\ In(l[x]) = In(a) \cup {n} \cup In(b)
<1>0. /\ x \in ListHead /\ n \in Node /\ a \in Seq(Node) /\ b \in Seq(Node)
      /\ l[x] = (a \o One(n)) \o b
  BY DEF Lies
<1>1. w \in Seq(Object) /\ w # <<>> /\ In(w) = {x} \cup In(a) \cup In(b)
  BY <1>0, Around
<1>2. Ring(h, w \o One(n))
  BY <1>0, AroundOne DEF RingState
<1>3. n \in Object /\ w \in Seq(Object) /\ w # <<>>
  BY <1>0, <1>1, NodeWords
<1>4. /\ Strand(h, w) /\ n \notin In(w)
      /\ Tied(h, End(w), n) /\ Tied(h, n, Start(w))
  BY <1>2, <1>3, CutOne
<1>5. Start(w) \in In(w) /\ End(w) \in In(w) /\ In(w) \subseteq Object
  BY <1>4, StrandFacts
<1>6. In(l[x]) = In(a) \cup {n} \cup In(b)
  BY <1>0, AroundOne
<1>7. QED
  BY <1>1, <1>2, <1>3, <1>4, <1>5, <1>6 DEF Tied

(* An entry that leaves its list.                                          *)
LEMMA StateRemove ==
  ASSUME NEW h, NEW l, RingState(h, l), NEW x, NEW a, NEW n, NEW b, Lies(l, x, a, n, b),
         NEW g \in Heap, Tied(g, h.prev[n], h.next[n]),
         NextKept(h, g, {n, h.prev[n]}),
         PrevKept(h, g, {n, h.next[n]}),
         NEW k, k = Put(l, x, a \o b)
  PROVE  RingState(g, k) /\ n \in Spare(k)
<1>0. x \in ListHead /\ n \in Node /\ a \in Seq(Node) /\ b \in Seq(Node)
  BY DEF Lies
<1>1. PICK w : w = Rest(x, a, b)
  OBVIOUS
<1>2. /\ w \in Seq(Object) /\ Strand(h, w) /\ n \notin In(w) /\ n \in Object
      /\ h.prev[n] = End(w) /\ h.next[n] = Start(w)
      /\ End(w) \in In(w) /\ Start(w) \in In(w) /\ In(w) \subseteq Object
      /\ In(w) = {x} \cup In(a) \cup In(b)
      /\ In(l[x]) = In(a) \cup {n} \cup In(b)
  BY <1>1, Neighbours
<1>3. /\ \A r \in In(w) : r # End(w) => g.next[r] = h.next[r]
      /\ \A r \in In(w) : r # Start(w) => g.prev[r] = h.prev[r]
  BY <1>2 DEF NextKept, PrevKept
<1>4. Ring(g, w)
  <2>1. Tied(g, End(w), Start(w))
    BY <1>2
  <2>2. QED
    BY <1>2, <1>3, <2>1, StrandKept DEF Ring
<1>5. Ring(g, One(x) \o (a \o b)) /\ a \o b \in Seq(Node) /\ In(a \o b) = In(a) \cup In(b)
  BY <1>0, <1>1, <1>4, Around
<1>6. \A r \in Object : r \notin {x} \cup In(l[x]) \cup Spare(l)
                          => g.next[r] = h.next[r] /\ g.prev[r] = h.prev[r]
  BY <1>2 DEF NextKept, PrevKept
<1>7. RingState(g, k)
  BY <1>0, <1>2, <1>5, <1>6, ChangeOne
<1>8. n \in Spare(k)
  <2>1. n \in In(l[x]) /\ n \notin In(a \o b)
    BY <1>2, <1>5
  <2>2. QED
    BY <1>0, <1>5, <2>1, GoneIsSpare
<1>9. QED
  BY <1>7, <1>8

(* An entry that takes the place of another.                               *)
LEMMA StateReplace ==
  ASSUME NEW h, NEW l, RingState(h, l), NEW x, NEW a, NEW n, NEW b, Lies(l, x, a, n, b),
         NEW m \in Spare(l),
         NEW g \in Heap, Tied(g, h.prev[n], m), Tied(g, m, h.next[n]),
         NextKept(h, g, {m, h.prev[n]}),
         PrevKept(h, g, {m, h.next[n]}),
         NEW k, k = Put(l, x, (a \o One(m)) \o b)
  PROVE  RingState(g, k) /\ n \in Spare(k)
<1>0. x \in ListHead /\ n \in Node /\ a \in Seq(Node) /\ b \in Seq(Node)
  BY DEF Lies
<1>1. PICK w : w = Rest(x, a, b)
  OBVIOUS
<1>2. /\ w \in Seq(Object) /\ Strand(h, w) /\ n \notin In(w) /\ n \in Object
      /\ h.prev[n] = End(w) /\ h.next[n] = Start(w)
      /\ End(w) \in In(w) /\ Start(w) \in In(w) /\ In(w) \subseteq Object
      /\ In(w) = {x} \cup In(a) \cup In(b)
      /\ In(l[x]) = In(a) \cup {n} \cup In(b)
  BY <1>1, Neighbours
<1>3. m \in Node /\ m \in Object /\ m \notin In(l[x]) /\ m # x
  BY <1>0, NodeWords DEF Spare
<1>4. m \notin In(w) /\ m # n
  BY <1>2, <1>3
<1>5. Strand(g, w)
  <2>1. /\ \A r \in In(w) : r # End(w) => g.next[r] = h.next[r]
        /\ \A r \in In(w) : r # Start(w) => g.prev[r] = h.prev[r]
    BY <1>2, <1>4 DEF NextKept, PrevKept
  <2>2. QED
    BY <1>2, <2>1, StrandKept
<1>6. Strand(g, One(m)) /\ In(One(m)) = {m} /\ Start(One(m)) = m /\ End(One(m)) = m
  BY <1>3, OneStrand, OneObject
<1>7. Ring(g, w \o One(m))
  <2>1. In(w) \cap In(One(m)) = {}
    BY <1>4, <1>6
  <2>2. QED
    BY <1>2, <1>5, <1>6, <2>1, TieRing
<1>8. /\ Ring(g, One(x) \o ((a \o One(m)) \o b)) /\ (a \o One(m)) \o b \in Seq(Node)
      /\ In((a \o One(m)) \o b) = In(a) \cup {m} \cup In(b)
  BY <1>0, <1>1, <1>3, <1>7, AroundOne
<1>9. \A r \in Object : r \notin {x} \cup In(l[x]) \cup Spare(l)
                          => g.next[r] = h.next[r] /\ g.prev[r] = h.prev[r]
  BY <1>2 DEF NextKept, PrevKept
<1>10. RingState(g, k)
  BY <1>0, <1>2, <1>8, <1>9, ChangeOne
<1>11. n \in Spare(k)
  <2>1. n \in In(l[x]) /\ n \notin In((a \o One(m)) \o b)
    BY <1>2, <1>4, <1>8
  <2>2. QED
    BY <1>0, <1>8, <2>1, GoneIsSpare
<1>12. QED
  BY <1>10, <1>11

(* The list of x has the entries a and then the entries b.                 *)
Parts(l, x, a, b) == /\ x \in ListHead
                     /\ a \in Seq(Node)
                     /\ b \in Seq(Node)
                     /\ l[x] = a \o b

(* An entry that is put behind the entries a of x.                         *)
LEMMA StateInsert ==
  ASSUME NEW h, NEW l, RingState(h, l), NEW x, NEW a, NEW b, Parts(l, x, a, b),
         NEW n \in Spare(l),
         NEW p, p = End(Rest(x, a, b)), NEW q, q = Start(Rest(x, a, b)),
         NEW g \in Heap, Tied(g, p, n), Tied(g, n, q),
         NextKept(h, g, {n, p}),
         PrevKept(h, g, {n, q}),
         NEW k, k = Put(l, x, (a \o One(n)) \o b)
  PROVE  RingState(g, k)
<1>0. x \in ListHead /\ a \in Seq(Node) /\ b \in Seq(Node) /\ l[x] = a \o b
  BY DEF Parts
<1>1. PICK w \in Seq(Object) : w = Rest(x, a, b)
  BY <1>0, Around
<1>2. Ring(h, w) /\ In(w) = {x} \cup In(a) \cup In(b) /\ In(l[x]) = In(a) \cup In(b)
  <2>1. Ring(h, One(x) \o (a \o b))
    BY <1>0 DEF RingState
  <2>2. QED
    BY <1>0, <1>1, <2>1, Around
<1>3. Start(w) \in In(w) /\ End(w) \in In(w) /\ In(w) \subseteq Object
  BY <1>2, StrandFacts DEF Ring
<1>4. n \in Node /\ n \in Object /\ n \notin In(l[x]) /\ n # x /\ n \notin In(w)
  <2>1. n \in Node /\ n \in Object /\ n \notin In(l[x]) /\ n # x
    BY <1>0, NodeWords DEF Spare
  <2>2. QED
    BY <1>2, <2>1
<1>5. Strand(h, One(n)) /\ In(One(n)) = {n} /\ Start(One(n)) = n /\ End(One(n)) = n
  BY <1>4, OneStrand, OneObject
<1>6. Ring(g, w \o One(n))
  <2>1. /\ \A r \in In(w) : r # End(w) => g.next[r] = h.next[r]
        /\ \A r \in In(w) : r # Start(w) => g.prev[r] = h.prev[r]
    BY <1>1, <1>3, <1>4 DEF NextKept, PrevKept
  <2>2. In(w) \cap In(One(n)) = {}
    BY <1>4, <1>5
  <2>3. /\ \A r \in In(One(n)) : r # End(One(n)) => g.next[r] = h.next[r]
        /\ \A r \in In(One(n)) : r # Start(One(n)) => g.prev[r] = h.prev[r]
    BY <1>5
  <2>4. Tied(g, End(w), Start(One(n))) /\ Tied(g, End(One(n)), Start(w))
    BY <1>1, <1>5
  <2>5. QED
    BY <1>2, <1>5, <2>1, <2>2, <2>3, <2>4, LinkIn
<1>7. /\ Ring(g, One(x) \o ((a \o One(n)) \o b)) /\ (a \o One(n)) \o b \in Seq(Node)
      /\ In((a \o One(n)) \o b) = In(a) \cup {n} \cup In(b)
  BY <1>0, <1>1, <1>4, <1>6, AroundOne
<1>8. \A r \in Object : r \notin {x} \cup In(l[x]) \cup Spare(l)
                          => g.next[r] = h.next[r] /\ g.prev[r] = h.prev[r]
  BY <1>1, <1>2, <1>3 DEF NextKept, PrevKept
<1>9. QED
  BY <1>0, <1>2, <1>7, <1>8, ChangeOne

-----------------------------------------------------------------------------
(* The assignments.                                                        *)
LEMMA SetFacts ==
  ASSUME NEW h \in Heap, NEW p \in Object, NEW q \in Pointer
  PROVE  /\ R!SetNext(h, p, q) \in Heap /\ R!SetPrev(h, p, q) \in Heap
         /\ R!SetNext(h, p, q).next[p] = q /\ R!SetPrev(h, p, q).prev[p] = q
         /\ \A r \in Object : r # p => /\ R!SetNext(h, p, q).next[r] = h.next[r]
                                       /\ R!SetPrev(h, p, q).prev[r] = h.prev[r]
         /\ \A r \in Object : /\ R!SetNext(h, p, q).prev[r] = h.prev[r]
                              /\ R!SetPrev(h, p, q).next[r] = h.next[r]
  BY DEF Heap, R!SetNext, R!SetPrev

LEMMA ObjectPointer == \A p \in Object : p \in Pointer
  BY DEF Pointer

(* __list_add() (list.h:58-66).                                            *)
LEMMA AddBetween ==
  ASSUME NEW h \in Heap, NEW n \in Object, NEW p \in Object, NEW q \in Object,
         n # p, n # q, NEW g, g = R!ListAddBetween(h, n, p, q)
  PROVE  /\ g \in Heap
         /\ Tied(g, p, n) /\ Tied(g, n, q)
         /\ NextKept(h, g, {n, p})
         /\ PrevKept(h, g, {n, q})
<1>1. /\ g = [next |-> [[h.next EXCEPT ![n] = q] EXCEPT ![p] = n],
              prev |-> [[h.prev EXCEPT ![q] = n] EXCEPT ![n] = p]]
  BY DEF R!ListAddBetween, R!SetNext, R!SetPrev
<1>2. h.next \in [Object -> Pointer] /\ h.prev \in [Object -> Pointer]
  BY DEF Heap
<1>3. n \in Pointer /\ p \in Pointer /\ q \in Pointer
  BY ObjectPointer
<1>4. QED
  BY <1>1, <1>2, <1>3 DEF Tied, Heap, NextKept, PrevKept

(* __list_del() (list.h:101-105).                                          *)
LEMMA DelBetween ==
  ASSUME NEW h \in Heap, NEW p \in Object, NEW q \in Object, NEW n,
         NEW g, g = R!ListDelBetween(h, p, q)
  PROVE  /\ g \in Heap
         /\ Tied(g, p, q)
         /\ NextKept(h, g, {n, p}) /\ PrevKept(h, g, {n, q})
<1>1. /\ g = [next |-> [h.next EXCEPT ![p] = q], prev |-> [h.prev EXCEPT ![q] = p]]
  BY DEF R!ListDelBetween, R!SetNext, R!SetPrev
<1>2. h.next \in [Object -> Pointer] /\ h.prev \in [Object -> Pointer]
  BY DEF Heap
<1>3. p \in Pointer /\ q \in Pointer
  BY ObjectPointer
<1>4. QED
  BY <1>1, <1>2, <1>3 DEF Tied, Heap, NextKept, PrevKept

(* list_replace() (list.h:146-153).                                        *)
LEMMA ReplaceBetween ==
  ASSUME NEW h \in Heap, NEW n \in Object, NEW m \in Object,
         NEW p \in Object, NEW q \in Object, p = h.prev[n], q = h.next[n],
         p # n, q # n, m # n, m # p, m # q, NEW g, g = R!list_replace(h, n, m)
  PROVE  /\ g \in Heap
         /\ Tied(g, p, m) /\ Tied(g, m, q)
         /\ NextKept(h, g, {m, p})
         /\ PrevKept(h, g, {m, q})
<1>1. h.next \in [Object -> Pointer] /\ h.prev \in [Object -> Pointer]
  BY DEF Heap
<1>2. /\ [h.next EXCEPT ![m] = q][m] = q
      /\ [h.prev EXCEPT ![q] = m][n] = p
      /\ [[h.prev EXCEPT ![q] = m] EXCEPT ![m] = p][m] = p
  BY <1>1
<1>3. g = [next |-> [[h.next EXCEPT ![m] = q] EXCEPT ![p] = m],
           prev |-> [[h.prev EXCEPT ![q] = m] EXCEPT ![m] = p]]
  BY <1>2 DEF R!list_replace, R!SetNext, R!SetPrev
<1>4. m \in Pointer /\ p \in Pointer /\ q \in Pointer
  BY ObjectPointer
<1>5. QED
  BY <1>1, <1>3, <1>4 DEF Tied, Heap, NextKept, PrevKept

(* The pointers of a spare entry may be anything.                          *)
LEMMA StateSpare ==
  ASSUME NEW h, NEW l, RingState(h, l), NEW n \in Spare(l), NEW q \in Pointer
  PROVE  RingState(R!SetNext(h, n, q), l) /\ RingState(R!SetPrev(h, n, q), l)
<1>1. n \in Object /\ h \in Heap
  BY NodeWords DEF Spare, RingState
<1>2. ASSUME NEW g \in Heap,
             \A r \in Object : r # n => g.next[r] = h.next[r] /\ g.prev[r] = h.prev[r]
      PROVE  RingState(g, l)
  <2>1. l \in [ListHead -> Seq(Node)] /\ Apart(l)
    BY DEF RingState
  <2>2. ASSUME NEW x \in ListHead PROVE Ring(g, One(x) \o l[x])
    <3>1. Ring(h, One(x) \o l[x]) /\ l[x] \in Seq(Node)
      BY <2>1 DEF RingState
    <3>2. In(One(x) \o l[x]) = {x} \cup In(l[x]) /\ n \notin In(l[x]) /\ n # x
      BY <3>1, RingWord, NodeWords DEF Spare
    <3>3. In(One(x) \o l[x]) \subseteq Object
      BY <3>1, StrandFacts DEF Ring
    <3>4. QED
      BY <1>2, <3>1, <3>2, <3>3, RingKept
  <2>3. QED
    BY <2>1, <2>2 DEF RingState
<1>3. QED
  BY <1>1, <1>2, SetFacts

LEMMA StateInitSpare ==
  ASSUME NEW h, NEW l, RingState(h, l), NEW n \in Spare(l)
  PROVE  RingState(R!INIT_LIST_HEAD(h, n), l)
<1>1. n \in Pointer
  BY NodeWords, ObjectPointer DEF Spare
<1>2. QED
  BY <1>1, StateSpare DEF R!INIT_LIST_HEAD

-----------------------------------------------------------------------------
(* The ends of the rest of the way round, at the head and at the tail.     *)
LEMMA RestEnds ==
  ASSUME NEW x \in ListHead, NEW s \in Seq(Node)
  PROVE  /\ End(Rest(x, <<>>, s)) = x
         /\ Start(Rest(x, s, <<>>)) = x
         /\ Rest(x, s, <<>>) = One(x) \o s
<1>1. /\ x \in Object /\ s \in Seq(Object) /\ One(x) \in Seq(Object)
      /\ One(x) \o s \in Seq(Object) /\ Start(One(x) \o s) = x
  BY NodeWords, OneObject, RingWord
<1>2. Rest(x, s, <<>>) = One(x) \o s
  BY <1>1, ConcatEmptySeq DEF Rest
<1>3. Rest(x, <<>>, s) = s \o One(x)
  BY <1>1, ConcatEmptySeq DEF Rest
<1>4. End(s \o One(x)) = x
  BY <1>1, OneObject, JoinedEnds
<1>5. QED
  BY <1>1, <1>2, <1>3, <1>4

(* Where an entry is put.                                                  *)
LEMMA Gap ==
  ASSUME NEW h, NEW l, RingState(h, l), NEW x, NEW a, NEW b, Parts(l, x, a, b),
         NEW w, w = Rest(x, a, b)
  PROVE  /\ Ring(h, w)
         /\ h.next[End(w)] = Start(w) /\ h.prev[Start(w)] = End(w)
         /\ Start(w) \in In(w) /\ End(w) \in In(w) /\ In(w) \subseteq Object
         /\ In(w) \cap Spare(l) = {}
<1>0. x \in ListHead /\ a \in Seq(Node) /\ b \in Seq(Node) /\ l[x] = a \o b
  BY DEF Parts
<1>1. Ring(h, One(x) \o (a \o b))
  BY <1>0 DEF RingState
<1>2. Ring(h, w) /\ In(w) = {x} \cup In(l[x])
  BY <1>0, <1>1, Around
<1>3. Start(w) \in In(w) /\ End(w) \in In(w) /\ In(w) \subseteq Object
  BY <1>2, StrandFacts DEF Ring
<1>4. In(w) \cap Spare(l) = {}
  BY <1>0, <1>2, NodeWords DEF Spare
<1>5. QED
  BY <1>2, <1>3, <1>4 DEF Ring, Tied

LEMMA InsertBetween ==
  ASSUME NEW h, NEW l, RingState(h, l), NEW x, NEW a, NEW b, Parts(l, x, a, b),
         NEW n \in Spare(l)
  PROVE  RingState(R!ListAddBetween(h, n, End(Rest(x, a, b)), Start(Rest(x, a, b))),
                   Put(l, x, (a \o One(n)) \o b))
<1>1. PICK p, q, g : /\ p = End(Rest(x, a, b)) /\ q = Start(Rest(x, a, b))
                     /\ g = R!ListAddBetween(h, n, p, q)
  OBVIOUS
<1>2. p \in Object /\ q \in Object /\ p # n /\ q # n /\ n \in Object /\ h \in Heap
  BY <1>1, Gap, NodeWords DEF Spare, RingState
<1>3. /\ g \in Heap
      /\ Tied(g, p, n) /\ Tied(g, n, q)
      /\ NextKept(h, g, {n, p})
      /\ PrevKept(h, g, {n, q})
  <2>1. g = R!ListAddBetween(h, n, p, q)
    BY <1>1
  <2>2. QED
    BY <1>2, <2>1, AddBetween
<1>4. RingState(g, Put(l, x, (a \o One(n)) \o b))
  BY <1>1, <1>3, StateInsert
<1>5. QED
  BY <1>1, <1>4

(* list_add() (list.h:76-79).                                              *)
LEMMA AddState ==
  ASSUME NEW h, NEW l, RingState(h, l), NEW x \in ListHead, NEW n \in Spare(l)
  PROVE  RingState(R!list_add(h, n, x), Put(l, x, One(n) \o l[x]))
<1>1. l[x] \in Seq(Node) /\ n \in Node /\ One(n) \in Seq(Node)
  BY DEF RingState, Spare, One
<1>2. Parts(l, x, <<>>, l[x])
  BY <1>1, ConcatEmptySeq DEF Parts
<1>3. End(Rest(x, <<>>, l[x])) = x
  BY <1>1, RestEnds
<1>4. h.next[x] = Start(Rest(x, <<>>, l[x]))
  BY <1>2, <1>3, Gap
<1>5. (<<>> \o One(n)) \o l[x] = One(n) \o l[x]
  BY <1>1, ConcatEmptySeq
<1>6. R!list_add(h, n, x) = R!ListAddBetween(h, n, End(Rest(x, <<>>, l[x])), Start(Rest(x, <<>>, l[x])))
  BY <1>3, <1>4 DEF R!list_add
<1>7. QED
  BY <1>2, <1>5, <1>6, InsertBetween

(* list_add_tail() (list.h:89-92).                                         *)
LEMMA AddTailState ==
  ASSUME NEW h, NEW l, RingState(h, l), NEW x \in ListHead, NEW n \in Spare(l)
  PROVE  RingState(R!list_add_tail(h, n, x), Put(l, x, l[x] \o One(n)))
<1>1. l[x] \in Seq(Node) /\ n \in Node /\ One(n) \in Seq(Node) /\ l[x] \o One(n) \in Seq(Node)
  BY DEF RingState, Spare, One
<1>2. Parts(l, x, l[x], <<>>)
  BY <1>1, ConcatEmptySeq DEF Parts
<1>3. Start(Rest(x, l[x], <<>>)) = x
  BY <1>1, RestEnds
<1>4. h.prev[x] = End(Rest(x, l[x], <<>>))
  BY <1>2, <1>3, Gap
<1>5. (l[x] \o One(n)) \o <<>> = l[x] \o One(n)
  BY <1>1, ConcatEmptySeq
<1>6. R!list_add_tail(h, n, x) = R!ListAddBetween(h, n, End(Rest(x, l[x], <<>>)), Start(Rest(x, l[x], <<>>)))
  BY <1>3, <1>4 DEF R!list_add_tail
<1>7. QED
  BY <1>2, <1>5, <1>6, InsertBetween

(* __list_del_entry() (list.h:101-105, 121-124).                           *)
LEMMA DelEntryState ==
  ASSUME NEW h, NEW l, RingState(h, l), NEW x, NEW a, NEW n, NEW b, Lies(l, x, a, n, b)
  PROVE  /\ RingState(R!ListDelEntry(h, n), Put(l, x, a \o b))
         /\ n \in Spare(Put(l, x, a \o b))
<1>1. PICK p, q, g : p = h.prev[n] /\ q = h.next[n] /\ g = R!ListDelEntry(h, n)
  OBVIOUS
<1>2. p \in Object /\ q \in Object /\ p # n /\ q # n /\ n \in Object /\ h \in Heap
  BY <1>1, Neighbours DEF RingState
<1>3. g = R!ListDelBetween(h, p, q)
  BY <1>1 DEF R!ListDelEntry
<1>4. /\ g \in Heap /\ Tied(g, p, q)
      /\ NextKept(h, g, {n, p}) /\ PrevKept(h, g, {n, q})
  <2>1. h \in Heap /\ p \in Object /\ q \in Object
    BY <1>2
  <2>2. QED
    BY <1>3, <2>1, DelBetween
<1>5. RingState(g, Put(l, x, a \o b)) /\ n \in Spare(Put(l, x, a \o b))
  BY <1>1, <1>4, StateRemove
<1>6. QED
  BY <1>1, <1>5

(* list_replace() (list.h:146-153).                                        *)
LEMMA ReplaceState ==
  ASSUME NEW h, NEW l, RingState(h, l), NEW x, NEW a, NEW n, NEW b, Lies(l, x, a, n, b),
         NEW m \in Spare(l)
  PROVE  /\ RingState(R!list_replace(h, n, m), Put(l, x, (a \o One(m)) \o b))
         /\ n \in Spare(Put(l, x, (a \o One(m)) \o b))
<1>1. PICK p, q, g : p = h.prev[n] /\ q = h.next[n] /\ g = R!list_replace(h, n, m)
  OBVIOUS
<1>2. p \in Object /\ q \in Object /\ p # n /\ q # n /\ n \in Object /\ h \in Heap
  BY <1>1, Neighbours DEF RingState
<1>3. m \in Object /\ m # n /\ p # m /\ q # m
  <2>1. x \in ListHead /\ n \in Node
    BY DEF Lies
  <2>2. m \in Node /\ m \in Object /\ m \notin In(l[x]) /\ m # x
    BY <2>1, NodeWords DEF Spare
  <2>3. PICK w : w = Rest(x, a, b)
    OBVIOUS
  <2>4. /\ p \in In(w) /\ q \in In(w)
        /\ In(w) = {x} \cup In(a) \cup In(b) /\ In(l[x]) = In(a) \cup {n} \cup In(b)
    BY <1>1, <2>3, Neighbours
  <2>5. QED
    BY <2>2, <2>4
<1>4. /\ g \in Heap /\ Tied(g, p, m) /\ Tied(g, m, q)
      /\ NextKept(h, g, {m, p})
      /\ PrevKept(h, g, {m, q})
  BY <1>1, <1>2, <1>3, ReplaceBetween
<1>5. /\ RingState(g, Put(l, x, (a \o One(m)) \o b))
       /\ n \in Spare(Put(l, x, (a \o One(m)) \o b))
  BY <1>1, <1>4, StateReplace
<1>6. QED
  BY <1>1, <1>5

-----------------------------------------------------------------------------
(* A head that is initialised (list.h:46-50) loses what was on its list.   *)
LEMMA StateInit ==
  ASSUME NEW h, NEW l, RingState(h, l), NEW y \in ListHead
  PROVE  RingState(R!INIT_LIST_HEAD(h, y), Put(l, y, <<>>))
<1>1. PICK g : g = R!INIT_LIST_HEAD(h, y)
  OBVIOUS
<1>2. h \in Heap /\ h.next \in [Object -> Pointer] /\ h.prev \in [Object -> Pointer]
      /\ y \in Object /\ y \in Pointer
  BY NodeWords, ObjectPointer DEF RingState, Heap
<1>3. g = [next |-> [h.next EXCEPT ![y] = y], prev |-> [h.prev EXCEPT ![y] = y]]
  BY <1>1 DEF R!INIT_LIST_HEAD, R!SetNext, R!SetPrev
<1>4. g \in Heap /\ Tied(g, y, y)
  BY <1>2, <1>3 DEF Heap, Tied
<1>5. \A r \in Object : r \notin {y} \cup In(l[y]) \cup Spare(l)
                          => g.next[r] = h.next[r] /\ g.prev[r] = h.prev[r]
  BY <1>2, <1>3
<1>6. Ring(g, One(y) \o <<>>)
  <2>1. One(y) \o <<>> = One(y)
    BY <1>2, OneObject, ConcatEmptySeq
  <2>2. Ring(g, One(y))
    BY <1>2, <1>4, OneStrand, OneObject DEF Ring
  <2>3. QED
    BY <2>1, <2>2
<1>7. <<>> \in Seq(Node) /\ In(<<>>) = {}
  BY DEF In
<1>8. RingState(g, Put(l, y, <<>>))
  BY <1>4, <1>5, <1>6, <1>7, ChangeOne
<1>9. QED
  BY <1>1, <1>8

-----------------------------------------------------------------------------
(* __list_splice(), and the head that is emptied (list.h:421-433, 46-50).  *)
Spliceable(h, y, p, q, first, last) ==
    /\ h \in Heap /\ y \in Object /\ p \in Object /\ q \in Object
    /\ first \in Object /\ last \in Object
    /\ first = h.next[y] /\ last = h.prev[y]
    /\ p # last /\ p # y /\ q # first /\ q # y /\ last # y /\ first # y

LEMMA SpliceEffect ==
  ASSUME NEW h, NEW y, NEW p, NEW q, NEW first, NEW last,
         Spliceable(h, y, p, q, first, last),
         NEW g, g = R!INIT_LIST_HEAD(R!ListSplice(h, y, p, q), y)
  PROVE  /\ g \in Heap
         /\ Tied(g, p, first) /\ Tied(g, last, q) /\ Tied(g, y, y)
         /\ NextKept(h, g, {p, last, y}) /\ PrevKept(h, g, {first, q, y})
<1>0. /\ h \in Heap /\ y \in Object /\ p \in Object /\ q \in Object
      /\ first \in Object /\ last \in Object
      /\ first = h.next[y] /\ last = h.prev[y]
      /\ p # last /\ p # y /\ q # first /\ q # y /\ last # y /\ first # y
  BY DEF Spliceable
<1>1. h.next \in [Object -> Pointer] /\ h.prev \in [Object -> Pointer]
  BY <1>0 DEF Heap
<1>2. g = [next |-> [[[h.next EXCEPT ![p] = first] EXCEPT ![last] = q] EXCEPT ![y] = y],
           prev |-> [[[h.prev EXCEPT ![first] = p] EXCEPT ![q] = last] EXCEPT ![y] = y]]
  BY <1>0 DEF R!ListSplice, R!INIT_LIST_HEAD, R!SetNext, R!SetPrev
<1>3. y \in Pointer /\ p \in Pointer /\ q \in Pointer /\ first \in Pointer /\ last \in Pointer
  BY <1>0, ObjectPointer
<1>4. PICK n1, n2, n3 : /\ n1 = [h.next EXCEPT ![p] = first]
                        /\ n2 = [n1 EXCEPT ![last] = q]
                        /\ n3 = [n2 EXCEPT ![y] = y]
  OBVIOUS
<1>5. PICK p1, p2, p3 : /\ p1 = [h.prev EXCEPT ![first] = p]
                        /\ p2 = [p1 EXCEPT ![q] = last]
                        /\ p3 = [p2 EXCEPT ![y] = y]
  OBVIOUS
<1>6. g.next = n3 /\ g.prev = p3 /\ g = [next |-> n3, prev |-> p3]
  BY <1>2, <1>4, <1>5
<1>7. /\ n3 \in [Object -> Pointer] /\ n3[p] = first /\ n3[last] = q /\ n3[y] = y
      /\ \A r \in Object : r \notin {p, last, y} => n3[r] = h.next[r]
  BY <1>0, <1>1, <1>3, <1>4
<1>8. /\ p3 \in [Object -> Pointer] /\ p3[first] = p /\ p3[q] = last /\ p3[y] = y
      /\ \A r \in Object : r \notin {first, q, y} => p3[r] = h.prev[r]
  BY <1>0, <1>1, <1>3, <1>5
<1>9. QED
  BY <1>0, <1>6, <1>7, <1>8 DEF Heap, Tied, NextKept, PrevKept
(* The pointers of a list that is not empty.                               *)
LEMMA Whole ==
  ASSUME NEW h, NEW l, RingState(h, l), NEW y \in ListHead, l[y] # <<>>
  PROVE  /\ Strand(h, l[y])
         /\ h.next[y] = Start(l[y]) /\ h.prev[y] = End(l[y])
         /\ h.prev[Start(l[y])] = y /\ h.next[End(l[y])] = y
         /\ Start(l[y]) \in In(l[y]) /\ End(l[y]) \in In(l[y]) /\ In(l[y]) \subseteq Node
<1>1. PICK t : t = l[y]
  OBVIOUS
<1>2. t \in Seq(Node) /\ t # <<>> /\ Ring(h, One(y) \o t)
  BY <1>1 DEF RingState
<1>3. t \in Seq(Object) /\ In(t) \subseteq Node /\ y \in Object
  BY <1>2, NodeWords
<1>4. One(y) \in Seq(Object) /\ One(y) # <<>> /\ Start(One(y)) = y /\ End(One(y)) = y
  BY <1>3, OneObject
<1>5. Strand(h, t) /\ Tied(h, End(One(y)), Start(t)) /\ Tied(h, End(t), Start(One(y)))
  BY <1>2, <1>3, <1>4, CutRing
<1>6. Start(t) \in In(t) /\ End(t) \in In(t)
  BY <1>5, StrandFacts
<1>7. QED
  BY <1>1, <1>3, <1>4, <1>5, <1>6 DEF Tied

(* The entries of y go between the entries a and the entries b of x.       *)
LEMMA SpliceState ==
  ASSUME NEW h, NEW l, RingState(h, l), NEW x, NEW a, NEW b, Parts(l, x, a, b),
         NEW y \in ListHead, y # x, l[y] # <<>>
  PROVE  RingState(R!INIT_LIST_HEAD(R!ListSplice(h, y, End(Rest(x, a, b)), Start(Rest(x, a, b))), y),
                   Put(Put(l, x, (a \o l[y]) \o b), y, <<>>))
<1>0. x \in ListHead /\ a \in Seq(Node) /\ b \in Seq(Node) /\ l[x] = a \o b
  BY DEF Parts
<1>1. PICK w : w = Rest(x, a, b)
  OBVIOUS
<1>2. PICK p, q, first, last : p = End(w) /\ q = Start(w) /\ first = h.next[y] /\ last = h.prev[y]
  OBVIOUS
<1>3. PICK g : g = R!INIT_LIST_HEAD(R!ListSplice(h, y, p, q), y)
  OBVIOUS
<1>4. PICK t : t = l[y]
  OBVIOUS
<1>5. /\ Ring(h, w) /\ p \in In(w) /\ q \in In(w) /\ In(w) \subseteq Object
      /\ In(w) = {x} \cup In(l[x])
  <2>1. In(w) = {x} \cup In(a) \cup In(b) /\ In(l[x]) = In(a) \cup In(b)
    BY <1>0, <1>1, Around
  <2>2. Ring(h, w) /\ p \in In(w) /\ q \in In(w) /\ In(w) \subseteq Object
    BY <1>1, <1>2, Gap
  <2>3. QED
    BY <2>1, <2>2
<1>6. /\ t \in Seq(Node) /\ t # <<>> /\ Strand(h, t) /\ first = Start(t) /\ last = End(t)
      /\ first \in In(t) /\ last \in In(t) /\ In(t) \subseteq Node
  BY <1>2, <1>4, Whole DEF RingState
<1>7. In(w) \cap In(t) = {} /\ y \notin In(w) /\ y \notin In(t)
  <2>1. In(l[x]) \cap In(t) = {} /\ x \notin Node /\ y \notin Node /\ In(l[x]) \subseteq Node
    BY <1>0, <1>4, NodeWords DEF RingState, Apart
  <2>2. QED
    BY <1>5, <1>6, <2>1
<1>8. /\ h \in Heap /\ y \in Object /\ p \in Object /\ q \in Object
      /\ first \in Object /\ last \in Object
      /\ p # last /\ p # y /\ q # first /\ q # y /\ last # y /\ first # y
  <2>1. first \in Object /\ last \in Object /\ y \in Object /\ h \in Heap
    BY <1>6, NodeWords DEF RingState
  <2>2. QED
    BY <1>5, <1>6, <1>7, <2>1
<1>9. /\ g \in Heap
      /\ Tied(g, p, first) /\ Tied(g, last, q) /\ Tied(g, y, y)
      /\ NextKept(h, g, {p, last, y}) /\ PrevKept(h, g, {first, q, y})
  <2>1. Spliceable(h, y, p, q, first, last)
    BY <1>2, <1>8 DEF Spliceable
  <2>2. QED
    BY <1>3, <2>1, SpliceEffect
<1>10. Ring(g, w \o t)
  <2>1. /\ \A r \in In(w) : r # End(w) => g.next[r] = h.next[r]
        /\ \A r \in In(w) : r # Start(w) => g.prev[r] = h.prev[r]
    BY <1>2, <1>5, <1>6, <1>7, <1>9 DEF NextKept, PrevKept
  <2>2. /\ \A r \in In(t) : r # End(t) => g.next[r] = h.next[r]
        /\ \A r \in In(t) : r # Start(t) => g.prev[r] = h.prev[r]
    BY <1>2, <1>5, <1>6, <1>7, <1>9, NodeWords DEF NextKept, PrevKept
  <2>3. Tied(g, End(w), Start(t)) /\ Tied(g, End(t), Start(w))
    BY <1>2, <1>6, <1>9
  <2>4. QED
    BY <1>5, <1>6, <1>7, <2>1, <2>2, <2>3, LinkIn
<1>11. /\ (a \o t) \o b \in Seq(Node) /\ In((a \o t) \o b) = In(a) \cup In(t) \cup In(b)
       /\ Ring(g, One(x) \o ((a \o t) \o b))
  BY <1>0, <1>1, <1>6, <1>10, AroundWord
<1>12. <<>> \in Seq(Node) /\ In(<<>>) = {} /\ Ring(g, One(y) \o <<>>)
  <2>1. One(y) \o <<>> = One(y)
    BY <1>8, OneObject, ConcatEmptySeq
  <2>2. Ring(g, One(y))
    BY <1>8, <1>9, OneStrand, OneObject DEF Ring
  <2>3. QED
    BY <2>1, <2>2 DEF In
<1>13. \A r \in Object : r \notin {x, y} \cup In(l[x]) \cup In(l[y])
                            => g.next[r] = h.next[r] /\ g.prev[r] = h.prev[r]
  <2>1. {p, last, y} \cup {first, q, y} \subseteq {x, y} \cup In(l[x]) \cup In(l[y])
    BY <1>4, <1>5, <1>6
  <2>2. QED
    BY <1>9, <2>1 DEF NextKept, PrevKept
<1>14. PICK s : s = (a \o t) \o b
  OBVIOUS
<1>15. /\ s \in Seq(Node) /\ Ring(g, One(x) \o s) /\ In(s) \cap In(<<>>) = {}
       /\ In(s) \cup In(<<>>) \subseteq In(l[x]) \cup In(l[y])
  <2>1. In(l[x]) = In(a) \cup In(b)
    BY <1>0, Around
  <2>2. QED
    BY <1>4, <1>11, <1>12, <1>14, <2>1
<1>16. RingState(g, Put(Put(l, x, s), y, <<>>))
  BY <1>0, <1>9, <1>12, <1>13, <1>15, ChangeTwo
<1>17. QED
  BY <1>1, <1>2, <1>3, <1>4, <1>14, <1>16

-----------------------------------------------------------------------------
(* Where the contract finds an entry.                                      *)
S == INSTANCE ListSeq

Contract(l) == l \in [ListHead -> Seq(Node)] /\ Apart(l)

LEMMA OnIsIn ==
  ASSUME lists \in [ListHead -> Seq(Node)]
  PROVE  /\ \A x \in ListHead : S!On(x) = In(lists[x])
         /\ S!Free = Spare(lists)
         /\ \A n : n \in S!Linked <=> \E x \in ListHead : n \in In(lists[x])
<1>1. ASSUME NEW x \in ListHead PROVE S!On(x) = In(lists[x])
  <2>1. DOMAIN lists[x] = 1..Len(lists[x])
    BY LenProperties
  <2>2. QED
    BY <2>1 DEF S!On, In
<1>2. \A n : n \in S!Linked <=> \E x \in ListHead : n \in In(lists[x])
  BY <1>1 DEF S!Linked
<1>3. S!Free = Spare(lists)
  BY <1>2 DEF S!Free, Spare
<1>4. QED
  BY <1>1, <1>2, <1>3

Before(s, i) == SubSeq(s, 1, i - 1)

Behind(s, i) == SubSeq(s, i + 1, Len(s))

LEMMA SplitAt ==
  ASSUME NEW s \in Seq(Node), NEW i \in 1..Len(s)
  PROVE  /\ Before(s, i) \in Seq(Node) /\ Behind(s, i) \in Seq(Node)
         /\ One(s[i]) \in Seq(Node)
         /\ s = (Before(s, i) \o One(s[i])) \o Behind(s, i)
         /\ SubSeq(s, 1, i) = Before(s, i) \o One(s[i])
         /\ SubSeq(s, i, Len(s)) = One(s[i]) \o Behind(s, i)
<1>1. /\ Len(s) \in Nat /\ i \in Nat /\ i >= 1 /\ i <= Len(s)
      /\ 1 \in 1..Len(s) /\ i \in 1..Len(s) /\ i \in i..Len(s) /\ Len(s) \in i..Len(s)
      /\ 1 \in 1..(Len(s) + 1) /\ i \in (1 - 1)..Len(s)
      /\ \A j \in 1..Len(s) : s[j] \in Node
  BY LenProperties
<1>2. Before(s, i) \in Seq(Node)
  <2>1. \A j \in 1..(i - 1) : s[j] \in Node
    BY <1>1
  <2>2. QED
    BY <1>1, <2>1, SubSeqProperties DEF Before
<1>3. Behind(s, i) \in Seq(Node)
  <2>1. \A j \in (i + 1)..Len(s) : s[j] \in Node
    BY <1>1
  <2>2. QED
    BY <1>1, <2>1, SubSeqProperties DEF Behind
<1>4. SubSeq(s, 1, i) = Before(s, i) \o One(s[i])
  <2>1. i \in 1..Len(s)
    OBVIOUS
  <2>2. QED
    BY <1>1, <2>1, SubSeqRecursiveSecond DEF Before, One
<1>5. SubSeq(s, i, Len(s)) = One(s[i]) \o Behind(s, i)
  BY <1>1, SubSeqRecursiveFirst DEF Behind, One
<1>6. SubSeq(s, 1, i) \o Behind(s, i) = s
  BY <1>1, ConcatAdjacentSubSeq, SubSeqFull DEF Behind
<1>7. One(s[i]) \in Seq(Node)
  BY <1>1 DEF One
<1>8. QED
  BY <1>2, <1>3, <1>4, <1>5, <1>6, <1>7

LEMMA Where ==
  ASSUME Contract(lists), NEW n, n \in S!Linked
  PROVE  /\ S!HeadOf(n) \in ListHead /\ n \in In(lists[S!HeadOf(n)])
         /\ S!Pos(n) \in 1..Len(lists[S!HeadOf(n)])
         /\ lists[S!HeadOf(n)][S!Pos(n)] = n
         /\ \A z \in ListHead : n \in In(lists[z]) => z = S!HeadOf(n)
         /\ Lies(lists, S!HeadOf(n), Before(lists[S!HeadOf(n)], S!Pos(n)), n,
                 Behind(lists[S!HeadOf(n)], S!Pos(n)))
<1>1. lists \in [ListHead -> Seq(Node)] /\ Apart(lists)
  BY DEF Contract
<1>2. PICK x : x = S!HeadOf(n)
  OBVIOUS
<1>3. x \in ListHead /\ n \in S!On(x)
  <2>1. \E z \in ListHead : n \in S!On(z)
    BY <1>1 DEF S!Linked
  <2>2. QED
    BY <1>2, <2>1 DEF S!HeadOf
<1>4. n \in In(lists[x]) /\ lists[x] \in Seq(Node)
  BY <1>1, <1>3, OnIsIn
<1>5. PICK i : i = S!Pos(n)
  OBVIOUS
<1>6. i \in 1..Len(lists[x]) /\ lists[x][i] = n
  <2>1. DOMAIN lists[x] = 1..Len(lists[x])
    BY <1>4, LenProperties
  <2>2. \E j \in 1..Len(lists[x]) : lists[x][j] = n
    BY <1>4 DEF In
  <2>3. i = CHOOSE j \in DOMAIN lists[x] : lists[x][j] = n
    BY <1>2, <1>5 DEF S!Pos
  <2>4. QED
    BY <2>1, <2>2, <2>3
<1>7. \A z \in ListHead : n \in In(lists[z]) => z = x
  BY <1>1, <1>3, <1>4 DEF Apart
<1>8. Lies(lists, x, Before(lists[x], i), n, Behind(lists[x], i))
  <2>1. n \in Node
    BY <1>4, <1>6, ElementOfSeq
  <2>2. QED
    BY <1>3, <1>4, <1>6, <2>1, SplitAt DEF Lies
<1>9. QED
  BY <1>2, <1>3, <1>4, <1>5, <1>6, <1>7, <1>8

LEMMA WithoutIs ==
  ASSUME NEW n
  PROVE  S!Without(n) = Put(lists, S!HeadOf(n),
                            Before(lists[S!HeadOf(n)], S!Pos(n))
                            \o Behind(lists[S!HeadOf(n)], S!Pos(n)))
  BY DEF S!Without, Put, S!RemoveAt, Before, Behind

(* Both kinds of lists have this contract.                                 *)
LEMMA RingContract ==
  /\ R!L!Free = S!Free /\ R!L!Linked = S!Linked
  /\ \A x : R!L!On(x) = S!On(x)
  /\ \A n : R!L!HeadOf(n) = S!HeadOf(n) /\ R!L!Pos(n) = S!Pos(n) /\ R!L!Without(n) = S!Without(n)
  /\ \A n, m : R!L!Exchange(n, m) = S!Exchange(n, m)
<1>1. \A x : R!L!On(x) = S!On(x)
  BY DEF R!L!On, S!On
<1>2. R!L!Linked = S!Linked /\ R!L!Free = S!Free
  BY <1>1 DEF R!L!Linked, S!Linked, R!L!Free, S!Free
<1>3. ASSUME NEW n PROVE R!L!HeadOf(n) = S!HeadOf(n)
  BY <1>1 DEF R!L!HeadOf, S!HeadOf
<1>4. ASSUME NEW n PROVE R!L!Pos(n) = S!Pos(n)
  BY <1>3 DEF R!L!Pos, S!Pos
<1>5. ASSUME NEW n PROVE R!L!Without(n) = S!Without(n)
  BY <1>3, <1>4 DEF R!L!Without, S!Without, R!L!RemoveAt, S!RemoveAt
<1>6. ASSUME NEW n, NEW m PROVE R!L!Exchange(n, m) = S!Exchange(n, m)
  BY DEF R!L!Exchange, S!Exchange
<1>7. QED
  BY <1>1, <1>2, <1>3, <1>4, <1>5, <1>6

-----------------------------------------------------------------------------
(* The calls, one by one.                                                  *)
RState == RingState(rings, lists)

LEMMA InContract ==
  ASSUME NEW h, RingState(h, lists)
  PROVE  /\ lists \in [ListHead -> Seq(Node)] /\ Contract(lists)
         /\ \A x \in ListHead : R!L!On(x) = In(lists[x])
         /\ R!L!Free = Spare(lists)
<1>1. lists \in [ListHead -> Seq(Node)] /\ Contract(lists)
  BY DEF RingState, Contract
<1>2. QED
  BY <1>1, OnIsIn, RingContract

LEMMA AppendOne ==
  ASSUME NEW s \in Seq(Node), NEW n \in Node
  PROVE  Append(s, n) = s \o One(n)
  BY AppendIsConcat DEF One

LEMMA InsertStep ==
  ASSUME RState, NEW n \in Node, NEW x \in ListHead, R!Insert(n, x)
  PROVE  RState'
<1>0. RingState(rings, lists)
  BY DEF RState
<1>1. lists[x] \in Seq(Node) /\ R!L!Free = Spare(lists)
  BY <1>0, InContract
<1>2. CASE R!L!Add(n, x) /\ rings' = R!list_add(rings, n, x)
  <2>1. n \in Spare(lists) /\ lists' = Put(lists, x, One(n) \o lists[x])
    BY <1>1, <1>2 DEF R!L!Add, Put, One
  <2>2. QED
    BY <1>0, <1>2, <2>1, AddState DEF RState
<1>3. CASE R!L!AddTail(n, x) /\ rings' = R!list_add_tail(rings, n, x)
  <2>1. n \in Spare(lists) /\ lists' = Put(lists, x, lists[x] \o One(n))
    BY <1>1, <1>3, AppendOne DEF R!L!AddTail, Put
  <2>2. QED
    BY <1>0, <1>3, <2>1, AddTailState DEF RState
<1>4. QED
  BY <1>2, <1>3 DEF R!Insert

LEMMA PoisonPointer ==
  R!NULL \in Pointer /\ R!LIST_POISON1 \in Pointer /\ R!LIST_POISON2 \in Pointer
  BY DEF Pointer

(* Where the contract finds n, and the sequences without it.               *)
LEMMA Leaves ==
  ASSUME NEW h, RingState(h, lists), NEW n, n \in R!L!Linked
  PROVE  \E x, a, b : /\ Lies(lists, x, a, n, b)
                      /\ R!L!Without(n) = Put(lists, x, a \o b)
                      /\ x = R!L!HeadOf(n)
                      /\ a = Before(lists[x], R!L!Pos(n)) /\ b = Behind(lists[x], R!L!Pos(n))
<1>1. Contract(lists) /\ n \in S!Linked
  BY InContract, RingContract
<1>2. PICK x, i : x = S!HeadOf(n) /\ i = S!Pos(n)
  OBVIOUS
<1>3. Lies(lists, x, Before(lists[x], i), n, Behind(lists[x], i))
  BY <1>1, <1>2, Where
<1>4. R!L!Without(n) = Put(lists, x, Before(lists[x], i) \o Behind(lists[x], i))
  BY <1>2, WithoutIs, RingContract
<1>5. x = R!L!HeadOf(n) /\ i = R!L!Pos(n)
  BY <1>2, RingContract
<1>6. QED
  BY <1>3, <1>4, <1>5

LEMMA DeleteStep ==
  ASSUME RState, NEW n \in Node, R!Delete(n)
  PROVE  RState'
<1>0. RingState(rings, lists) /\ n \in R!L!Linked /\ lists' = R!L!Without(n)
  BY DEF RState, R!Delete, R!L!Delete
<1>1. PICK x, a, b : Lies(lists, x, a, n, b) /\ R!L!Without(n) = Put(lists, x, a \o b)
  BY <1>0, Leaves
<1>2. PICK k, g : k = Put(lists, x, a \o b) /\ g = R!ListDelEntry(rings, n)
  OBVIOUS
<1>3. RingState(g, k) /\ n \in Spare(k) /\ lists' = k
  BY <1>0, <1>1, <1>2, DelEntryState
<1>4. n \in Pointer /\ n \in Object
  BY NodeWords, ObjectPointer
<1>5. CASE rings' = R!list_del(rings, n)
  <2>1. RingState(R!SetNext(g, n, R!LIST_POISON1), k)
    BY <1>3, PoisonPointer, StateSpare
  <2>2. RingState(R!SetPrev(R!SetNext(g, n, R!LIST_POISON1), n, R!LIST_POISON2), k)
    BY <1>3, <2>1, PoisonPointer, StateSpare
  <2>3. QED
    BY <1>2, <1>3, <1>5, <2>2 DEF R!list_del, RState
<1>6. CASE rings' = R!list_del_init(rings, n)
  BY <1>2, <1>3, <1>6, StateInitSpare DEF R!list_del_init, RState
<1>7. CASE rings' = R!list_del_init_careful(rings, n)
  <2>1. RingState(R!SetPrev(g, n, n), k)
    BY <1>3, <1>4, StateSpare
  <2>2. RingState(R!SetNext(R!SetPrev(g, n, n), n, n), k)
    BY <1>3, <1>4, <2>1, StateSpare
  <2>3. QED
    BY <1>2, <1>3, <1>7, <2>2 DEF R!list_del_init_careful, RState
<1>8. CASE rings' = R!ListDelClearprev(rings, n)
  <2>1. RingState(R!SetPrev(g, n, R!NULL), k)
    BY <1>3, PoisonPointer, StateSpare
  <2>2. QED
    BY <1>2, <1>3, <1>8, <2>1 DEF R!ListDelClearprev, RState
<1>9. QED
  BY <1>5, <1>6, <1>7, <1>8 DEF R!Delete

(* list_move() and list_move_tail() (list.h:201-217).                      *)
LEMMA MoveState ==
  ASSUME NEW h, NEW l, RingState(h, l), NEW z, NEW a, NEW n, NEW b, Lies(l, z, a, n, b),
         NEW x \in ListHead, NEW k, k = Put(l, z, a \o b)
  PROVE  /\ RingState(R!list_move(h, n, x), Put(k, x, One(n) \o k[x]))
         /\ RingState(R!list_move_tail(h, n, x), Put(k, x, k[x] \o One(n)))
<1>1. PICK g : g = R!ListDelEntry(h, n)
  OBVIOUS
<1>2. RingState(g, k) /\ n \in Spare(k)
  BY <1>1, DelEntryState
<1>3. QED
  BY <1>1, <1>2, AddState, AddTailState DEF R!list_move, R!list_move_tail

LEMMA MoveStep ==
  ASSUME RState, NEW n \in Node, NEW x \in ListHead, R!Move(n, x)
  PROVE  RState'
<1>0. RingState(rings, lists) /\ n \in R!L!Linked
  BY DEF RState, R!Move, R!L!Move, R!L!MoveTail
<1>1. PICK z, a, b : Lies(lists, z, a, n, b) /\ R!L!Without(n) = Put(lists, z, a \o b)
  BY <1>0, Leaves
<1>2. PICK k : k = Put(lists, z, a \o b)
  OBVIOUS
<1>3. /\ RingState(R!list_move(rings, n, x), Put(k, x, One(n) \o k[x]))
      /\ RingState(R!list_move_tail(rings, n, x), Put(k, x, k[x] \o One(n)))
  BY <1>0, <1>1, <1>2, MoveState
<1>4. k[x] \in Seq(Node)
  BY <1>0, <1>1, <1>2, DelEntryState DEF RingState
<1>5. CASE R!L!Move(n, x) /\ rings' = R!list_move(rings, n, x)
  <2>1. lists' = Put(k, x, One(n) \o k[x])
    BY <1>1, <1>2, <1>5 DEF R!L!Move, Put, One
  <2>2. QED
    BY <1>3, <1>5, <2>1 DEF RState
<1>6. CASE R!L!MoveTail(n, x) /\ rings' = R!list_move_tail(rings, n, x)
  <2>1. lists' = Put(k, x, k[x] \o One(n))
    <3>1. Append(k[x], n) = k[x] \o One(n)
      BY <1>4, AppendOne
    <3>2. lists' = [k EXCEPT ![x] = Append(k[x], n)]
      BY <1>1, <1>2, <1>6 DEF R!L!MoveTail
    <3>3. QED
      BY <3>1, <3>2 DEF Put
  <2>2. QED
    BY <1>3, <1>6, <2>1 DEF RState
<1>7. QED
  BY <1>5, <1>6 DEF R!Move

-----------------------------------------------------------------------------
(* Two entries that trade places.                                          *)
Other(r, n, m) == CASE r = n -> m
                    [] r = m -> n
                    [] OTHER -> r

Trade(s, n, m) == [i \in 1..Len(s) |-> Other(s[i], n, m)]

LEMMA OtherFacts ==
  ASSUME NEW n, NEW m, NEW T, n \in T, m \in T
  PROVE  /\ Other(n, n, m) = m /\ Other(m, n, m) = n
         /\ \A r : r # n /\ r # m => Other(r, n, m) = r
         /\ \A r \in T : Other(r, n, m) \in T
  BY DEF Other

LEMMA TradeFacts ==
  ASSUME NEW T, NEW n \in T, NEW m \in T, NEW s \in Seq(T)
  PROVE  /\ Trade(s, n, m) \in Seq(T) /\ Len(Trade(s, n, m)) = Len(s)
         /\ \A i \in 1..Len(s) : Trade(s, n, m)[i] = Other(s[i], n, m)
         /\ n \notin In(s) /\ m \notin In(s) => Trade(s, n, m) = s
<1>1. Len(s) \in Nat /\ \A i \in 1..Len(s) : s[i] \in T
  BY LenProperties
<1>2. Trade(s, n, m) \in [1..Len(s) -> T]
  BY <1>1, OtherFacts DEF Trade
<1>3. Trade(s, n, m) \in Seq(T)
  BY <1>1, <1>2, SeqDef
<1>4. Len(Trade(s, n, m)) = Len(s)
  BY <1>1, <1>2, <1>3, LenProperties
<1>5. \A i \in 1..Len(s) : Trade(s, n, m)[i] = Other(s[i], n, m)
  BY DEF Trade
<1>6. ASSUME n \notin In(s), m \notin In(s)
      PROVE  Trade(s, n, m) = s
  <2>1. \A i \in 1..Len(s) : Trade(s, n, m)[i] = s[i]
    BY <1>5, <1>6, OtherFacts DEF In
  <2>2. QED
    BY <1>3, <1>4, <2>1, SeqEqual
<1>7. QED
  BY <1>3, <1>4, <1>5, <1>6

LEMMA TradeJoined ==
  ASSUME NEW n \in Object, NEW m \in Object, NEW u \in Seq(Object), NEW v \in Seq(Object)
  PROVE  Trade(u \o v, n, m) = Trade(u, n, m) \o Trade(v, n, m)
<1>1. PICK c, d, s : c = Trade(u, n, m) /\ d = Trade(v, n, m) /\ s = u \o v
  OBVIOUS
<1>2. /\ s \in Seq(Object) /\ Len(u) \in Nat /\ Len(v) \in Nat /\ Len(s) = Len(u) + Len(v)
      /\ \A i \in 1..Len(u) : s[i] = u[i]
      /\ \A i \in 1..Len(s) :
           i \in 1..Len(u) \/ (i - Len(u) \in 1..Len(v) /\ s[i] = v[i - Len(u)])
  BY <1>1, Joined
<1>3. /\ c \in Seq(Object) /\ Len(c) = Len(u) /\ d \in Seq(Object) /\ Len(d) = Len(v)
      /\ \A i \in 1..Len(u) : c[i] = Other(u[i], n, m)
      /\ \A i \in 1..Len(v) : d[i] = Other(v[i], n, m)
  BY <1>1, TradeFacts
<1>4. /\ Trade(s, n, m) \in Seq(Object) /\ Len(Trade(s, n, m)) = Len(s)
      /\ \A i \in 1..Len(s) : Trade(s, n, m)[i] = Other(s[i], n, m)
  BY <1>2, TradeFacts
<1>5. /\ c \o d \in Seq(Object) /\ Len(c \o d) = Len(c) + Len(d)
      /\ \A i \in 1..Len(c) : (c \o d)[i] = c[i]
      /\ \A i \in 1..Len(d) : (c \o d)[Len(c) + i] = d[i]
  <2>1. c \in Seq(Object) /\ d \in Seq(Object)
    BY <1>3
  <2>2. QED
    BY <2>1, Joined
<1>6. ASSUME NEW i \in 1..Len(s) PROVE Trade(s, n, m)[i] = (c \o d)[i]
  <2>1. CASE i \in 1..Len(u)
    BY <1>2, <1>3, <1>4, <1>5, <2>1
  <2>2. CASE i \notin 1..Len(u)
    <3>1. i - Len(u) \in 1..Len(v) /\ s[i] = v[i - Len(u)]
      BY <1>2, <2>2
    <3>2. PICK j \in 1..Len(v) : j = i - Len(u)
      BY <3>1
    <3>3. i = Len(c) + j
      BY <1>2, <1>3, <3>2
    <3>4. (c \o d)[i] = Other(v[j], n, m)
      BY <1>3, <1>5, <3>2, <3>3
    <3>5. QED
      BY <1>4, <3>1, <3>2, <3>4
  <2>3. QED
    BY <2>1, <2>2
<1>7. Trade(s, n, m) = c \o d
  BY <1>2, <1>3, <1>4, <1>5, <1>6, SeqEqual
<1>8. QED
  BY <1>1, <1>7

LEMMA TradeOne ==
  ASSUME NEW n \in Object, NEW m \in Object, NEW r \in Object
  PROVE  Trade(One(r), n, m) = One(Other(r, n, m))
<1>1. PICK o, q : o = One(r) /\ q = One(Other(r, n, m))
  OBVIOUS
<1>2. o \in Seq(Object) /\ Len(o) = 1 /\ o[1] = r
  BY <1>1 DEF One
<1>3. Other(r, n, m) \in Object
  BY OtherFacts
<1>4. q \in Seq(Object) /\ Len(q) = 1 /\ q[1] = Other(r, n, m)
  BY <1>1, <1>3 DEF One
<1>5. /\ Trade(o, n, m) \in Seq(Object) /\ Len(Trade(o, n, m)) = 1
      /\ \A i \in 1..1 : Trade(o, n, m)[i] = Other(o[i], n, m)
  BY <1>2, TradeFacts
<1>6. \A i \in 1..1 : Trade(o, n, m)[i] = q[i]
  BY <1>2, <1>4, <1>5
<1>7. Trade(o, n, m) = q
  BY <1>4, <1>5, <1>6, SeqEqual
<1>8. QED
  BY <1>1, <1>7

(* A word with a marked entry, after the trade.                            *)
LEMMA TradeAt ==
  ASSUME NEW n \in Object, NEW m \in Object, NEW a \in Seq(Object), NEW r \in Object, NEW b \in Seq(Object)
  PROVE  Trade((a \o One(r)) \o b, n, m)
           = (Trade(a, n, m) \o One(Other(r, n, m))) \o Trade(b, n, m)
<1>0. One(r) \in Seq(Object)
  BY OneObject
<1>1. PICK o \in Seq(Object) : o = One(r)
  BY <1>0
<1>2. PICK c \in Seq(Object) : c = a \o o
  BY <1>1, Joined
<1>3. Trade(c \o b, n, m) = Trade(c, n, m) \o Trade(b, n, m)
  <2>1. c \in Seq(Object)
    BY <1>2
  <2>2. QED
    BY <2>1, TradeJoined, ZenonT(20)
<1>4. Trade(a \o o, n, m) = Trade(a, n, m) \o Trade(o, n, m)
  <2>1. o \in Seq(Object)
    BY <1>1
  <2>2. QED
    BY <2>1, TradeJoined, ZenonT(20)
<1>5. Trade(One(r), n, m) = One(Other(r, n, m))
  BY TradeOne
<1>6. QED
  BY <1>1, <1>2, <1>3, <1>4, <1>5

All(l, n, m) == [z \in ListHead |-> Trade(l[z], n, m)]

LEMMA ExchangeIsAll ==
  ASSUME lists \in [ListHead -> Seq(Node)], NEW n, NEW m
  PROVE  R!L!Exchange(n, m) = All(lists, n, m)
<1>1. \A z \in ListHead : DOMAIN lists[z] = 1..Len(lists[z])
  BY LenProperties
<1>2. QED
  BY <1>1 DEF R!L!Exchange, All, Trade, Other

(* When m is on no list, the trade is n's place for m.                     *)
LEMMA TradeSpare ==
  ASSUME NEW h, NEW l, RingState(h, l), NEW x, NEW a, NEW n, NEW b, Lies(l, x, a, n, b),
         NEW m \in Spare(l)
  PROVE  All(l, n, m) = Put(l, x, (a \o One(m)) \o b)
<1>0. /\ x \in ListHead /\ n \in Node /\ a \in Seq(Node) /\ b \in Seq(Node)
      /\ l[x] = (a \o One(n)) \o b /\ m \in Node
  BY DEF Lies, Spare
<1>1. l \in [ListHead -> Seq(Node)] /\ \A z \in ListHead : m \notin In(l[z])
  BY DEF RingState, Spare
<1>2. /\ n \notin In(a) /\ n \notin In(b) /\ n \in In(l[x])
      /\ In(l[x]) = In(a) \cup {n} \cup In(b)
  <2>1. PICK w : w = Rest(x, a, b)
    OBVIOUS
  <2>2. /\ n \notin In(w) /\ In(w) = {x} \cup In(a) \cup In(b)
        /\ In(l[x]) = In(a) \cup {n} \cup In(b)
    BY <2>1, Neighbours
  <2>3. QED
    BY <2>2
<1>3. m \notin In(a) /\ m \notin In(b)
  BY <1>0, <1>1, <1>2
<1>4. Trade(a, n, m) = a /\ Trade(b, n, m) = b
  BY <1>0, <1>2, <1>3, TradeFacts
<1>5. Trade(l[x], n, m) = (a \o One(m)) \o b
  <2>1. Trade((a \o One(n)) \o b, n, m)
           = (Trade(a, n, m) \o One(Other(n, n, m))) \o Trade(b, n, m)
    <3>1. n \in Object /\ m \in Object /\ a \in Seq(Object) /\ b \in Seq(Object)
      BY <1>0, NodeWords
    <3>2. QED
      BY <3>1, TradeAt, ZenonT(20)
  <2>2. Other(n, n, m) = m
    BY DEF Other
  <2>3. QED
    BY <1>0, <1>4, <2>1, <2>2
<1>6. ASSUME NEW z \in ListHead, z # x PROVE Trade(l[z], n, m) = l[z]
  <2>1. n \notin In(l[z]) /\ m \notin In(l[z]) /\ l[z] \in Seq(Node)
    BY <1>0, <1>1, <1>2, <1>6 DEF RingState, Apart
  <2>2. QED
    BY <1>0, <2>1, TradeFacts
<1>7. QED
  BY <1>0, <1>1, <1>5, <1>6 DEF All, Put

LEMMA ReplaceStep ==
  ASSUME RState, NEW n \in Node, NEW m \in Node, R!Replace(n, m)
  PROVE  RState'
<1>0. /\ RingState(rings, lists) /\ n \in R!L!Linked /\ m \in R!L!Free
      /\ lists' = R!L!Exchange(n, m)
  BY DEF RState, R!Replace, R!L!Replace
<1>1. lists \in [ListHead -> Seq(Node)] /\ m \in Spare(lists)
  BY <1>0, InContract
<1>2. PICK x, a, b : Lies(lists, x, a, n, b)
  BY <1>0, Leaves
<1>3. PICK k, g : k = Put(lists, x, (a \o One(m)) \o b) /\ g = R!list_replace(rings, n, m)
  OBVIOUS
<1>4. RingState(g, k) /\ n \in Spare(k)
  BY <1>0, <1>1, <1>2, <1>3, ReplaceState
<1>5. lists' = k
  <2>1. lists' = All(lists, n, m)
    BY <1>0, <1>1, ExchangeIsAll
  <2>2. All(lists, n, m) = k
    BY <1>0, <1>1, <1>2, <1>3, TradeSpare
  <2>3. QED
    BY <2>1, <2>2
<1>6. CASE rings' = g
  BY <1>4, <1>5, <1>6 DEF RState
<1>7. CASE rings' = R!INIT_LIST_HEAD(g, n)
  BY <1>4, <1>5, <1>7, StateInitSpare DEF RState
<1>8. QED
  BY <1>3, <1>6, <1>7 DEF R!Replace, R!list_replace_init

(* list_del() (list.h:132-137).                                            *)
LEMMA DelState ==
  ASSUME NEW h, NEW l, RingState(h, l), NEW x, NEW a, NEW n, NEW b, Lies(l, x, a, n, b),
         NEW k, k = Put(l, x, a \o b)
  PROVE  RingState(R!list_del(h, n), k) /\ n \in Spare(k)
<1>1. PICK g : g = R!ListDelEntry(h, n)
  OBVIOUS
<1>2. RingState(g, k) /\ n \in Spare(k)
  BY <1>1, DelEntryState
<1>3. RingState(R!SetNext(g, n, R!LIST_POISON1), k)
  BY <1>2, PoisonPointer, StateSpare
<1>4. RingState(R!SetPrev(R!SetNext(g, n, R!LIST_POISON1), n, R!LIST_POISON2), k)
  BY <1>2, <1>3, PoisonPointer, StateSpare
<1>5. QED
  BY <1>1, <1>2, <1>4 DEF R!list_del

LEMMA LiesThere ==
  ASSUME NEW l \in [ListHead -> Seq(Node)], NEW x \in ListHead, NEW n \in Node, n \in In(l[x])
  PROVE  \E a, b : Lies(l, x, a, n, b)
<1>1. PICK s \in Seq(Node) : s = l[x]
  OBVIOUS
<1>2. PICK i \in 1..Len(s) : s[i] = n
  BY <1>1 DEF In
<1>3. /\ Before(s, i) \in Seq(Node) /\ Behind(s, i) \in Seq(Node)
      /\ s = (Before(s, i) \o One(s[i])) \o Behind(s, i)
  BY <1>1, <1>2, SplitAt
<1>4. QED
  BY <1>1, <1>2, <1>3 DEF Lies

(* The way round without an entry, after a trade that leaves the head.     *)
LEMMA TradeRest ==
  ASSUME NEW n \in Node, NEW m \in Node, NEW y \in ListHead,
         NEW c \in Seq(Node), NEW d \in Seq(Node)
  PROVE  /\ Trade(c, n, m) \in Seq(Node) /\ Trade(d, n, m) \in Seq(Node)
         /\ Trade(c \o d, n, m) = Trade(c, n, m) \o Trade(d, n, m)
         /\ Rest(y, Trade(c, n, m), Trade(d, n, m)) = Trade(Rest(y, c, d), n, m)
         /\ End(Trade(Rest(y, c, d), n, m)) = Other(End(Rest(y, c, d)), n, m)
<1>1. /\ n \in Object /\ m \in Object /\ c \in Seq(Object) /\ d \in Seq(Object)
      /\ y \in Object /\ y # n /\ y # m
  BY NodeWords
<1>2. Trade(c, n, m) \in Seq(Node) /\ Trade(d, n, m) \in Seq(Node)
  BY TradeFacts
<1>3. Trade(c \o d, n, m) = Trade(c, n, m) \o Trade(d, n, m)
  BY <1>1, TradeJoined
<1>4. One(y) \in Seq(Object) /\ Trade(One(y), n, m) = One(y)
  <2>1. One(y) \in Seq(Object)
    BY <1>1, OneObject
  <2>2. Trade(One(y), n, m) = One(Other(y, n, m))
    BY <1>1, TradeOne
  <2>3. Other(y, n, m) = y
    BY <1>1 DEF Other
  <2>4. QED
    BY <2>1, <2>2, <2>3
<1>5. PICK o \in Seq(Object) : o = One(y)
  BY <1>4
<1>6. PICK u \in Seq(Object) : u = o \o c
  BY <1>1, <1>5, Joined
<1>7. Trade(u, n, m) = Trade(o, n, m) \o Trade(c, n, m)
  <2>1. n \in Object /\ m \in Object /\ o \in Seq(Object) /\ c \in Seq(Object)
    BY <1>1, <1>5
  <2>2. Trade(o \o c, n, m) = Trade(o, n, m) \o Trade(c, n, m)
    BY <2>1, TradeJoined
  <2>3. QED
    BY <1>6, <2>2
<1>8. Trade(d \o u, n, m) = Trade(d, n, m) \o Trade(u, n, m)
  <2>1. n \in Object /\ m \in Object /\ d \in Seq(Object) /\ u \in Seq(Object)
    BY <1>1, <1>6
  <2>2. QED
    BY <2>1, TradeJoined
<1>9. Rest(y, Trade(c, n, m), Trade(d, n, m)) = Trade(Rest(y, c, d), n, m)
  BY <1>4, <1>5, <1>6, <1>7, <1>8 DEF Rest
<1>10. End(Trade(Rest(y, c, d), n, m)) = Other(End(Rest(y, c, d)), n, m)
  <2>1. PICK w \in Seq(Object) : w = Rest(y, c, d) /\ w # <<>>
    BY Around
  <2>2. Len(w) \in 1..Len(w)
    BY <2>1, EmptySeq
  <2>3. /\ Len(Trade(w, n, m)) = Len(w)
        /\ \A i \in 1..Len(w) : Trade(w, n, m)[i] = Other(w[i], n, m)
    BY <1>1, <2>1, TradeFacts
  <2>4. End(Trade(w, n, m)) = Other(End(w), n, m)
    BY <2>2, <2>3 DEF End
  <2>5. QED
    BY <2>1, <2>4
<1>11. QED
  BY <1>2, <1>3, <1>9, <1>10

LEMMA SwapStep ==
  ASSUME RState, NEW n \in Node, NEW m \in Node, R!Swap(n, m)
  PROVE  RState'
<1>0. /\ RingState(rings, lists) /\ n \in R!L!Linked /\ m \in R!L!Linked /\ n # m
      /\ lists' = R!L!Exchange(n, m) /\ rings' = R!list_swap(rings, n, m)
  BY DEF RState, R!Swap, R!L!Swap
<1>1. lists \in [ListHead -> Seq(Node)]
  BY <1>0, InContract
<1>2. PICK y, c, d : Lies(lists, y, c, m, d)
  BY <1>0, Leaves
<1>3. /\ y \in ListHead /\ c \in Seq(Node) /\ d \in Seq(Node)
      /\ lists[y] = (c \o One(m)) \o d
  BY <1>2 DEF Lies
<1>4. PICK l1, h1 : l1 = Put(lists, y, c \o d) /\ h1 = R!list_del(rings, m)
  OBVIOUS
<1>5. RingState(h1, l1) /\ m \in Spare(l1)
  BY <1>0, <1>2, <1>4, DelState
<1>6. /\ l1 \in [ListHead -> Seq(Node)] /\ l1[y] = c \o d
      /\ \A z \in ListHead : z # y => l1[z] = lists[z]
  <2>1. PICK t \in Seq(Node) : t = c \o d
    BY <1>3, Joined
  <2>2. l1 = Put(lists, y, t) /\ y \in ListHead /\ t \in Seq(Node)
    BY <1>3, <1>4, <2>1
  <2>3. /\ l1 \in [ListHead -> Seq(Node)] /\ l1[y] = t
        /\ \A z \in ListHead : z # y => l1[z] = lists[z]
    BY <1>1, <2>2, PutFacts, SMTT(20)
  <2>4. QED
    BY <2>1, <2>3
<1>7. PICK x \in ListHead : n \in In(l1[x])
  <2>1. PICK x \in ListHead : n \in In(lists[x])
    <3>1. n \in S!Linked
      BY <1>0, RingContract
    <3>2. QED
      BY <1>1, <3>1, OnIsIn
  <2>2. CASE x # y
    BY <1>6, <2>1, <2>2
  <2>3. CASE x = y
    <3>1. In(lists[y]) = In(c) \cup {m} \cup In(d) /\ In(c \o d) = In(c) \cup In(d)
      <4>1. In((c \o One(m)) \o d) = In(c) \cup {m} \cup In(d)
        BY <1>3, AroundOne
      <4>2. In(c \o d) = In(c) \cup In(d)
        BY <1>3, Around
      <4>3. QED
        BY <1>3, <4>1, <4>2
    <3>2. n \in In(l1[y])
      BY <1>0, <1>6, <2>1, <2>3, <3>1
    <3>3. QED
      BY <1>3, <3>2
  <2>4. QED
    BY <2>2, <2>3
<1>8. PICK a, b : Lies(l1, x, a, n, b)
  BY <1>6, <1>7, LiesThere
<1>9. PICK l2, h2 : l2 = All(l1, n, m) /\ h2 = R!list_replace(h1, n, m)
  OBVIOUS
<1>10. RingState(h2, l2) /\ n \in Spare(l2)
  <2>1. Put(l1, x, (a \o One(m)) \o b) = l2
    BY <1>5, <1>8, <1>9, TradeSpare
  <2>2. QED
    BY <1>5, <1>8, <1>9, <2>1, ReplaceState
<1>11. PICK c2, d2 : c2 = Trade(c, n, m) /\ d2 = Trade(d, n, m)
  OBVIOUS
<1>12. Parts(l2, y, c2, d2)
  <2>1. c2 \in Seq(Node) /\ d2 \in Seq(Node) /\ Trade(c \o d, n, m) = c2 \o d2
    <3>1. c \in Seq(Node) /\ d \in Seq(Node) /\ y \in ListHead
      BY <1>3
    <3>2. /\ Trade(c, n, m) \in Seq(Node) /\ Trade(d, n, m) \in Seq(Node)
          /\ Trade(c \o d, n, m) = Trade(c, n, m) \o Trade(d, n, m)
      BY <3>1, TradeRest
    <3>3. QED
      BY <1>11, <3>2
  <2>2. l2[y] = Trade(l1[y], n, m)
    BY <1>3, <1>9 DEF All
  <2>3. QED
    BY <1>3, <1>6, <2>1, <2>2 DEF Parts
<1>13. PICK w, p, q : w = Rest(y, c2, d2) /\ p = End(w) /\ q = Start(w)
  OBVIOUS
<1>14. RingState(R!ListAddBetween(h2, n, p, q), Put(l2, y, (c2 \o One(n)) \o d2))
  BY <1>10, <1>12, <1>13, InsertBetween
<1>15. h2.next[p] = q
  BY <1>10, <1>12, <1>13, Gap
<1>16. p = IF rings.prev[m] = n THEN m ELSE rings.prev[m]
  <2>1. PICK v : v = Rest(y, c, d)
    OBVIOUS
  <2>2. rings.prev[m] = End(v) /\ End(v) # m
    BY <1>0, <1>2, <2>1, Neighbours
  <2>3. p = Other(End(v), n, m)
    <3>1. /\ Rest(y, Trade(c, n, m), Trade(d, n, m)) = Trade(Rest(y, c, d), n, m)
          /\ End(Trade(Rest(y, c, d), n, m)) = Other(End(Rest(y, c, d)), n, m)
      BY <1>3, TradeRest
    <3>2. QED
      BY <1>11, <1>13, <2>1, <3>1
  <2>4. QED
    BY <2>2, <2>3 DEF Other
<1>17. rings' = R!ListAddBetween(h2, n, p, q)
  BY <1>0, <1>4, <1>9, <1>15, <1>16 DEF R!list_swap, R!list_add
<1>18. lists' = Put(l2, y, (c2 \o One(n)) \o d2)
  <2>1. lists' = All(lists, n, m)
    BY <1>0, <1>1, ExchangeIsAll
  <2>2. Trade(lists[y], n, m) = (c2 \o One(n)) \o d2
    <3>1. n \in Object /\ m \in Object /\ c \in Seq(Object) /\ d \in Seq(Object)
      BY <1>3, NodeWords
    <3>2. Trade((c \o One(m)) \o d, n, m)
            = (Trade(c, n, m) \o One(Other(m, n, m))) \o Trade(d, n, m)
      BY <3>1, TradeAt, ZenonT(20)
    <3>3. Other(m, n, m) = n
      BY <1>0 DEF Other
    <3>4. QED
      BY <1>3, <1>11, <3>2, <3>3
  <2>3. \A z \in ListHead : z # y => l2[z] = Trade(lists[z], n, m)
    BY <1>6, <1>9 DEF All
  <2>4. QED
    BY <1>3, <1>9, <2>1, <2>2, <2>3 DEF All, Put
<1>19. QED
  BY <1>14, <1>17, <1>18 DEF RState

(* list_bulk_move_tail() (list.h:228-240): the entries from first to last  *)
(* come out of the ring, as __list_del() takes one out, and then go before *)
(* the head.                                                               *)
BulkIn(k, x, first, last, t) ==
    R!SetPrev(R!SetNext(R!SetPrev(R!SetNext(k, t, first), first, t), last, x), x, last)

LEMMA BulkIs ==
  ASSUME NEW h \in Heap, NEW x \in Object, NEW first \in Object, NEW last \in Object,
         NEW p \in Object, NEW q \in Object, p = h.prev[first], q = h.next[last],
         p # last, q # first, x # first,
         NEW k, k = R!ListDelBetween(h, p, q)
  PROVE  R!list_bulk_move_tail(h, x, first, last) = BulkIn(k, x, first, last, k.prev[x])
<1>1. h.next \in [Object -> Pointer] /\ h.prev \in [Object -> Pointer]
  BY DEF Heap
<1>2. k = [next |-> [h.next EXCEPT ![p] = q], prev |-> [h.prev EXCEPT ![q] = p]]
  BY DEF R!ListDelBetween, R!SetNext, R!SetPrev
<1>3. [h.next EXCEPT ![p] = q][last] = q
  BY <1>1
<1>4. k = R!SetPrev(R!SetNext(h, p, q), q, p)
  BY <1>2 DEF R!SetNext, R!SetPrev
<1>5. R!SetNext(h, p, q).next[last] = q /\ R!SetNext(h, p, q).prev[first] = p
  BY <1>1, <1>3 DEF R!SetNext
<1>6. R!SetNext(k, k.prev[x], first).prev[x] = k.prev[x]
  BY DEF R!SetNext
<1>7. QED
  BY <1>4, <1>5, <1>6 DEF R!list_bulk_move_tail, BulkIn

LEMMA BulkInEffect ==
  ASSUME NEW k \in Heap, NEW x \in Object, NEW first \in Object, NEW last \in Object,
         NEW t \in Object, t # last, first # x,
         NEW g, g = BulkIn(k, x, first, last, t)
  PROVE  /\ g \in Heap
         /\ Tied(g, t, first) /\ Tied(g, last, x)
         /\ NextKept(k, g, {t, last}) /\ PrevKept(k, g, {first, x})
<1>1. k.next \in [Object -> Pointer] /\ k.prev \in [Object -> Pointer]
  BY DEF Heap
<1>2. g = [next |-> [[k.next EXCEPT ![t] = first] EXCEPT ![last] = x],
           prev |-> [[k.prev EXCEPT ![first] = t] EXCEPT ![x] = last]]
  BY DEF BulkIn, R!SetNext, R!SetPrev
<1>3. x \in Pointer /\ first \in Pointer /\ last \in Pointer /\ t \in Pointer
  BY ObjectPointer
<1>4. QED
  BY <1>1, <1>2, <1>3 DEF Tied, Heap, NextKept, PrevKept

(* A strand that comes out of a ring.                                      *)
LEMMA TakeOut ==
  ASSUME NEW h \in Heap, NEW w \in Seq(Object), NEW f \in Seq(Object), w # <<>>, f # <<>>,
         Ring(h, w \o f),
         NEW k, k = R!ListDelBetween(h, End(w), Start(w))
  PROVE  /\ k \in Heap /\ Ring(k, w) /\ Strand(k, f)
         /\ h.prev[Start(f)] = End(w) /\ h.next[End(f)] = Start(w)
         /\ In(w) \cap In(f) = {} /\ In(w) \subseteq Object /\ In(f) \subseteq Object
         /\ Start(w) \in In(w) /\ End(w) \in In(w)
         /\ Start(f) \in In(f) /\ End(f) \in In(f)
         /\ NextKept(h, k, In(w)) /\ PrevKept(h, k, In(w))
<1>1. /\ Strand(h, w) /\ Strand(h, f) /\ In(w) \cap In(f) = {}
      /\ Tied(h, End(w), Start(f)) /\ Tied(h, End(f), Start(w))
  BY CutRing
<1>2. /\ In(w) \subseteq Object /\ In(f) \subseteq Object
      /\ Start(w) \in In(w) /\ End(w) \in In(w)
      /\ Start(f) \in In(f) /\ End(f) \in In(f)
  BY <1>1, StrandFacts
<1>3. PICK p, q : p = End(w) /\ q = Start(w)
  OBVIOUS
<1>4. /\ k \in Heap /\ Tied(k, p, q)
      /\ NextKept(h, k, {p, p}) /\ PrevKept(h, k, {p, q})
  <2>1. p \in Object /\ q \in Object /\ k = R!ListDelBetween(h, p, q)
    BY <1>2, <1>3
  <2>2. QED
    BY <2>1, DelBetween
<1>5. PrevKept(h, k, {q})
  <2>1. k = [next |-> [h.next EXCEPT ![p] = q], prev |-> [h.prev EXCEPT ![q] = p]]
    BY <1>3 DEF R!ListDelBetween, R!SetNext, R!SetPrev
  <2>2. QED
    BY <2>1 DEF PrevKept, Heap
<1>6. Ring(k, w)
  <2>1. /\ \A r \in In(w) : r # End(w) => k.next[r] = h.next[r]
        /\ \A r \in In(w) : r # Start(w) => k.prev[r] = h.prev[r]
    BY <1>2, <1>3, <1>4, <1>5 DEF NextKept, PrevKept
  <2>2. QED
    BY <1>1, <1>3, <1>4, <2>1, StrandKept DEF Ring
<1>7. Strand(k, f)
  <2>1. /\ \A r \in In(f) : k.next[r] = h.next[r]
        /\ \A r \in In(f) : k.prev[r] = h.prev[r]
    BY <1>1, <1>2, <1>3, <1>4, <1>5 DEF NextKept, PrevKept
  <2>2. QED
    BY <1>1, <2>1, StrandKept
<1>8. NextKept(h, k, In(w)) /\ PrevKept(h, k, In(w))
  BY <1>2, <1>3, <1>4, <1>5 DEF NextKept, PrevKept
<1>9. QED
  BY <1>1, <1>2, <1>4, <1>6, <1>7, <1>8 DEF Tied

LEMMA BulkState ==
  ASSUME NEW h, NEW l, RingState(h, l), NEW x \in ListHead,
         NEW a \in Seq(Node), NEW f \in Seq(Node), NEW b \in Seq(Node), f # <<>>,
         l[x] = (a \o f) \o b
  PROVE  RingState(R!list_bulk_move_tail(h, x, Start(f), End(f)),
                   Put(l, x, (a \o b) \o f))
<1>1. PICK w \in Seq(Object) : w = Rest(x, a, b) /\ w # <<>>
  BY Around
<1>2. f \in Seq(Object) /\ h \in Heap /\ x \in Object /\ x \notin In(f) /\ In(f) \subseteq Node
  BY NodeWords DEF RingState
<1>3. Ring(h, w \o f) /\ In(w) = {x} \cup In(a) \cup In(b) /\ In(l[x]) = In(a) \cup In(f) \cup In(b)
  <2>1. Ring(h, One(x) \o ((a \o f) \o b))
    BY DEF RingState
  <2>2. Ring(h, Rest(x, a, b) \o f) /\ In(l[x]) = In(a) \cup In(f) \cup In(b)
    BY <2>1, AroundWord
  <2>3. In(w) = {x} \cup In(a) \cup In(b)
    BY <1>1, Around
  <2>4. QED
    BY <1>1, <2>2, <2>3
<1>4. PICK p, q, first, last : p = End(w) /\ q = Start(w) /\ first = Start(f) /\ last = End(f)
  OBVIOUS
<1>5. PICK k : k = R!ListDelBetween(h, p, q)
  OBVIOUS
<1>6. /\ k \in Heap /\ Ring(k, w) /\ Strand(k, f)
      /\ h.prev[first] = p /\ h.next[last] = q
      /\ In(w) \cap In(f) = {} /\ In(w) \subseteq Object /\ In(f) \subseteq Object
      /\ q \in In(w) /\ p \in In(w) /\ first \in In(f) /\ last \in In(f)
      /\ NextKept(h, k, In(w)) /\ PrevKept(h, k, In(w))
  <2>1. w # <<>>
    BY <1>1
  <2>2. Ring(h, w \o f) /\ f \in Seq(Object) /\ h \in Heap
    BY <1>2, <1>3
  <2>3. k = R!ListDelBetween(h, End(w), Start(w))
    BY <1>4, <1>5
  <2>4. QED
    BY <1>1, <1>4, <2>1, <2>2, <2>3, TakeOut
<1>7. PICK v, t : v = One(x) \o (a \o b) /\ t = k.prev[x]
  OBVIOUS
<1>8. Ring(k, v) /\ v \in Seq(Object) /\ Start(v) = x /\ In(v) = In(w) /\ a \o b \in Seq(Node)
  <2>1. Ring(k, v)
    BY <1>1, <1>6, <1>7, Around
  <2>2. a \o b \in Seq(Node) /\ In(a \o b) = In(a) \cup In(b)
    BY Around
  <2>3. v \in Seq(Object) /\ Start(v) = x /\ In(v) = {x} \cup In(a \o b)
    BY <1>7, <2>2, RingWord
  <2>4. QED
    BY <1>3, <2>1, <2>2, <2>3
<1>9. t = End(v) /\ t \in In(v)
  BY <1>7, <1>8, StrandFacts DEF Ring, Tied
<1>10. PICK g : g = BulkIn(k, x, first, last, t)
  OBVIOUS
<1>11. /\ g \in Heap
       /\ Tied(g, t, first) /\ Tied(g, last, x)
       /\ NextKept(k, g, {t, last}) /\ PrevKept(k, g, {first, x})
  <2>1. /\ k \in Heap /\ x \in Object /\ first \in Object /\ last \in Object
        /\ t \in Object /\ t # last /\ first # x
    BY <1>2, <1>6, <1>8, <1>9
  <2>2. QED
    BY <1>10, <2>1, BulkInEffect
<1>12. g = R!list_bulk_move_tail(h, x, first, last)
  <2>1. /\ h \in Heap /\ x \in Object /\ first \in Object /\ last \in Object
        /\ p \in Object /\ q \in Object /\ p # last /\ q # first /\ x # first
    BY <1>2, <1>6
  <2>2. p = h.prev[first] /\ q = h.next[last]
    BY <1>6
  <2>3. R!list_bulk_move_tail(h, x, first, last) = BulkIn(k, x, first, last, k.prev[x])
    BY <1>5, <2>1, <2>2, BulkIs
  <2>4. QED
    BY <1>7, <1>10, <2>3
<1>13. Ring(g, v \o f)
  <2>1. /\ \A r \in In(v) : r # End(v) => g.next[r] = k.next[r]
        /\ \A r \in In(v) : r # Start(v) => g.prev[r] = k.prev[r]
    BY <1>6, <1>8, <1>9, <1>11 DEF NextKept, PrevKept
  <2>2. /\ \A r \in In(f) : r # End(f) => g.next[r] = k.next[r]
        /\ \A r \in In(f) : r # Start(f) => g.prev[r] = k.prev[r]
    BY <1>2, <1>4, <1>6, <1>8, <1>9, <1>11 DEF NextKept, PrevKept
  <2>3. Tied(g, End(v), Start(f)) /\ Tied(g, End(f), Start(v))
    BY <1>4, <1>8, <1>9, <1>11
  <2>4. In(v) \cap In(f) = {}
    BY <1>6, <1>8
  <2>5. QED
    BY <1>6, <1>8, <2>1, <2>2, <2>3, <2>4, LinkIn
<1>14. PICK s : s = (a \o b) \o f
  OBVIOUS
<1>15. s \in Seq(Node) /\ In(s) = In(a) \cup In(b) \cup In(f) /\ Ring(g, One(x) \o s)
  <2>1. s \in Seq(Node) /\ In(s) = In(a) \cup In(b) \cup In(f)
    BY <1>14, AroundWord, Joined, JoinedIn
  <2>2. One(x) \o s = v \o f
    <3>1. PICK e \in Seq(Object) : e = a \o b
      BY <1>8, NodeWords
    <3>2. One(x) \in Seq(Object) /\ f \in Seq(Object)
      BY <1>2, OneObject
    <3>3. (One(x) \o e) \o f = One(x) \o (e \o f)
      BY <3>1, <3>2, Associative
    <3>4. QED
      BY <1>7, <1>14, <3>1, <3>3
  <2>3. QED
    BY <1>13, <2>1, <2>2
<1>16. \A r \in Object : r \notin {x} \cup In(l[x]) \cup Spare(l)
                            => g.next[r] = h.next[r] /\ g.prev[r] = h.prev[r]
  <2>1. t \in {x} \cup In(l[x]) /\ first \in In(l[x]) /\ last \in In(l[x]) /\ In(w) \subseteq {x} \cup In(l[x])
    BY <1>3, <1>6, <1>8, <1>9
  <2>2. QED
    BY <1>6, <1>11, <2>1 DEF NextKept, PrevKept
<1>17. RingState(g, Put(l, x, s))
  <2>1. In(s) \subseteq In(l[x]) \cup Spare(l)
    BY <1>3, <1>15
  <2>2. s \in Seq(Node) /\ Ring(g, One(x) \o s) /\ g \in Heap
    BY <1>11, <1>15
  <2>3. QED
    BY <1>16, <2>1, <2>2, ChangeOne
<1>18. QED
  BY <1>4, <1>12, <1>14, <1>17

LEMMA SplitTwo ==
  ASSUME NEW s \in Seq(Node), NEW i \in 1..Len(s), NEW j \in 1..Len(s), i <= j
  PROVE  /\ Before(s, i) \in Seq(Node) /\ Behind(s, j) \in Seq(Node)
         /\ SubSeq(s, i, j) \in Seq(Node) /\ SubSeq(s, i, j) # <<>>
         /\ s = (Before(s, i) \o SubSeq(s, i, j)) \o Behind(s, j)
         /\ Start(SubSeq(s, i, j)) = s[i] /\ End(SubSeq(s, i, j)) = s[j]
<1>1. /\ Len(s) \in Nat /\ i \in Nat /\ j \in Nat /\ 1 <= i /\ i <= j /\ j <= Len(s)
      /\ \A e \in 1..Len(s) : s[e] \in Node
  BY LenProperties
<1>2. Before(s, i) \in Seq(Node) /\ Behind(s, j) \in Seq(Node)
  BY SplitAt
<1>3. PICK f : f = SubSeq(s, i, j)
  OBVIOUS
<1>4. /\ f \in Seq(Node) /\ Len(f) = j - i + 1
      /\ \A e \in 1..(j - i + 1) : f[e] = s[i + e - 1]
  <2>1. i \in Int /\ j \in Int /\ \A e \in i..j : s[e] \in Node
    BY <1>1
  <2>2. QED
    BY <1>1, <1>3, <2>1, SubSeqProperties
<1>5. f # <<>> /\ Start(f) = s[i] /\ End(f) = s[j]
  <2>1. Len(f) >= 1 /\ 1 \in 1..(j - i + 1) /\ (j - i + 1) \in 1..(j - i + 1)
    BY <1>1, <1>4
  <2>2. i + 1 - 1 = i /\ i + (j - i + 1) - 1 = j
    BY <1>1
  <2>3. f[1] = s[i] /\ f[j - i + 1] = s[j]
    BY <1>4, <2>1, <2>2
  <2>4. QED
    BY <1>4, <2>1, <2>3, EmptySeq DEF Start, End
<1>6. Before(s, i) \o f = SubSeq(s, 1, j)
  <2>1. 1 \in 1..(Len(s) + 1) /\ (i - 1) \in (1 - 1)..Len(s) /\ j \in (i - 1)..Len(s) /\ (i - 1) + 1 = i
    BY <1>1
  <2>2. SubSeq(s, 1, i - 1) \o SubSeq(s, (i - 1) + 1, j) = SubSeq(s, 1, j)
    BY <2>1, ConcatAdjacentSubSeq
  <2>3. QED
    BY <1>3, <2>1, <2>2 DEF Before
<1>7. SubSeq(s, 1, j) \o Behind(s, j) = s
  <2>1. 1 \in 1..(Len(s) + 1) /\ j \in (1 - 1)..Len(s) /\ Len(s) \in j..Len(s)
    BY <1>1
  <2>2. SubSeq(s, 1, j) \o SubSeq(s, j + 1, Len(s)) = SubSeq(s, 1, Len(s))
    BY <2>1, ConcatAdjacentSubSeq
  <2>3. QED
    BY <2>2, SubSeqFull DEF Behind
<1>8. QED
  BY <1>2, <1>3, <1>4, <1>5, <1>6, <1>7

(* Where an entry of the list x is.                                        *)
LEMMA WhereOn ==
  ASSUME NEW h, RingState(h, lists), NEW x \in ListHead, NEW n, n \in R!L!On(x)
  PROVE  /\ R!L!Pos(n) \in 1..Len(lists[x]) /\ lists[x][R!L!Pos(n)] = n
         /\ lists[x] \in Seq(Node) /\ n \in In(lists[x])
         /\ Lies(lists, x, Before(lists[x], R!L!Pos(n)), n, Behind(lists[x], R!L!Pos(n)))
<1>1. Contract(lists) /\ lists \in [ListHead -> Seq(Node)] /\ n \in In(lists[x])
  BY InContract
<1>2. n \in S!Linked
  BY <1>1, OnIsIn
<1>3. x = S!HeadOf(n)
  BY <1>1, <1>2, Where
<1>4. R!L!Pos(n) = S!Pos(n)
  BY RingContract
<1>5. QED
  BY <1>1, <1>2, <1>3, <1>4, Where

LEMMA BulkStep ==
  ASSUME RState, NEW n \in Node, NEW m \in Node, NEW x \in ListHead, R!BulkMoveTail(x, n, m)
  PROVE  RState'
<1>0. RingState(rings, lists)
  BY DEF RState
<1>1. PICK s, i, j : s = lists[x] /\ i = R!L!Pos(n) /\ j = R!L!Pos(m)
  OBVIOUS
<1>2. /\ n \in R!L!On(x) /\ m \in R!L!On(x) /\ i <= j
      /\ lists' = Put(lists, x, (Before(s, i) \o Behind(s, j)) \o SubSeq(s, i, j))
      /\ rings' = R!list_bulk_move_tail(rings, x, n, m)
  BY <1>1 DEF R!BulkMoveTail, R!L!BulkMoveTail, Before, Behind, Put
<1>3. s \in Seq(Node) /\ i \in 1..Len(s) /\ j \in 1..Len(s) /\ s[i] = n /\ s[j] = m
  BY <1>0, <1>1, <1>2, WhereOn
<1>4. PICK a, f, b : a = Before(s, i) /\ f = SubSeq(s, i, j) /\ b = Behind(s, j)
  OBVIOUS
<1>5. /\ a \in Seq(Node) /\ f \in Seq(Node) /\ b \in Seq(Node) /\ f # <<>>
      /\ s = (a \o f) \o b /\ Start(f) = n /\ End(f) = m
  <2>1. s \in Seq(Node) /\ i \in 1..Len(s) /\ j \in 1..Len(s) /\ i <= j
    BY <1>2, <1>3
  <2>2. /\ Before(s, i) \in Seq(Node) /\ Behind(s, j) \in Seq(Node)
        /\ SubSeq(s, i, j) \in Seq(Node) /\ SubSeq(s, i, j) # <<>>
        /\ s = (Before(s, i) \o SubSeq(s, i, j)) \o Behind(s, j)
        /\ Start(SubSeq(s, i, j)) = s[i] /\ End(SubSeq(s, i, j)) = s[j]
    BY <2>1, SplitTwo
  <2>3. QED
    BY <1>3, <1>4, <2>2
<1>6. lists[x] = (a \o f) \o b
  BY <1>1, <1>5
<1>7. RingState(R!list_bulk_move_tail(rings, x, Start(f), End(f)), Put(lists, x, (a \o b) \o f))
  BY <1>0, <1>5, <1>6, BulkState
<1>8. QED
  BY <1>2, <1>4, <1>5, <1>7 DEF RState

(* list_rotate_to_front() (list.h:331-340): the head goes before n.        *)
LEMMA RotateFrontState ==
  ASSUME NEW h, NEW l, RingState(h, l), NEW x, NEW a, NEW n, NEW b, Lies(l, x, a, n, b)
  PROVE  RingState(R!list_rotate_to_front(h, n, x), Put(l, x, (One(n) \o b) \o a))
<1>0. /\ x \in ListHead /\ n \in Node /\ a \in Seq(Node) /\ b \in Seq(Node)
      /\ l[x] = (a \o One(n)) \o b
  BY DEF Lies
<1>1. PICK s \in Seq(Object) : s = l[x]
  BY <1>0, NodeWords DEF RingState
<1>2. /\ s \in Seq(Node) /\ In(s) = In(a) \cup {n} \cup In(b) /\ In(s) \subseteq Node
      /\ n \in Object /\ x \in Object /\ x \notin Node /\ h \in Heap
      /\ a \in Seq(Object) /\ b \in Seq(Object)
      /\ One(n) \in Seq(Object) /\ One(n) # <<>> /\ Start(One(n)) = n /\ In(One(n)) = {n}
      /\ One(x) \in Seq(Object) /\ One(x) # <<>> /\ Start(One(x)) = x /\ End(One(x)) = x
  <2>1. s \in Seq(Node) /\ In(s) = In(a) \cup {n} \cup In(b)
    BY <1>0, <1>1, AroundOne
  <2>2. n \in Object /\ x \in Object /\ x \notin Node /\ In(s) \subseteq Node
        /\ a \in Seq(Object) /\ b \in Seq(Object)
    BY <1>0, <2>1, NodeWords
  <2>3. /\ One(n) \in Seq(Object) /\ One(n) # <<>> /\ Start(One(n)) = n /\ In(One(n)) = {n}
        /\ One(x) \in Seq(Object) /\ One(x) # <<>> /\ Start(One(x)) = x /\ End(One(x)) = x
    BY <2>2, OneObject
  <2>4. h \in Heap
    BY DEF RingState
  <2>5. QED
    BY <2>1, <2>2, <2>3, <2>4
<1>3. s # <<>>
  <2>1. n \in In(s)
    BY <1>2
  <2>2. QED
    BY <2>1, EmptySeq DEF In
<1>4. Ring(h, s \o One(x))
  <2>1. Ring(h, One(x) \o s)
    BY <1>0, <1>1 DEF RingState
  <2>2. QED
    BY <1>1, <1>2, <2>1, TurnRing
<1>5. PICK k : k = R!ListDelBetween(h, End(s), Start(s))
  OBVIOUS
<1>6. /\ k \in Heap /\ Ring(k, s)
      /\ h.prev[x] = End(s) /\ h.next[x] = Start(s)
      /\ NextKept(h, k, In(s)) /\ PrevKept(h, k, In(s))
  <2>1. /\ h \in Heap /\ s \in Seq(Object) /\ One(x) \in Seq(Object) /\ s # <<>> /\ One(x) # <<>>
        /\ Start(One(x)) = x /\ End(One(x)) = x
    BY <1>1, <1>2, <1>3
  <2>2. /\ k \in Heap /\ Ring(k, s)
        /\ h.prev[Start(One(x))] = End(s) /\ h.next[End(One(x))] = Start(s)
        /\ NextKept(h, k, In(s)) /\ PrevKept(h, k, In(s))
    BY <1>4, <1>5, <2>1, TakeOut
  <2>3. QED
    BY <2>1, <2>2
<1>7. PICK u \in Seq(Object) : u = One(n) \o b
  BY <1>2, Joined
<1>8. PICK v \in Seq(Object) : v = u \o a
  BY <1>2, <1>7, Joined
<1>9. Ring(k, v)
  <2>1. s = a \o u
    BY <1>0, <1>1, <1>2, <1>7, Associative, SMTT(20)
  <2>2. Ring(k, a \o u)
    BY <1>6, <2>1
  <2>3. QED
    BY <1>2, <1>7, <1>8, <2>2, TurnRing
<1>10. Start(v) = n /\ In(v) = In(s) /\ v \in Seq(Node)
  <2>1. u # <<>> /\ Start(u) = n
    <3>1. Start(u) = n
      BY <1>2, <1>7, JoinedEnds
    <3>2. u # <<>>
      BY <1>2, <1>7, ConcatEqualIffEmpty
    <3>3. QED
      BY <3>1, <3>2
  <2>2. Start(v) = n
    <3>1. u \in Seq(Object) /\ a \in Seq(Object)
      BY <1>2, <1>7
    <3>2. QED
      BY <1>8, <2>1, <3>1, JoinedEnds
  <2>3. One(n) \in Seq(Node)
    BY <1>0 DEF One
  <2>4. In((One(n) \o b) \o a) = In(One(n)) \cup In(b) \cup In(a) /\ (One(n) \o b) \o a \in Seq(Node)
    BY <1>0, <2>3, AroundWord
  <2>5. QED
    BY <1>2, <1>7, <1>8, <2>2, <2>4
<1>11. PICK t : t = End(v)
  OBVIOUS
<1>12. t \in In(v) /\ k.prev[n] = t /\ In(v) \subseteq Object /\ Strand(k, v)
  BY <1>9, <1>10, <1>11, StrandFacts DEF Ring, Tied
<1>13. PICK g : g = R!ListAddBetween(k, x, t, n)
  OBVIOUS
<1>14. /\ g \in Heap /\ Tied(g, t, x) /\ Tied(g, x, n)
       /\ NextKept(k, g, {x, t}) /\ PrevKept(k, g, {x, n})
  <2>1. k \in Heap /\ x \in Object /\ t \in Object /\ n \in Object /\ x # t /\ x # n
    BY <1>0, <1>2, <1>6, <1>10, <1>12
  <2>2. QED
    BY <1>13, <2>1, AddBetween
<1>15. g = R!list_rotate_to_front(h, n, x)
  <2>1. k = R!ListDelEntry(h, x)
    BY <1>5, <1>6 DEF R!ListDelEntry
  <2>2. QED
    BY <1>12, <1>13, <2>1 DEF R!list_rotate_to_front, R!list_move_tail, R!list_add_tail
<1>16. Ring(g, v \o One(x))
  <2>1. /\ \A r \in In(v) : r # End(v) => g.next[r] = k.next[r]
        /\ \A r \in In(v) : r # Start(v) => g.prev[r] = k.prev[r]
    BY <1>2, <1>10, <1>11, <1>12, <1>14 DEF NextKept, PrevKept
  <2>2. Strand(g, v)
    BY <1>12, <2>1, StrandKept
  <2>3. x \in Object /\ x \notin In(v) /\ Tied(g, End(v), x) /\ Tied(g, x, Start(v))
    BY <1>2, <1>10, <1>11, <1>14
  <2>4. QED
    BY <2>2, <2>3, TieOne
<1>17. Ring(g, One(x) \o v)
  BY <1>2, <1>8, <1>16, TurnRing
<1>18. \A r \in Object : r \notin {x} \cup In(l[x]) \cup Spare(l)
                            => g.next[r] = h.next[r] /\ g.prev[r] = h.prev[r]
  <2>1. t \in In(l[x]) /\ n \in In(l[x]) /\ In(s) = In(l[x])
    BY <1>1, <1>2, <1>10, <1>12
  <2>2. QED
    BY <1>6, <1>14, <2>1 DEF NextKept, PrevKept
<1>19. RingState(g, Put(l, x, v))
  <2>1. v \in Seq(Node) /\ In(v) \subseteq In(l[x]) \cup Spare(l) /\ x \in ListHead /\ g \in Heap
    BY <1>0, <1>1, <1>10, <1>14
  <2>2. QED
    BY <1>17, <1>18, <2>1, ChangeOne
<1>20. QED
  BY <1>7, <1>8, <1>15, <1>19

LEMMA RotateStep ==
  ASSUME RState, NEW x \in ListHead, R!Rotate(x)
  PROVE  RState'
<1>0. RingState(rings, lists) /\ lists \in [ListHead -> Seq(Node)]
  BY InContract DEF RState
<1>1. CASE R!L!RotateLeft(x) /\ rings' = R!list_rotate_left(rings, x)
  <2>1. PICK s \in Seq(Node) : s = lists[x]
    BY <1>0
  <2>2. CASE s = <<>>
    <3>1. rings.next[x] = x
      <4>1. Ring(rings, One(x) \o s)
        BY <1>0, <2>1 DEF RingState
      <4>2. One(x) \o s = One(x) /\ Start(One(x)) = x /\ End(One(x)) = x
        BY <2>2, OneObject, NodeWords, ConcatEmptySeq
      <4>3. QED
        BY <4>1, <4>2 DEF Ring, Tied
    <3>2. rings' = rings
      BY <1>1, <3>1 DEF R!list_rotate_left, R!list_empty
    <3>3. lists' = lists
      BY <1>0, <1>1, <2>1, <2>2 DEF R!L!RotateLeft
    <3>4. QED
      BY <1>0, <3>2, <3>3 DEF RState
  <2>3. CASE s # <<>>
    <3>1. PICK n : n = Start(s)
      OBVIOUS
    <3>2. rings.next[x] = n /\ n \in Node /\ n # x
      <4>1. lists[x] # <<>>
        BY <2>1, <2>3
      <4>2. rings.next[x] = Start(lists[x]) /\ Start(lists[x]) \in In(lists[x]) /\ In(lists[x]) \subseteq Node
        BY <1>0, <4>1, Whole
      <4>3. QED
        BY <2>1, <3>1, <4>2, NodeWords
    <3>3. rings' = R!list_move_tail(rings, n, x)
      BY <1>1, <3>2 DEF R!list_rotate_left, R!list_empty
    <3>4. PICK b \in Seq(Node) : b = Tail(s)
      BY <2>1, <2>3, HeadTailProperties
    <3>5. s = One(n) \o b /\ Head(s) = n
      <4>1. 1 \in 1..Len(s) /\ Len(s) \in 1..Len(s)
        BY <2>1, <2>3, EmptySeq
      <4>2. SubSeq(s, 1, Len(s)) = One(s[1]) \o Behind(s, 1)
        BY <2>1, <4>1, SplitAt
      <4>3. Behind(s, 1) = b
        BY <2>1, <2>3, <3>4, TailIsSubSeq DEF Behind
      <4>4. Head(s) = n
        BY <2>1, <2>3, <3>1 DEF Start
      <4>5. QED
        BY <2>1, <3>1, <4>2, <4>3, <4>4, SubSeqFull DEF Start
    <3>6. One(n) \in Seq(Node) /\ <<>> \in Seq(Node)
      BY <3>2 DEF One
    <3>7. Lies(lists, x, <<>>, n, b)
      <4>1. <<>> \o One(n) = One(n)
        BY <3>6, ConcatEmptySeq
      <4>2. QED
        BY <2>1, <3>2, <3>4, <3>5, <3>6, <4>1 DEF Lies
    <3>8. PICK k : k = Put(lists, x, b)
      OBVIOUS
    <3>9. k = Put(lists, x, <<>> \o b) /\ k[x] = b
      <4>1. <<>> \o b = b
        BY <3>4, ConcatEmptySeq
      <4>2. QED
        BY <1>0, <3>4, <3>8, <4>1, PutFacts
    <3>10. RingState(rings', Put(k, x, k[x] \o One(n)))
      BY <1>0, <3>3, <3>7, <3>9, MoveState
    <3>11. lists' = Put(k, x, b \o One(n))
      <4>1. lists' = [lists EXCEPT ![x] = Append(b, n)]
        BY <1>0, <1>1, <2>1, <2>3, <3>4, <3>5 DEF R!L!RotateLeft
      <4>2. Append(b, n) = b \o One(n)
        BY <3>2, <3>4, AppendOne
      <4>3. PICK c : c = b \o One(n)
        OBVIOUS
      <4>4. [lists EXCEPT ![x] = c] = [[lists EXCEPT ![x] = b] EXCEPT ![x] = c]
        BY <1>0
      <4>5. QED
        BY <3>8, <4>1, <4>2, <4>3, <4>4 DEF Put
    <3>12. QED
      BY <3>9, <3>10, <3>11 DEF RState
  <2>4. QED
    BY <2>2, <2>3
<1>2. CASE \E n \in R!L!On(x) : R!L!RotateToFront(n, x) /\ rings' = R!list_rotate_to_front(rings, n, x)
  <2>1. PICK n \in R!L!On(x) : R!L!RotateToFront(n, x) /\ rings' = R!list_rotate_to_front(rings, n, x)
    BY <1>2
  <2>2. PICK s, i : s = lists[x] /\ i = R!L!Pos(n)
    OBVIOUS
  <2>3. /\ s \in Seq(Node) /\ i \in 1..Len(s) /\ s[i] = n
        /\ Lies(lists, x, Before(s, i), n, Behind(s, i))
    BY <1>0, <2>1, <2>2, WhereOn
  <2>4. SubSeq(s, i, Len(s)) = One(n) \o Behind(s, i)
    BY <2>3, SplitAt
  <2>5. lists' = Put(lists, x, (One(n) \o Behind(s, i)) \o Before(s, i))
    <3>1. lists' = [lists EXCEPT ![x] = SubSeq(s, i, Len(s)) \o SubSeq(s, 1, i - 1)]
      BY <2>1, <2>2 DEF R!L!RotateToFront
    <3>2. QED
      BY <2>4, <3>1 DEF Put, Before
  <2>6. QED
    BY <1>0, <2>1, <2>3, <2>5, RotateFrontState DEF RState
<1>3. QED
  BY <1>1, <1>2 DEF R!Rotate

LEMMA Emptiness ==
  ASSUME NEW h, NEW l, RingState(h, l), NEW x \in ListHead
  PROVE  /\ h.next[x] = x <=> l[x] = <<>>
         /\ l[x] = <<>> => h.prev[x] = x
<1>1. ASSUME l[x] = <<>> PROVE h.next[x] = x /\ h.prev[x] = x
  <2>1. x \in Object /\ One(x) \in Seq(Object)
    BY NodeWords, OneObject
  <2>2. One(x) \o <<>> = One(x)
    BY <2>1, ConcatEmptySeq
  <2>3. Ring(h, One(x))
    BY <1>1, <2>2 DEF RingState
  <2>4. Start(One(x)) = x /\ End(One(x)) = x
    BY <2>1, OneObject
  <2>5. QED
    BY <2>3, <2>4 DEF Ring, Tied
<1>2. ASSUME l[x] # <<>> PROVE h.next[x] # x
  <2>1. h.next[x] = Start(l[x]) /\ Start(l[x]) \in In(l[x]) /\ In(l[x]) \subseteq Node
    BY <1>2, Whole
  <2>2. x \notin Node
    BY NodeWords
  <2>3. QED
    BY <2>1, <2>2
<1>3. QED
  BY <1>1, <1>2

LEMMA PutSame ==
  ASSUME NEW l \in [ListHead -> Seq(Node)], NEW x \in ListHead, NEW y \in ListHead, NEW s
  PROVE  /\ Put(l, x, l[x]) = l
         /\ x # y => Put(Put(l, y, s), x, l[x]) = Put(l, y, s)
  BY DEF Put

(* list_splice(), list_splice_tail() and their variants that initialise    *)
(* (list.h:440-490).                                                       *)
LEMMA SpliceCalls ==
  ASSUME NEW h, NEW l, RingState(h, l), NEW x \in ListHead, NEW y \in ListHead, y # x,
         NEW front, front = Put(Put(l, x, l[y] \o l[x]), y, <<>>),
         NEW back, back = Put(Put(l, x, l[x] \o l[y]), y, <<>>)
  PROVE  /\ RingState(R!INIT_LIST_HEAD(R!list_splice(h, y, x), y), front)
         /\ RingState(R!list_splice_init(h, y, x), front)
         /\ RingState(R!INIT_LIST_HEAD(R!list_splice_tail(h, y, x), y), back)
         /\ RingState(R!list_splice_tail_init(h, y, x), back)
<1>0. l \in [ListHead -> Seq(Node)] /\ l[x] \in Seq(Node) /\ l[y] \in Seq(Node)
  BY DEF RingState
<1>1. CASE l[y] = <<>>
  <2>1. h.next[y] = y
    BY <1>1, Emptiness
  <2>2. l[y] \o l[x] = l[x] /\ l[x] \o l[y] = l[x]
    BY <1>0, <1>1, ConcatEmptySeq
  <2>3. front = Put(l, y, <<>>) /\ back = Put(l, y, <<>>)
    BY <1>0, <2>2, PutSame
  <2>4. Put(l, y, <<>>) = l
    BY <1>0, <1>1, PutSame
  <2>5. RingState(R!INIT_LIST_HEAD(h, y), Put(l, y, <<>>))
    BY StateInit
  <2>6. QED
    BY <2>1, <2>3, <2>4, <2>5
       DEF R!list_splice, R!list_splice_tail, R!list_splice_init, R!list_splice_tail_init,
           R!list_empty
<1>2. CASE l[y] # <<>>
  <2>1. h.next[y] # y
    BY <1>2, Emptiness
  <2>2. Parts(l, x, <<>>, l[x]) /\ Parts(l, x, l[x], <<>>)
    BY <1>0, ConcatEmptySeq DEF Parts
  <2>3. End(Rest(x, <<>>, l[x])) = x /\ Start(Rest(x, l[x], <<>>)) = x
    BY <1>0, RestEnds
  <2>4. h.next[x] = Start(Rest(x, <<>>, l[x])) /\ h.prev[x] = End(Rest(x, l[x], <<>>))
    BY <2>2, <2>3, Gap
  <2>5. (<<>> \o l[y]) \o l[x] = l[y] \o l[x] /\ (l[x] \o l[y]) \o <<>> = l[x] \o l[y]
    <3>1. l[x] \o l[y] \in Seq(Node)
      BY <1>0, Joined
    <3>2. QED
      BY <1>0, <3>1, ConcatEmptySeq
  <2>6. RingState(R!INIT_LIST_HEAD(R!ListSplice(h, y, x, h.next[x]), y), front)
    <3>1. RingState(R!INIT_LIST_HEAD(R!ListSplice(h, y, End(Rest(x, <<>>, l[x])), Start(Rest(x, <<>>, l[x]))), y),
                    Put(Put(l, x, (<<>> \o l[y]) \o l[x]), y, <<>>))
      BY <1>2, <2>2, SpliceState
    <3>2. QED
      BY <2>3, <2>4, <2>5, <3>1
  <2>7. RingState(R!INIT_LIST_HEAD(R!ListSplice(h, y, h.prev[x], x), y), back)
    <3>1. RingState(R!INIT_LIST_HEAD(R!ListSplice(h, y, End(Rest(x, l[x], <<>>)), Start(Rest(x, l[x], <<>>))), y),
                    Put(Put(l, x, (l[x] \o l[y]) \o <<>>), y, <<>>))
      BY <1>2, <2>2, SpliceState
    <3>2. QED
      BY <2>3, <2>4, <2>5, <3>1
  <2>8. QED
    BY <2>1, <2>6, <2>7
       DEF R!list_splice, R!list_splice_tail, R!list_splice_init, R!list_splice_tail_init,
           R!list_empty
<1>3. QED
  BY <1>1, <1>2

LEMMA SpliceStep ==
  ASSUME RState, NEW x \in ListHead, NEW y \in ListHead, R!Splice(y, x)
  PROVE  RState'
<1>0. RingState(rings, lists) /\ lists \in [ListHead -> Seq(Node)]
  BY InContract DEF RState
<1>1. PICK front, back : /\ front = Put(Put(lists, x, lists[y] \o lists[x]), y, <<>>)
                         /\ back = Put(Put(lists, x, lists[x] \o lists[y]), y, <<>>)
  OBVIOUS
<1>2. y # x
  BY DEF R!Splice, R!L!Splice, R!L!SpliceTail
<1>3. /\ RingState(R!INIT_LIST_HEAD(R!list_splice(rings, y, x), y), front)
      /\ RingState(R!list_splice_init(rings, y, x), front)
      /\ RingState(R!INIT_LIST_HEAD(R!list_splice_tail(rings, y, x), y), back)
      /\ RingState(R!list_splice_tail_init(rings, y, x), back)
  BY <1>0, <1>1, <1>2, SpliceCalls
<1>4. ASSUME R!L!Splice(y, x) PROVE lists' = front
  BY <1>0, <1>1, <1>4 DEF R!L!Splice, Put
<1>5. ASSUME R!L!SpliceTail(y, x) PROVE lists' = back
  BY <1>0, <1>1, <1>5 DEF R!L!SpliceTail, Put
<1>6. QED
  BY <1>3, <1>4, <1>5 DEF R!Splice, RState

-----------------------------------------------------------------------------
(* list_replace_init() of a head, which is tied between p and q; those are *)
(* the head itself when its list is empty (list.h:146-153, 162-167).       *)
Replaceable(h, x, y, p, q) ==
    /\ h \in Heap /\ x \in Object /\ y \in Object /\ p \in Object /\ q \in Object
    /\ p = h.prev[x] /\ q = h.next[x]
    /\ x # y /\ y # p /\ y # q
    /\ p = x <=> q = x

ReplaceTies(h, g, x, y, p, q) ==
    /\ g \in Heap /\ Tied(g, x, x)
    /\ p = x => Tied(g, y, y)
    /\ p # x => Tied(g, p, y) /\ Tied(g, y, q)
    /\ NextKept(h, g, {x, y, p}) /\ PrevKept(h, g, {x, y, q})

LEMMA ReplaceHeadEffect ==
  ASSUME NEW h, NEW x, NEW y, NEW p, NEW q, Replaceable(h, x, y, p, q),
         NEW g, g = R!list_replace_init(h, x, y)
  PROVE  ReplaceTies(h, g, x, y, p, q)
<1>0. /\ h \in Heap /\ x \in Object /\ y \in Object /\ p \in Object /\ q \in Object
      /\ p = h.prev[x] /\ q = h.next[x]
      /\ x # y /\ y # p /\ y # q
      /\ p = x <=> q = x
  BY DEF Replaceable
<1>1. h.next \in [Object -> Pointer] /\ h.prev \in [Object -> Pointer]
  BY <1>0 DEF Heap
<1>2. x \in Pointer /\ y \in Pointer /\ p \in Pointer /\ q \in Pointer
  BY <1>0, ObjectPointer
<1>3. PICK n1, p1, e : /\ n1 = [h.next EXCEPT ![y] = q]
                       /\ p1 = [h.prev EXCEPT ![q] = y]
                       /\ e = p1[x]
  OBVIOUS
<1>4. PICK n2, p2 : n2 = [n1 EXCEPT ![e] = y] /\ p2 = [p1 EXCEPT ![y] = e]
  OBVIOUS
<1>5. PICK n3, p3 : n3 = [n2 EXCEPT ![x] = x] /\ p3 = [p2 EXCEPT ![x] = x]
  OBVIOUS
<1>6. /\ n1 \in [Object -> Pointer] /\ p1 \in [Object -> Pointer] /\ n1[y] = q
      /\ e = IF p = x THEN y ELSE p
  BY <1>0, <1>1, <1>2, <1>3
<1>7. e \in Object /\ p2[y] = e
  BY <1>0, <1>4, <1>6
<1>8. g = [next |-> n3, prev |-> p3]
  BY <1>0, <1>3, <1>4, <1>5, <1>6, <1>7
     DEF R!list_replace_init, R!list_replace, R!INIT_LIST_HEAD, R!SetNext, R!SetPrev
<1>9. /\ n3 \in [Object -> Pointer] /\ n3[x] = x
      /\ p = x => n3[y] = y
      /\ p # x => n3[p] = y /\ n3[y] = q
      /\ \A r \in Object : r \notin {x, y, p} => n3[r] = h.next[r]
  BY <1>0, <1>1, <1>2, <1>3, <1>4, <1>5, <1>6, <1>7
<1>10. /\ p3 \in [Object -> Pointer] /\ p3[x] = x
       /\ p = x => p3[y] = y
       /\ p # x => p3[y] = p /\ p3[q] = y
       /\ \A r \in Object : r \notin {x, y, q} => p3[r] = h.prev[r]
  BY <1>0, <1>1, <1>2, <1>3, <1>4, <1>5, <1>6, <1>7
<1>11. QED
  BY <1>0, <1>8, <1>9, <1>10 DEF ReplaceTies, Heap, Tied, NextKept, PrevKept

LEMMA ReplaceHeadState ==
  ASSUME NEW h, NEW l, RingState(h, l), NEW x \in ListHead, NEW y \in ListHead, x # y,
         NEW k, k = Put(Put(l, y, l[x]), x, <<>>)
  PROVE  RingState(R!list_replace_init(h, x, y), k)
<1>1. PICK t, g, p, q : /\ t = l[x] /\ g = R!list_replace_init(h, x, y)
                        /\ p = h.prev[x] /\ q = h.next[x]
  OBVIOUS
<1>2. /\ h \in Heap /\ t \in Seq(Node) /\ t \in Seq(Object) /\ In(t) \subseteq Node
      /\ x \in Object /\ y \in Object /\ x \notin Node /\ y \notin Node
      /\ \A n \in Node : n \in Object
  BY <1>1, NodeWords DEF RingState
<1>3. /\ t = <<>> => p = x /\ q = x
      /\ t # <<>> => /\ Strand(h, t) /\ p = End(t) /\ q = Start(t)
                     /\ p \in In(t) /\ q \in In(t)
  BY <1>1, Emptiness, Whole
<1>4. /\ p \in Object /\ q \in Object /\ y # p /\ y # q
      /\ p = x <=> q = x
      /\ p = x <=> t = <<>>
  BY <1>2, <1>3
<1>5. /\ g \in Heap /\ Tied(g, x, x)
      /\ t = <<>> => Tied(g, y, y)
      /\ t # <<>> => Tied(g, p, y) /\ Tied(g, y, q)
      /\ NextKept(h, g, {x, y, p}) /\ PrevKept(h, g, {x, y, q})
  <2>1. Replaceable(h, x, y, p, q)
    BY <1>1, <1>2, <1>4 DEF Replaceable
  <2>2. ReplaceTies(h, g, x, y, p, q)
    BY <1>1, <2>1, ReplaceHeadEffect
  <2>3. QED
    BY <1>4, <2>2 DEF ReplaceTies
<1>6. ASSUME NEW z \in Object, Tied(g, z, z) PROVE Ring(g, One(z) \o <<>>)
  <2>1. One(z) \o <<>> = One(z)
    BY OneObject, ConcatEmptySeq
  <2>2. Ring(g, One(z))
    BY <1>6, OneStrand, OneObject DEF Ring
  <2>3. QED
    BY <2>1, <2>2
<1>7. Ring(g, One(y) \o t)
  <2>1. CASE t = <<>>
    BY <1>2, <1>5, <1>6, <2>1
  <2>2. CASE t # <<>>
    <3>1. /\ \A r \in In(t) : r # End(t) => g.next[r] = h.next[r]
          /\ \A r \in In(t) : r # Start(t) => g.prev[r] = h.prev[r]
      BY <1>2, <1>3, <1>5, <2>2 DEF NextKept, PrevKept
    <3>2. Strand(g, t)
      BY <1>3, <2>2, <3>1, StrandKept
    <3>3. y \notin In(t) /\ Tied(g, End(t), y) /\ Tied(g, y, Start(t))
      BY <1>2, <1>3, <1>5, <2>2
    <3>4. Ring(g, t \o One(y))
      BY <1>2, <3>2, <3>3, TieOne
    <3>5. One(y) \in Seq(Object)
      BY <1>2, OneObject
    <3>6. QED
      BY <1>2, <3>4, <3>5, TurnRing
  <2>3. QED
    BY <2>1, <2>2
<1>8. Ring(g, One(x) \o <<>>)
  BY <1>2, <1>5, <1>6
<1>9. <<>> \in Seq(Node) /\ In(<<>>) = {}
  BY DEF In
<1>10. \A r \in Object : r \notin {y, x} \cup In(l[y]) \cup In(l[x])
                            => g.next[r] = h.next[r] /\ g.prev[r] = h.prev[r]
  <2>1. {x, y, p, q} \subseteq {y, x} \cup In(l[y]) \cup In(l[x])
    BY <1>1, <1>3
  <2>2. QED
    BY <1>5, <2>1 DEF NextKept, PrevKept
<1>11. /\ In(t) \cap In(<<>>) = {}
       /\ In(t) \cup In(<<>>) \subseteq In(l[y]) \cup In(l[x])
  BY <1>1, <1>9
<1>12. k = Put(Put(l, y, t), x, <<>>) /\ g \in Heap
  BY <1>1, <1>5
<1>13. RingState(g, k)
  BY <1>2, <1>7, <1>8, <1>9, <1>10, <1>11, <1>12, ChangeTwo
<1>14. QED
  BY <1>1, <1>13

LEMMA ReplaceHeadStep ==
  ASSUME RState, NEW x \in ListHead, NEW y \in ListHead, R!ReplaceHead(x, y)
  PROVE  RState'
<1>1. RingState(rings, lists) /\ x # y /\ rings' = R!list_replace_init(rings, x, y)
  BY DEF RState, R!ReplaceHead, R!L!ReplaceHead
<1>2. lists' = Put(Put(lists, y, lists[x]), x, <<>>)
  BY DEF R!ReplaceHead, R!L!ReplaceHead, Put
<1>3. QED
  BY <1>1, <1>2, ReplaceHeadState DEF RState

-----------------------------------------------------------------------------
(* The assignments of a cut (list.h:351-419).                              *)
Cuttable(h, y, x, first, e, q) ==
    /\ h \in Heap /\ y \in Object /\ x \in Object
    /\ first \in Object /\ e \in Object /\ q \in Object
    /\ first = h.next[x] /\ q = h.next[e] /\ e = h.prev[q]
    /\ y # x /\ y # first /\ y # e /\ y # q /\ e # x /\ q # first

CutTies(h, g, y, x, first, e, q) ==
    /\ g \in Heap
    /\ Tied(g, y, first) /\ Tied(g, e, y) /\ Tied(g, x, q)
    /\ NextKept(h, g, {y, e, x}) /\ PrevKept(h, g, {first, y, q})

LEMMA CutEffect ==
  ASSUME NEW h, NEW y, NEW x, NEW first, NEW e, NEW q, Cuttable(h, y, x, first, e, q)
  PROVE  /\ CutTies(h, R!ListCutPosition(h, y, x, e), y, x, first, e, q)
         /\ CutTies(h, R!list_cut_before(h, y, x, q), y, x, first, e, q)
<1>0. /\ h \in Heap /\ y \in Object /\ x \in Object
      /\ first \in Object /\ e \in Object /\ q \in Object
      /\ first = h.next[x] /\ q = h.next[e] /\ e = h.prev[q]
      /\ y # x /\ y # first /\ y # e /\ y # q /\ e # x /\ q # first
  BY DEF Cuttable
<1>1. h.next \in [Object -> Pointer] /\ h.prev \in [Object -> Pointer]
  BY <1>0 DEF Heap
<1>2. PICK n1, n2, n3 : /\ n1 = [h.next EXCEPT ![y] = first]
                        /\ n2 = [n1 EXCEPT ![e] = y]
                        /\ n3 = [n2 EXCEPT ![x] = q]
  OBVIOUS
<1>3. PICK p1, p2, p3 : /\ p1 = [h.prev EXCEPT ![first] = y]
                        /\ p2 = [p1 EXCEPT ![y] = e]
                        /\ p3 = [p2 EXCEPT ![q] = x]
  OBVIOUS
<1>4. /\ y \in Pointer /\ x \in Pointer /\ first \in Pointer /\ e \in Pointer /\ q \in Pointer
  BY <1>0, ObjectPointer
<1>5. /\ n3 \in [Object -> Pointer] /\ n3[y] = first /\ n3[e] = y /\ n3[x] = q /\ n1[y] = first
      /\ \A r \in Object : r \notin {y, e, x} => n3[r] = h.next[r]
  BY <1>0, <1>1, <1>2, <1>4
<1>6. /\ p3 \in [Object -> Pointer] /\ p3[first] = y /\ p3[y] = e /\ p3[q] = x
      /\ p1[q] = e /\ p2[y] = e
      /\ \A r \in Object : r \notin {first, y, q} => p3[r] = h.prev[r]
  BY <1>0, <1>1, <1>3, <1>4
<1>7. CutTies(h, [next |-> n3, prev |-> p3], y, x, first, e, q)
  BY <1>0, <1>5, <1>6 DEF CutTies, Heap, Tied, NextKept, PrevKept
<1>8. R!ListCutPosition(h, y, x, e) = [next |-> n3, prev |-> p3]
  BY <1>0, <1>2, <1>3, <1>5 DEF R!ListCutPosition, R!SetNext, R!SetPrev
<1>9. R!list_cut_before(h, y, x, q) = [next |-> n3, prev |-> p3]
  BY <1>0, <1>2, <1>3, <1>5, <1>6 DEF R!list_cut_before, R!SetNext, R!SetPrev
<1>10. QED
  BY <1>7, <1>8, <1>9

(* The first entries a of x, which are not none, become the list of y.     *)
LEMMA CutState ==
  ASSUME NEW h, NEW l, RingState(h, l), NEW x, NEW a, NEW b, Parts(l, x, a, b),
         NEW y \in ListHead, y # x, a # <<>>,
         NEW k, k = Put(Put(l, y, a), x, b)
  PROVE  /\ RingState(R!ListCutPosition(h, y, x, End(a)), k)
         /\ RingState(R!list_cut_before(h, y, x, Start(b \o One(x))), k)
         /\ h.next[x] = Start(a) /\ h.next[x] # x
<1>0. x \in ListHead /\ a \in Seq(Node) /\ b \in Seq(Node) /\ l[x] = a \o b
  BY DEF Parts
<1>1. /\ a \in Seq(Object) /\ b \in Seq(Object) /\ x \in Object /\ y \in Object /\ h \in Heap
      /\ In(a) \subseteq Node /\ In(b) \subseteq Node /\ x \notin Node /\ y \notin Node
      /\ One(x) \in Seq(Object) /\ In(One(x)) = {x} /\ One(x) # <<>> /\ End(One(x)) = x
      /\ One(y) \in Seq(Object)
  <2>1. /\ a \in Seq(Object) /\ b \in Seq(Object) /\ x \in Object /\ y \in Object
        /\ In(a) \subseteq Node /\ In(b) \subseteq Node /\ x \notin Node /\ y \notin Node
    BY <1>0, NodeWords
  <2>2. One(x) \in Seq(Object) /\ In(One(x)) = {x} /\ One(x) # <<>> /\ End(One(x)) = x
    BY <2>1, OneObject
  <2>3. One(y) \in Seq(Object)
    BY <2>1, OneObject
  <2>4. QED
    BY <2>1, <2>2, <2>3 DEF RingState
<1>2. PICK v \in Seq(Object) : v = b \o One(x)
  BY <1>1, Joined
<1>3. In(v) = In(b) \cup {x} /\ End(v) = x /\ v # <<>>
  <2>1. In(v) = In(b) \cup In(One(x))
    BY <1>1, <1>2, JoinedIn
  <2>2. End(v) = x
    BY <1>1, <1>2, JoinedEnds
  <2>3. v # <<>>
    BY <1>1, <1>2, ConcatEqualIffEmpty
  <2>4. QED
    BY <1>1, <2>1, <2>2, <2>3
<1>4. Ring(h, v \o a)
  <2>1. Ring(h, One(x) \o (a \o b))
    BY <1>0 DEF RingState
  <2>2. Ring(h, Rest(x, a, b))
    BY <1>0, <2>1, Around
  <2>3. Rest(x, a, b) = v \o a
    BY <1>1, <1>2, Associative, SMTT(20) DEF Rest
  <2>4. QED
    BY <2>2, <2>3
<1>5. /\ Strand(h, v) /\ Strand(h, a) /\ In(v) \cap In(a) = {}
      /\ Tied(h, End(v), Start(a)) /\ Tied(h, End(a), Start(v))
  BY <1>1, <1>2, <1>3, <1>4, CutRing
<1>6. PICK first, e, q : first = Start(a) /\ e = End(a) /\ q = Start(v)
  OBVIOUS
<1>7. first \in In(a) /\ e \in In(a) /\ q \in In(v) /\ In(v) \subseteq Object /\ In(a) \subseteq Object
  BY <1>5, <1>6, StrandFacts
<1>8. h.next[x] = first /\ h.next[e] = q /\ h.prev[q] = e
  BY <1>3, <1>5, <1>6 DEF Tied
<1>9. Cuttable(h, y, x, first, e, q)
  BY <1>1, <1>3, <1>5, <1>7, <1>8 DEF Cuttable
<1>10. ASSUME NEW g, CutTies(h, g, y, x, first, e, q) PROVE RingState(g, k)
  <2>1. /\ g \in Heap /\ Tied(g, y, first) /\ Tied(g, e, y) /\ Tied(g, x, q)
        /\ NextKept(h, g, {y, e, x}) /\ PrevKept(h, g, {first, y, q})
    BY <1>10 DEF CutTies
  <2>2. Ring(g, One(y) \o a)
    <3>1. /\ \A r \in In(a) : r # End(a) => g.next[r] = h.next[r]
          /\ \A r \in In(a) : r # Start(a) => g.prev[r] = h.prev[r]
      BY <1>1, <1>3, <1>5, <1>6, <1>7, <2>1 DEF NextKept, PrevKept
    <3>2. Strand(g, a)
      BY <1>5, <3>1, StrandKept
    <3>3. y \in Object /\ y \notin In(a) /\ Tied(g, End(a), y) /\ Tied(g, y, Start(a))
      BY <1>1, <1>6, <2>1
    <3>4. Ring(g, a \o One(y))
      BY <3>2, <3>3, TieOne
    <3>5. QED
      BY <1>1, <3>4, TurnRing
  <2>3. Ring(g, One(x) \o b)
    <3>1. /\ \A r \in In(v) : r # End(v) => g.next[r] = h.next[r]
          /\ \A r \in In(v) : r # Start(v) => g.prev[r] = h.prev[r]
      BY <1>1, <1>3, <1>5, <1>6, <1>7, <2>1 DEF NextKept, PrevKept
    <3>2. Strand(g, v)
      BY <1>5, <3>1, StrandKept
    <3>3. Ring(g, v)
      BY <1>3, <1>6, <2>1, <3>2 DEF Ring
    <3>4. QED
      BY <1>1, <1>2, <3>3, TurnRing
  <2>4. In(l[x]) = In(a) \cup In(b)
    BY <1>0, Around
  <2>5. \A r \in Object : r \notin {y, x} \cup In(l[y]) \cup In(l[x])
                            => g.next[r] = h.next[r] /\ g.prev[r] = h.prev[r]
    <3>1. {y, e, x} \cup {first, y, q} \subseteq {y, x} \cup In(l[y]) \cup In(l[x])
      BY <1>3, <1>7, <2>4
    <3>2. QED
      BY <2>1, <3>1 DEF NextKept, PrevKept
  <2>6. In(a) \cap In(b) = {} /\ In(a) \cup In(b) \subseteq In(l[y]) \cup In(l[x])
    BY <1>3, <1>5, <2>4
  <2>7. g \in Heap
    BY <2>1
  <2>8. QED
    BY <1>0, <2>2, <2>3, <2>5, <2>6, <2>7, ChangeTwo
<1>11. /\ RingState(R!ListCutPosition(h, y, x, e), k)
       /\ RingState(R!list_cut_before(h, y, x, q), k)
  BY <1>9, <1>10, CutEffect
<1>12. first # x
  BY <1>1, <1>7
<1>13. QED
  BY <1>2, <1>6, <1>8, <1>11, <1>12

LEMMA CutIs ==
  ASSUME NEW x, NEW y, NEW i, R!L!Cut(y, x, i)
  PROVE  y # x /\ lists' = Put(Put(lists, y, SubSeq(lists[x], 1, i)), x,
                               SubSeq(lists[x], i + 1, Len(lists[x])))
  BY DEF R!L!Cut, Put

LEMMA CutNothing ==
  ASSUME NEW h, NEW l, RingState(h, l), NEW x \in ListHead, NEW y \in ListHead, y # x
  PROVE  RingState(R!INIT_LIST_HEAD(h, y), Put(Put(l, y, <<>>), x, l[x]))
<1>1. l \in [ListHead -> Seq(Node)]
  BY DEF RingState
<1>2. QED
  BY <1>1, StateInit, PutSame

LEMMA CutPositionStep ==
  ASSUME RState, NEW x \in ListHead, NEW y \in ListHead, NEW e \in Object,
         R!CutPosition(y, x, e)
  PROVE  RState'
<1>0. RingState(rings, lists) /\ lists \in [ListHead -> Seq(Node)]
  BY InContract DEF RState
<1>1. rings' = R!list_cut_position(rings, y, x, e)
  BY DEF R!CutPosition
<1>2. CASE lists[x] = <<>> /\ UNCHANGED lists
  <2>1. rings.next[x] = x
    BY <1>0, <1>2, Emptiness
  <2>2. rings' = rings
    BY <1>1, <2>1 DEF R!list_cut_position, R!list_empty
  <2>3. QED
    BY <1>0, <1>2, <2>2 DEF RState
<1>3. CASE lists[x] # <<>> /\ e = x /\ R!L!Cut(y, x, 0)
  <2>1. PICK s \in Seq(Node) : s = lists[x]
    BY <1>0
  <2>2. rings.next[x] # x
    BY <1>0, <1>3, Emptiness
  <2>3. rings' = R!INIT_LIST_HEAD(rings, y)
    BY <1>1, <1>3, <2>2 DEF R!list_cut_position, R!list_empty
  <2>4. SubSeq(s, 1, 0) = <<>> /\ SubSeq(s, 0 + 1, Len(s)) = s
    BY <2>1, SubSeqEmpty, SubSeqFull
  <2>5. y # x /\ lists' = Put(Put(lists, y, <<>>), x, lists[x])
    BY <1>3, <2>1, <2>4, CutIs
  <2>6. QED
    BY <1>0, <2>3, <2>5, CutNothing DEF RState
<1>4. CASE e \in R!L!On(x) /\ R!L!Cut(y, x, R!L!Pos(e))
  <2>1. PICK s, i : s = lists[x] /\ i = R!L!Pos(e)
    OBVIOUS
  <2>2. s \in Seq(Node) /\ i \in 1..Len(s) /\ s[i] = e /\ e \in In(s)
    BY <1>0, <1>4, <2>1, WhereOn
  <2>3. PICK a, b : a = SubSeq(s, 1, i) /\ b = Behind(s, i)
    OBVIOUS
  <2>4. /\ a \in Seq(Node) /\ b \in Seq(Node) /\ s = a \o b /\ a # <<>> /\ End(a) = e
    <3>1. /\ Before(s, i) \in Seq(Node) /\ b \in Seq(Node) /\ One(e) \in Seq(Node)
          /\ a = Before(s, i) \o One(e) /\ s = a \o b
      BY <2>2, <2>3, SplitAt
    <3>2. PICK c \in Seq(Object) : c = Before(s, i)
      BY <3>1, NodeWords
    <3>3. One(e) \in Seq(Object) /\ One(e) # <<>> /\ End(One(e)) = e
      BY OneObject
    <3>4. End(c \o One(e)) = e
      BY <3>2, <3>3, JoinedEnds
    <3>5. c \o One(e) # <<>>
      BY <3>2, <3>3, ConcatEqualIffEmpty
    <3>6. a \in Seq(Node)
      BY <3>1, Joined
    <3>7. QED
      BY <3>1, <3>2, <3>4, <3>5, <3>6
  <2>5. y # x /\ lists' = Put(Put(lists, y, a), x, b)
    BY <1>4, <2>1, <2>3, CutIs DEF Behind
  <2>6. Parts(lists, x, a, b)
    BY <2>1, <2>4 DEF Parts
  <2>7. PICK k : k = Put(Put(lists, y, a), x, b)
    OBVIOUS
  <2>8. RingState(R!ListCutPosition(rings, y, x, End(a)), k) /\ rings.next[x] # x
    <3>1. y # x /\ a # <<>>
      BY <2>4, <2>5
    <3>2. QED
      BY <1>0, <2>6, <2>7, <3>1, CutState
  <2>9. rings.next[x] = rings.prev[x] => rings.next[x] = e
    <3>1. ASSUME rings.next[x] = rings.prev[x] PROVE rings.next[x] = e
      <4>1. lists[x] # <<>>
        BY <1>0, <2>8, Emptiness
      <4>2. Strand(rings, s) /\ rings.next[x] = Start(s) /\ rings.prev[x] = End(s)
        BY <1>0, <2>1, <4>1, Whole
      <4>3. Word(s)
        BY <4>2, StrandFacts
      <4>4. 1 = Len(s)
        BY <3>1, <4>2, <4>3, WordFacts DEF Start, End
      <4>5. i = 1
        <5>1. i \in 1..1
          BY <2>2, <4>4
        <5>2. QED
          BY <5>1
      <4>6. QED
        BY <2>2, <4>2, <4>5 DEF Start
    <3>2. QED
      BY <3>1
  <2>10. e # x
    BY <2>2, NodeWords
  <2>11. rings' = R!ListCutPosition(rings, y, x, e)
    BY <1>1, <2>8, <2>9, <2>10 DEF R!list_cut_position, R!list_empty, R!list_is_singular
  <2>12. QED
    BY <2>4, <2>5, <2>7, <2>8, <2>11 DEF RState
<1>5. QED
  BY <1>2, <1>3, <1>4 DEF R!CutPosition

LEMMA CutBeforeStep ==
  ASSUME RState, NEW x \in ListHead, NEW y \in ListHead, NEW e \in Object,
         R!CutBefore(y, x, e)
  PROVE  RState'
<1>0. RingState(rings, lists) /\ lists \in [ListHead -> Seq(Node)]
  BY InContract DEF RState
<1>1. rings' = R!list_cut_before(rings, y, x, e)
  BY DEF R!CutBefore
<1>2. PICK s \in Seq(Node) : s = lists[x]
  BY <1>0
<1>3. ASSUME NEW a, NEW b, Parts(lists, x, a, b), e = Start(b \o One(x)), y # x,
             lists' = Put(Put(lists, y, a), x, b)
      PROVE  RState'
  <2>1. CASE a # <<>>
    <3>1. PICK k : k = Put(Put(lists, y, a), x, b)
      OBVIOUS
    <3>2. RingState(R!list_cut_before(rings, y, x, Start(b \o One(x))), k)
      BY <1>0, <1>3, <2>1, <3>1, CutState
    <3>3. QED
      BY <1>1, <1>3, <3>1, <3>2 DEF RState
  <2>2. CASE a = <<>>
    <3>1. b = s /\ b \in Seq(Node)
      BY <1>2, <1>3, <2>2, ConcatEmptySeq DEF Parts
    <3>2. rings.next[x] = e
      <4>1. Parts(lists, x, <<>>, s)
        BY <1>3, <2>2, <3>1
      <4>2. Rest(x, <<>>, s) = s \o One(x)
        <5>1. x \in Object /\ One(x) \in Seq(Object)
          BY NodeWords, OneObject
        <5>2. QED
          BY <5>1, ConcatEmptySeq DEF Rest
      <4>3. End(Rest(x, <<>>, s)) = x
        BY <1>2, RestEnds
      <4>4. rings.next[End(Rest(x, <<>>, s))] = Start(Rest(x, <<>>, s))
        BY <1>0, <4>1, Gap
      <4>5. QED
        BY <1>3, <3>1, <4>2, <4>3, <4>4
    <3>3. rings' = R!INIT_LIST_HEAD(rings, y)
      BY <1>1, <3>2 DEF R!list_cut_before
    <3>4. lists' = Put(Put(lists, y, <<>>), x, lists[x])
      BY <1>2, <1>3, <2>2, <3>1
    <3>5. QED
      BY <1>0, <1>3, <3>3, <3>4, CutNothing DEF RState
  <2>3. QED
    BY <2>1, <2>2
<1>4. x \in Object /\ One(x) \in Seq(Object) /\ One(x) # <<>> /\ Start(One(x)) = x
  BY NodeWords, OneObject
<1>5. CASE e = x /\ R!L!Cut(y, x, Len(lists[x]))
  <2>1. SubSeq(s, 1, Len(s)) = s /\ SubSeq(s, Len(s) + 1, Len(s)) = <<>>
    <3>1. Len(s) \in Nat
      BY LenProperties
    <3>2. Len(s) + 1 \in Int /\ Len(s) \in Int /\ Len(s) < Len(s) + 1
      BY <3>1
    <3>3. QED
      BY <3>2, SubSeqFull, SubSeqEmpty
  <2>2. y # x /\ lists' = Put(Put(lists, y, s), x, <<>>)
    <3>1. R!L!Cut(y, x, Len(s))
      BY <1>2, <1>5
    <3>2. y # x /\ lists' = Put(Put(lists, y, SubSeq(s, 1, Len(s))), x,
                               SubSeq(s, Len(s) + 1, Len(s)))
      BY <1>2, <3>1, CutIs
    <3>3. QED
      BY <2>1, <3>2
  <2>3. Parts(lists, x, s, <<>>)
    BY <1>2, ConcatEmptySeq DEF Parts
  <2>4. Start(<<>> \o One(x)) = x
    BY <1>4, ConcatEmptySeq
  <2>5. QED
    BY <1>3, <1>5, <2>2, <2>3, <2>4
<1>6. CASE e \in R!L!On(x) /\ R!L!Cut(y, x, R!L!Pos(e) - 1)
  <2>1. PICK i : i = R!L!Pos(e)
    OBVIOUS
  <2>2. i \in 1..Len(s) /\ s[i] = e
    BY <1>0, <1>2, <1>6, <2>1, WhereOn
  <2>3. PICK a, b : a = Before(s, i) /\ b = SubSeq(s, i, Len(s))
    OBVIOUS
  <2>4. /\ a \in Seq(Node) /\ Behind(s, i) \in Seq(Node) /\ One(e) \in Seq(Node)
        /\ b = One(e) \o Behind(s, i) /\ s = (a \o One(e)) \o Behind(s, i)
    BY <2>2, <2>3, SplitAt
  <2>5. /\ b \in Seq(Node) /\ s = a \o b /\ Start(b \o One(x)) = e
    <3>1. PICK c \in Seq(Object) : c = Behind(s, i)
      BY <2>4, NodeWords
    <3>2. a \in Seq(Object) /\ One(e) \in Seq(Object) /\ One(e) # <<>> /\ Start(One(e)) = e
      BY <2>4, NodeWords, OneObject
    <3>3. (a \o One(e)) \o c = a \o (One(e) \o c)
      BY <3>1, <3>2, Associative
    <3>4. PICK d \in Seq(Object) : d = One(e) \o c
      BY <3>1, <3>2, Joined
    <3>5. Start(d) = e
      BY <3>1, <3>2, <3>4, JoinedEnds
    <3>6. d # <<>>
      BY <3>1, <3>2, <3>4, ConcatEqualIffEmpty
    <3>7. Start(d \o One(x)) = e
      <4>1. d \in Seq(Object) /\ One(x) \in Seq(Object)
        BY <1>4, <3>4
      <4>2. QED
        BY <3>5, <3>6, <4>1, JoinedEnds
    <3>8. b \in Seq(Node)
      BY <2>4, Joined
    <3>9. QED
      BY <2>4, <3>1, <3>3, <3>4, <3>7, <3>8
  <2>6. y # x /\ lists' = Put(Put(lists, y, a), x, b)
    <3>1. (i - 1) + 1 = i
      BY <2>2
    <3>2. y # x /\ lists' = Put(Put(lists, y, SubSeq(s, 1, i - 1)), x, SubSeq(s, (i - 1) + 1, Len(s)))
      BY <1>2, <1>6, <2>1, CutIs
    <3>3. QED
      BY <2>3, <3>1, <3>2 DEF Before
  <2>7. Parts(lists, x, a, b)
    BY <1>2, <2>4, <2>5 DEF Parts
  <2>8. QED
    BY <1>3, <2>5, <2>6, <2>7
<1>7. QED
  BY <1>5, <1>6 DEF R!CutBefore

-----------------------------------------------------------------------------
(* The pointers before the first call.                                     *)
LEMMA RingInit ==
  ASSUME R!Init
  PROVE  RState
<1>1. /\ rings = [next |-> [p \in R!Object |-> IF p \in ListHead THEN p ELSE R!NULL],
                  prev |-> [p \in R!Object |-> IF p \in ListHead THEN p ELSE R!NULL]]
      /\ lists = [x \in ListHead |-> <<>>]
  BY DEF R!Init, R!L!Init
<1>2. R!Object = Object
  BY DEF R!Object, Object
<1>3. rings \in Heap /\ \A x \in ListHead : Tied(rings, x, x)
  BY <1>1, <1>2 DEF Heap, Pointer, Tied, Object
<1>4. lists \in [ListHead -> Seq(Node)] /\ Apart(lists)
  BY <1>1 DEF Apart, In
<1>5. ASSUME NEW x \in ListHead PROVE Ring(rings, One(x) \o lists[x])
  <2>1. x \in Object
    BY NodeWords
  <2>2. One(x) \o <<>> = One(x)
    BY <2>1, OneObject, ConcatEmptySeq
  <2>3. Ring(rings, One(x))
    BY <1>3, <2>1, OneStrand, OneObject DEF Ring
  <2>4. QED
    BY <1>1, <2>2, <2>3
<1>6. QED
  BY <1>3, <1>4, <1>5 DEF RState, RingState

LEMMA RingStep ==
  ASSUME RState, R!Step
  PROVE  RState'
<1>1. R!Object = Object
  BY DEF R!Object, Object
<1>2. CASE \E n \in Node, x \in ListHead : R!Insert(n, x) \/ R!Move(n, x)
  BY <1>2, InsertStep, MoveStep
<1>3. CASE \E n \in Node : R!Delete(n)
  BY <1>3, DeleteStep
<1>4. CASE \E n, m \in Node : R!Replace(n, m) \/ R!Swap(n, m)
  BY <1>4, ReplaceStep, SwapStep
<1>5. CASE \E n, m \in Node, x \in ListHead : R!BulkMoveTail(x, n, m)
  BY <1>5, BulkStep
<1>6. CASE \E x \in ListHead : R!Rotate(x)
  BY <1>6, RotateStep
<1>7. CASE \E x, y \in ListHead : R!Splice(y, x) \/ R!ReplaceHead(x, y)
  BY <1>7, SpliceStep, ReplaceHeadStep
<1>8. CASE \E x, y \in ListHead, e \in R!Object : R!CutPosition(y, x, e) \/ R!CutBefore(y, x, e)
  BY <1>1, <1>8, CutPositionStep, CutBeforeStep
<1>9. QED
  BY <1>2, <1>3, <1>4, <1>5, <1>6, <1>7, <1>8 DEF R!Step

-----------------------------------------------------------------------------
(* What the rings mean.                                                    *)
LEMMA RingKeepsContract ==
  ASSUME RState
  PROVE  R!KeepsContract
<1>0. RingState(rings, lists) /\ lists \in [ListHead -> Seq(Node)]
  BY InContract DEF RState
<1>1. ASSUME NEW x \in ListHead PROVE R!Represents(rings, x, lists[x])
  <2>1. PICK s \in Seq(Node) : s = lists[x]
    BY <1>0
  <2>2. PICK w : w = One(x) \o s
    OBVIOUS
  <2>3. x \in Object /\ s \in Seq(Object) /\ In(s) \subseteq Node /\ x \notin Node
    BY <2>1, NodeWords
  <2>4. One(x) \in Seq(Object) /\ Len(One(x)) = 1 /\ Start(One(x)) = x
    BY <2>3, OneObject
  <2>5. /\ w \in Seq(Object) /\ Len(s) \in Nat /\ Len(w) = 1 + Len(s)
        /\ w[1] = x
        /\ \A i \in 1..Len(s) : w[1 + i] = s[i]
    <3>1. 1 \in 1..Len(One(x)) /\ One(x)[1] = x
      BY <2>4 DEF Start
    <3>2. QED
      <4>1. PICK o \in Seq(Object) : o = One(x)
        BY <2>4
      <4>2. /\ o \o s \in Seq(Object) /\ Len(s) \in Nat /\ Len(o \o s) = Len(o) + Len(s)
            /\ \A i \in 1..Len(o) : (o \o s)[i] = o[i]
            /\ \A i \in 1..Len(s) : (o \o s)[Len(o) + i] = s[i]
        BY <2>3, <4>1, Joined
      <4>3. QED
        BY <2>2, <2>4, <3>1, <4>1, <4>2
  <2>6. Ring(rings, w)
    BY <1>0, <2>1, <2>2 DEF RingState
  <2>7. /\ \A i \in 1..(Len(w) - 1) : Tied(rings, w[i], w[i + 1])
        /\ Tied(rings, w[Len(w)], w[1])
        /\ \A i, j \in 1..Len(w) : w[i] = w[j] => i = j
    <3>1. /\ Word(w) /\ Tied(rings, End(w), Start(w))
          /\ \A i \in 1..(Len(w) - 1) : Linked(rings.next, rings.prev, Self, w[i], w[i + 1])
      BY <2>6 DEF Ring, Strand, Chain
    <3>2. \A i \in 1..(Len(w) - 1) : w[i] \in Object
      BY <2>5, LenProperties
    <3>3. \A i \in 1..(Len(w) - 1) : Tied(rings, w[i], w[i + 1])
      BY <3>1, <3>2, TiedIsLinked
    <3>4. QED
      BY <3>1, <3>3 DEF Word, Start, End
  <2>8. \A i \in 0..Len(s) : w[i + 1] = R!At(x, s, i)
    BY <2>5 DEF R!At
  <2>9. R!At(x, s, Len(s) + 1) = x
    BY <2>5 DEF R!At
  <2>10. ASSUME NEW i \in 0..Len(s)
         PROVE  Tied(rings, R!At(x, s, i), R!At(x, s, i + 1))
    <3>1. CASE i = Len(s)
      <4>1. Tied(rings, w[Len(w)], w[1]) /\ w[Len(w)] = R!At(x, s, i)
        BY <2>5, <2>7, <2>8, <3>1
      <4>2. QED
        BY <2>5, <2>9, <3>1, <4>1
    <3>2. CASE i # Len(s)
      <4>1. i + 1 \in 1..(Len(w) - 1) /\ i + 1 \in 0..Len(s)
        BY <2>5, <3>2
      <4>2. Tied(rings, w[i + 1], w[(i + 1) + 1])
        BY <2>7, <4>1
      <4>3. w[i + 1] = R!At(x, s, i) /\ w[(i + 1) + 1] = R!At(x, s, i + 1)
        BY <2>8, <4>1
      <4>4. QED
        BY <4>2, <4>3
    <3>3. QED
      BY <3>1, <3>2
  <2>11. \A i \in 1..Len(s) : s[i] # x
    BY <2>3 DEF In
  <2>12. \A i, j \in 1..Len(s) : s[i] = s[j] => i = j
    <3>1. ASSUME NEW i \in 1..Len(s), NEW j \in 1..Len(s), s[i] = s[j] PROVE i = j
      <4>1. 1 + i \in 1..Len(w) /\ 1 + j \in 1..Len(w) /\ w[1 + i] = w[1 + j]
        BY <2>5, <3>1
      <4>2. 1 + i = 1 + j
        BY <2>7, <4>1
      <4>3. QED
        BY <4>2
    <3>2. QED
      BY <3>1
  <2>13. R!Represents(rings, x, s)
    BY <2>10, <2>11, <2>12 DEF R!Represents, Tied
  <2>14. QED
    BY <2>1, <2>13
<1>2. QED
  BY <1>1 DEF R!KeepsContract

LEMMA RingAnswersRight ==
  ASSUME RState
  PROVE  R!AnswersRight
<1>0. RingState(rings, lists) /\ lists \in [ListHead -> Seq(Node)]
  BY InContract DEF RState
<1>1. ASSUME NEW x \in ListHead, NEW s, s = lists[x]
      PROVE  /\ R!list_empty(rings, x) <=> s = <<>>
             /\ R!list_empty_careful(rings, x) <=> s = <<>>
             /\ R!list_is_singular(rings, x) <=> Len(s) = 1
             /\ R!list_first_entry_or_null(rings, x) = IF s = <<>> THEN R!NULL ELSE Head(s)
             /\ \A n \in R!L!On(x) : /\ R!list_is_first(rings, n, x) <=> n = Head(s)
                                     /\ R!list_is_last(rings, n, x) <=> n = s[Len(s)]
  <2>1. s \in Seq(Node) /\ x \notin Node /\ x \in Object
    BY <1>0, <1>1, NodeWords
  <2>2. CASE s = <<>>
    <3>1. rings.next[x] = x /\ rings.prev[x] = x /\ Len(s) = 0
      <4>1. lists[x] = <<>>
        BY <1>1, <2>2
      <4>2. rings.next[x] = x /\ rings.prev[x] = x
        BY <1>0, <1>1, <4>1, Emptiness
      <4>3. QED
        BY <2>2, <4>2, EmptySeq
    <3>2. R!L!On(x) = {}
      <4>1. R!L!On(x) = In(s)
        BY <1>0, <1>1, InContract
      <4>2. 1..Len(s) = {}
        BY <3>1
      <4>3. QED
        BY <4>1, <4>2 DEF In
    <3>3. QED
      BY <2>2, <3>1, <3>2 DEF R!list_empty, R!list_empty_careful, R!list_is_singular,
         R!list_first_entry_or_null
  <2>3. CASE s # <<>>
    <3>1. /\ Strand(rings, s) /\ rings.next[x] = Start(s) /\ rings.prev[x] = End(s)
          /\ rings.prev[Start(s)] = x /\ rings.next[End(s)] = x
          /\ Start(s) \in Node /\ End(s) \in Node
      BY <1>0, <1>1, <2>3, Whole
    <3>2. /\ Len(s) \in Nat /\ Len(s) >= 1 /\ 1 \in 1..Len(s) /\ Len(s) \in 1..Len(s)
          /\ \A i, j \in 1..Len(s) : s[i] = s[j] => i = j
      BY <3>1, StrandFacts, WordFacts
    <3>3. Start(s) = Head(s) /\ End(s) = s[Len(s)] /\ (Start(s) = End(s) <=> Len(s) = 1)
      <4>1. Start(s) = s[1] /\ End(s) = s[Len(s)]
        BY DEF Start, End
      <4>2. Head(s) = s[1]
        BY <2>1, <2>3
      <4>3. QED
        BY <3>2, <4>1, <4>2
    <3>4. ASSUME NEW n \in R!L!On(x)
          PROVE  /\ rings.prev[n] = x <=> n = Head(s)
                 /\ rings.next[n] = x <=> n = s[Len(s)]
      <4>1. PICK i \in 1..Len(s) : n = s[i]
        BY <1>0, <1>1, InContract DEF In
      <4>2. R!Represents(rings, x, s)
        BY <1>1, RingKeepsContract DEF R!KeepsContract
      <4>3. /\ \A j \in 0..Len(s) : /\ rings.next[R!At(x, s, j)] = R!At(x, s, j + 1)
                                    /\ rings.prev[R!At(x, s, j + 1)] = R!At(x, s, j)
            /\ \A j \in 1..Len(s) : s[j] # x
        BY <4>2 DEF R!Represents
      <4>4. rings.next[n] = R!At(x, s, i + 1) /\ rings.prev[n] = R!At(x, s, i - 1)
        <5>1. i \in 0..Len(s) /\ i - 1 \in 0..Len(s) /\ (i - 1) + 1 = i /\ R!At(x, s, i) = n
          BY <3>2, <4>1 DEF R!At
        <5>2. QED
          BY <4>3, <5>1
      <4>5. R!At(x, s, i + 1) = x <=> i = Len(s)
        BY <3>2, <4>3 DEF R!At
      <4>6. R!At(x, s, i - 1) = x <=> i = 1
        BY <3>2, <4>3 DEF R!At
      <4>7. (n = s[1] <=> i = 1) /\ (n = s[Len(s)] <=> i = Len(s))
        BY <3>2, <4>1
      <4>8. QED
        BY <3>3, <4>4, <4>5, <4>6, <4>7 DEF Start
    <3>5. rings.next[x] # x
      BY <2>1, <3>1
    <3>6. QED
      BY <2>3, <3>1, <3>3, <3>4, <3>5 DEF R!list_empty, R!list_empty_careful,
         R!list_is_singular, R!list_first_entry_or_null, R!list_is_first, R!list_is_last
  <2>4. QED
    BY <2>2, <2>3
<1>2. QED
  BY <1>1 DEF R!AnswersRight

-----------------------------------------------------------------------------
(* Hlists.  The address of the pointer in an object, which is what a node  *)
(* keeps of the object before it, and the pointers as a function of the    *)
(* objects they are in.                                                    *)
Adr(p) == IF p \in ListHead THEN HR!First(p) ELSE HR!Next(p)

Addr == [p \in Object |-> Adr(p)]

Nx(h) == [p \in Object |-> h.cell[Adr(p)]]

(* A chain that ends.                                                      *)
Line(nx, pv, w) == Chain(nx, pv, Addr, w) /\ nx[End(w)] = HR!NULL

LEMMA LineKept ==
  ASSUME NEW nx, NEW pv, NEW w, Line(nx, pv, w), NEW nx2, NEW pv2,
         \A r \in In(w) : nx2[r] = nx[r],
         \A r \in In(w) : r # Start(w) => pv2[r] = pv[r]
  PROVE  Line(nx2, pv2, w)
<1>1. Chain(nx, pv, Addr, w) /\ nx[End(w)] = HR!NULL
  BY DEF Line
<1>2. Word(w)
  BY <1>1 DEF Chain
<1>3. End(w) \in In(w)
  BY <1>2, WordFacts
<1>4. Chain(nx2, pv2, Addr, w)
  BY <1>1, ChainKept
<1>5. QED
  BY <1>1, <1>3, <1>4 DEF Line

(* A line is a chain and the line that follows it.                         *)
LEMMA CutLine ==
  ASSUME NEW nx, NEW pv, NEW u \in Seq(Object), NEW v \in Seq(Object), u # <<>>, v # <<>>,
         Line(nx, pv, u \o v)
  PROVE  /\ Chain(nx, pv, Addr, u) /\ Line(nx, pv, v) /\ In(u) \cap In(v) = {}
         /\ nx[End(u)] = Start(v) /\ pv[Start(v)] = Addr[End(u)]
<1>1. Chain(nx, pv, Addr, u \o v) /\ nx[End(u \o v)] = HR!NULL
  BY DEF Line
<1>2. /\ Chain(nx, pv, Addr, u) /\ Chain(nx, pv, Addr, v) /\ In(u) \cap In(v) = {}
      /\ Linked(nx, pv, Addr, End(u), Start(v))
  BY <1>1, SplitChain
<1>3. End(u \o v) = End(v)
  BY JoinedEnds
<1>4. QED
  BY <1>1, <1>2, <1>3 DEF Line, Linked

LEMMA CutFirst ==
  ASSUME NEW nx, NEW pv, NEW n \in Object, NEW v \in Seq(Object), v # <<>>,
         NEW w, w = One(n) \o v, Line(nx, pv, w)
  PROVE  /\ Line(nx, pv, v) /\ n \notin In(v)
         /\ nx[n] = Start(v) /\ pv[Start(v)] = Addr[n]
<1>1. One(n) \in Seq(Object) /\ One(n) # <<>> /\ End(One(n)) = n /\ In(One(n)) = {n}
  BY OneObject
<1>2. /\ Chain(nx, pv, Addr, One(n)) /\ Line(nx, pv, v) /\ In(One(n)) \cap In(v) = {}
      /\ nx[End(One(n))] = Start(v) /\ pv[Start(v)] = Addr[End(One(n))]
  <2>1. One(n) \in Seq(Object) /\ One(n) # <<>>
    BY <1>1
  <2>2. QED
    BY <2>1, CutLine
<1>3. QED
  BY <1>1, <1>2

LEMMA TieLine ==
  ASSUME NEW nx, NEW pv, NEW u, NEW v,
         Chain(nx, pv, Addr, u), Line(nx, pv, v), In(u) \cap In(v) = {},
         nx[End(u)] = Start(v), pv[Start(v)] = Addr[End(u)]
  PROVE  Line(nx, pv, u \o v)
<1>1. Chain(nx, pv, Addr, v) /\ nx[End(v)] = HR!NULL
  BY DEF Line
<1>2. Linked(nx, pv, Addr, End(u), Start(v))
  BY DEF Linked
<1>3. Chain(nx, pv, Addr, u \o v)
  BY <1>1, <1>2, JoinChains
<1>4. End(u \o v) = End(v)
  BY <1>1, JoinWords DEF Chain
<1>5. QED
  BY <1>1, <1>3, <1>4 DEF Line

(* An object that goes behind the end p of u.                              *)
LineArgs(u, b, n) ==
    /\ u \in Seq(Object) /\ b \in Seq(Object) /\ u # <<>>
    /\ Word(u) /\ In(b) \subseteq Node
    /\ \A r \in In(u) : r # Start(u) => r \in Node
    /\ n \in Node

Inserted(nx, pv, nx2, pv2, p, n, q) ==
    /\ nx2[p] = n /\ nx2[n] = q /\ pv2[n] = Addr[p]
    /\ q # HR!NULL => pv2[q] = Addr[n]
    /\ \A r \in Object : r # n /\ r # p => nx2[r] = nx[r]
    /\ \A r \in Node : r # n /\ r # q => pv2[r] = pv[r]

LEMMA LineInsert ==
  ASSUME NEW nx, NEW pv, NEW u, NEW b, NEW n, LineArgs(u, b, n),
         Line(nx, pv, u \o b), n \notin In(u), n \notin In(b),
         NEW nx2, NEW pv2, Inserted(nx, pv, nx2, pv2, End(u), n, nx[End(u)])
  PROVE  Line(nx2, pv2, (u \o One(n)) \o b)
<1>0. /\ u \in Seq(Object) /\ b \in Seq(Object) /\ u # <<>> /\ n \in Node
      /\ Word(u) /\ In(b) \subseteq Node
      /\ \A r \in In(u) : r # Start(u) => r \in Node
  BY DEF LineArgs
<1>1. PICK p, q : p = End(u) /\ q = nx[p]
  OBVIOUS
<1>2. /\ nx2[p] = n /\ nx2[n] = q /\ pv2[n] = Addr[p]
      /\ q # HR!NULL => pv2[q] = Addr[n]
      /\ \A r \in Object : r # n /\ r # p => nx2[r] = nx[r]
      /\ \A r \in Node : r # n /\ r # q => pv2[r] = pv[r]
  BY <1>1 DEF Inserted
<1>3. n \in Object /\ p \in In(u) /\ In(u) \subseteq Object
  BY <1>0, <1>1, NodeWords, WordFacts
<1>4. /\ Chain(nx2, pv2, Addr, One(n)) /\ In(One(n)) = {n} /\ One(n) \in Seq(Object) /\ One(n) # <<>>
      /\ Start(One(n)) = n /\ End(One(n)) = n
  BY <1>3, OneChain, OneObject
<1>5. u \o One(n) \in Seq(Object)
  BY <1>0, <1>4, Joined
<1>6. CASE b = <<>>
  <2>1. u \o b = u /\ (u \o One(n)) \o b = u \o One(n)
    BY <1>0, <1>5, <1>6, ConcatEmptySeq
  <2>2. Chain(nx, pv, Addr, u) /\ q = HR!NULL
    BY <1>1, <2>1 DEF Line
  <2>3. Chain(nx2, pv2, Addr, u)
    <3>1. /\ \A r \in In(u) : r # End(u) => nx2[r] = nx[r]
          /\ \A r \in In(u) : r # Start(u) => pv2[r] = pv[r]
      <4>1. HR!NULL \notin Node
        BY ListAssumption
      <4>2. QED
        BY <1>0, <1>1, <1>2, <1>3, <2>2, <4>1
    <3>2. QED
      BY <2>2, <3>1, ChainKept
  <2>4. Line(nx2, pv2, One(n))
    BY <1>2, <1>4, <2>2 DEF Line
  <2>5. In(u) \cap In(One(n)) = {} /\ nx2[End(u)] = Start(One(n)) /\ pv2[Start(One(n))] = Addr[End(u)]
    BY <1>1, <1>2, <1>4
  <2>6. Line(nx2, pv2, u \o One(n))
    BY <2>3, <2>4, <2>5, TieLine
  <2>7. QED
    BY <2>1, <2>6
<1>7. CASE b # <<>>
  <2>1. /\ Chain(nx, pv, Addr, u) /\ Line(nx, pv, b) /\ In(u) \cap In(b) = {}
        /\ nx[End(u)] = Start(b) /\ pv[Start(b)] = Addr[End(u)]
    <3>1. u \in Seq(Object) /\ b \in Seq(Object) /\ u # <<>>
      BY <1>0
    <3>2. QED
      BY <1>7, <3>1, CutLine
  <2>2. Chain(nx, pv, Addr, b) /\ nx[End(b)] = HR!NULL
    BY <2>1 DEF Line
  <2>3. Word(b) /\ Start(b) \in In(b) /\ End(b) \in In(b)
    BY <2>2, WordFacts DEF Chain
  <2>4. q = Start(b) /\ q \in Node /\ q # HR!NULL /\ q \notin In(u)
    <3>1. HR!NULL \notin Node
      BY ListAssumption
    <3>2. QED
      BY <1>0, <1>1, <2>1, <2>3, <3>1
  <2>5. Chain(nx2, pv2, Addr, u)
    <3>1. /\ \A r \in In(u) : r # End(u) => nx2[r] = nx[r]
          /\ \A r \in In(u) : r # Start(u) => pv2[r] = pv[r]
      BY <1>0, <1>1, <1>2, <1>3, <2>4
    <3>2. QED
      BY <2>1, <3>1, ChainKept
  <2>6. Line(nx2, pv2, b)
    <3>1. /\ \A r \in In(b) : nx2[r] = nx[r]
          /\ \A r \in In(b) : r # Start(b) => pv2[r] = pv[r]
      <4>1. p \notin In(b) /\ In(b) \subseteq Object
        BY <1>0, <1>3, <2>1, NodeWords
      <4>2. QED
        BY <1>0, <1>2, <2>4, <4>1
    <3>2. QED
      BY <2>1, <3>1, LineKept
  <2>7. Line(nx2, pv2, One(n) \o b)
    <3>1. In(One(n)) \cap In(b) = {} /\ nx2[End(One(n))] = Start(b) /\ pv2[Start(b)] = Addr[End(One(n))]
      BY <1>2, <1>4, <2>4
    <3>2. QED
      BY <1>4, <2>6, <3>1, TieLine
  <2>8. Line(nx2, pv2, u \o (One(n) \o b))
    <3>1. PICK v \in Seq(Object) : v = One(n) \o b
      BY <1>0, <1>4, Joined
    <3>2. Start(v) = n /\ In(v) = {n} \cup In(b)
      <4>1. Start(v) = n
        BY <1>0, <1>4, <3>1, JoinedEnds
      <4>2. In(v) = In(One(n)) \cup In(b)
        BY <1>0, <1>4, <3>1, JoinedIn
      <4>3. QED
        BY <1>4, <4>1, <4>2
    <3>3. In(u) \cap In(v) = {} /\ nx2[End(u)] = Start(v) /\ pv2[Start(v)] = Addr[End(u)]
      BY <1>1, <1>2, <2>1, <3>2
    <3>4. Line(nx2, pv2, v)
      BY <2>7, <3>1
    <3>5. QED
      BY <2>5, <3>1, <3>3, <3>4, TieLine
  <2>9. (u \o One(n)) \o b = u \o (One(n) \o b)
    BY <1>0, <1>4, Associative
  <2>10. QED
    BY <2>8, <2>9
<1>8. QED
  BY <1>6, <1>7

(* The object n behind p goes.                                             *)
Removed(nx, pv, nx2, pv2, p, n, q) ==
    /\ nx2[p] = q
    /\ q # HR!NULL => pv2[q] = Addr[p]
    /\ \A r \in Object : r # p => nx2[r] = nx[r]
    /\ \A r \in Node : r # q => pv2[r] = pv[r]

LEMMA LineRemove ==
  ASSUME NEW nx, NEW pv, NEW u, NEW b, NEW n, LineArgs(u, b, n),
         Line(nx, pv, (u \o One(n)) \o b),
         NEW nx2, NEW pv2, Removed(nx, pv, nx2, pv2, End(u), n, nx[n])
  PROVE  Line(nx2, pv2, u \o b)
<1>0. /\ u \in Seq(Object) /\ b \in Seq(Object) /\ u # <<>> /\ n \in Node
      /\ Word(u) /\ In(b) \subseteq Node
      /\ \A r \in In(u) : r # Start(u) => r \in Node
  BY DEF LineArgs
<1>1. PICK p, q : p = End(u) /\ q = nx[n]
  OBVIOUS
<1>2. /\ nx2[p] = q
      /\ q # HR!NULL => pv2[q] = Addr[p]
      /\ \A r \in Object : r # p => nx2[r] = nx[r]
      /\ \A r \in Node : r # q => pv2[r] = pv[r]
  BY <1>1 DEF Removed
<1>3. n \in Object /\ p \in In(u) /\ In(u) \subseteq Object
  BY <1>0, <1>1, NodeWords, WordFacts
<1>4. One(n) \in Seq(Object) /\ One(n) # <<>> /\ Start(One(n)) = n /\ End(One(n)) = n /\ In(One(n)) = {n}
  BY <1>3, OneObject
<1>5. PICK v \in Seq(Object) : v = One(n) \o b
  BY <1>0, <1>4, Joined
<1>6. Line(nx, pv, u \o v) /\ v # <<>>
  <2>1. (u \o One(n)) \o b = u \o v
    BY <1>0, <1>4, <1>5, Associative
  <2>2. v # <<>>
    BY <1>0, <1>4, <1>5, ConcatEqualIffEmpty
  <2>3. QED
    BY <2>1, <2>2
<1>7. Chain(nx, pv, Addr, u) /\ Line(nx, pv, v) /\ In(u) \cap In(v) = {}
  <2>1. u \in Seq(Object) /\ v \in Seq(Object) /\ u # <<>>
    BY <1>0, <1>5
  <2>2. QED
    BY <1>6, <2>1, CutLine
<1>8. CASE b = <<>>
  <2>1. v = One(n) /\ u \o b = u
    BY <1>0, <1>4, <1>5, <1>8, ConcatEmptySeq
  <2>2. q = HR!NULL
    BY <1>1, <1>4, <1>7, <2>1 DEF Line
  <2>3. Chain(nx2, pv2, Addr, u)
    <3>1. /\ \A r \in In(u) : r # End(u) => nx2[r] = nx[r]
          /\ \A r \in In(u) : r # Start(u) => pv2[r] = pv[r]
      <4>1. HR!NULL \notin Node
        BY ListAssumption
      <4>2. QED
        BY <1>0, <1>1, <1>2, <1>3, <2>2, <4>1
    <3>2. QED
      BY <1>7, <3>1, ChainKept
  <2>4. QED
    BY <1>1, <1>2, <2>1, <2>2, <2>3 DEF Line
<1>9. CASE b # <<>>
  <2>1. /\ Line(nx, pv, b) /\ n \notin In(b) /\ q = Start(b) /\ In(v) = {n} \cup In(b)
    <3>1. n \in Object /\ b \in Seq(Object) /\ v = One(n) \o b /\ Line(nx, pv, v)
      BY <1>0, <1>3, <1>5, <1>7
    <3>2. Line(nx, pv, b) /\ n \notin In(b) /\ nx[n] = Start(b)
      BY <1>9, <3>1, CutFirst
    <3>3. In(v) = In(One(n)) \cup In(b)
      BY <1>0, <1>4, <1>5, JoinedIn
    <3>4. QED
      BY <1>1, <1>4, <3>2, <3>3
  <2>2. Word(b) /\ Start(b) \in In(b)
    BY <2>1, WordFacts DEF Line, Chain
  <2>3. q \in Node /\ q # HR!NULL /\ q \notin In(u)
    <3>1. HR!NULL \notin Node
      BY ListAssumption
    <3>2. QED
      BY <1>0, <1>7, <2>1, <2>2, <3>1
  <2>4. Chain(nx2, pv2, Addr, u)
    <3>1. /\ \A r \in In(u) : r # End(u) => nx2[r] = nx[r]
          /\ \A r \in In(u) : r # Start(u) => pv2[r] = pv[r]
      BY <1>0, <1>1, <1>2, <1>3, <2>3
    <3>2. QED
      BY <1>7, <3>1, ChainKept
  <2>5. Line(nx2, pv2, b)
    <3>1. /\ \A r \in In(b) : nx2[r] = nx[r]
          /\ \A r \in In(b) : r # Start(b) => pv2[r] = pv[r]
      <4>1. p \notin In(b) /\ In(b) \subseteq Object
        BY <1>0, <1>3, <1>7, <2>1, NodeWords
      <4>2. QED
        BY <1>0, <1>2, <2>1, <4>1
    <3>2. QED
      BY <2>1, <3>1, LineKept
  <2>6. In(u) \cap In(b) = {} /\ nx2[End(u)] = Start(b) /\ pv2[Start(b)] = Addr[End(u)]
    BY <1>1, <1>2, <1>7, <2>1, <2>3
  <2>7. QED
    BY <2>4, <2>5, <2>6, TieLine
<1>10. QED
  BY <1>8, <1>9

-----------------------------------------------------------------------------
(* The addresses differ, and none of them is that of NULL or the poison.   *)
LEMMA Addresses ==
  /\ \A x \in ListHead : Adr(x) = HR!First(x)
  /\ \A n \in Node : Adr(n) = HR!Next(n)
  /\ \A p \in Object : Adr(p) \in HR!Cell /\ Addr[p] = Adr(p)
  /\ \A p, q \in Object : Adr(p) = Adr(q) => p = q
  /\ \A p \in Object : Adr(p) # HR!NULLCell /\ Adr(p) # HR!LIST_POISON2
  /\ \A n \in Node : HR!NULLCell # HR!LIST_POISON2 /\ Adr(n) # HR!LIST_POISON2
<1>1. \A x \in ListHead : Adr(x) = HR!First(x)
  BY DEF Adr
<1>2. \A n \in Node : Adr(n) = HR!Next(n) /\ n \notin ListHead
  BY ListAssumption DEF Adr
<1>3. \A p \in Object : Adr(p) \in HR!Cell /\ Addr[p] = Adr(p)
  BY <1>1, <1>2 DEF HR!Cell, Object, Addr
<1>4. \A p, q \in Object : Adr(p) = Adr(q) => p = q
  BY <1>1, <1>2 DEF HR!First, HR!Next, Object
<1>5. \A p \in Object : Adr(p) # HR!NULLCell /\ Adr(p) # HR!LIST_POISON2
  BY <1>1, <1>2 DEF HR!First, HR!Next, HR!NULLCell, HR!LIST_POISON2, Object
<1>6. HR!NULLCell # HR!LIST_POISON2
  BY DEF HR!NULLCell, HR!LIST_POISON2
<1>7. QED
  BY <1>1, <1>2, <1>3, <1>4, <1>5, <1>6 DEF Object

Target == Node \cup {HR!NULL, HR!LIST_POISON1}

Back == HR!Cell \cup {HR!NULLCell, HR!LIST_POISON2}

HHeap == [cell : [HR!Cell -> Target], pprev : [Node -> Back]]

LEMMA HHeapFacts ==
  ASSUME NEW h \in HHeap
  PROVE  /\ Nx(h) \in [Object -> Target] /\ h.pprev \in [Node -> Back]
         /\ \A p \in Object : h.cell[Adr(p)] = Nx(h)[p]
<1>1. h.cell \in [HR!Cell -> Target] /\ h.pprev \in [Node -> Back]
  BY DEF HHeap
<1>2. \A p \in Object : Adr(p) \in HR!Cell
  BY Addresses
<1>3. QED
  BY <1>1, <1>2 DEF Nx

LEMMA CellSet ==
  ASSUME NEW h \in HHeap, NEW p \in Object, NEW v \in Target,
         NEW g, g = HR!SetCell(h, Adr(p), v)
  PROVE  /\ g \in HHeap /\ g.pprev = h.pprev
         /\ Nx(g) = [Nx(h) EXCEPT ![p] = v]
<1>1. h.cell \in [HR!Cell -> Target] /\ h.pprev \in [Node -> Back]
  BY DEF HHeap
<1>2. /\ \A r \in Object : Adr(r) \in HR!Cell
      /\ \A r \in Object : Adr(r) = Adr(p) => r = p
  BY Addresses
<1>3. g = [cell |-> [h.cell EXCEPT ![Adr(p)] = v], pprev |-> h.pprev]
  BY DEF HR!SetCell
<1>4. g \in HHeap /\ g.pprev = h.pprev /\ g.cell = [h.cell EXCEPT ![Adr(p)] = v]
  BY <1>1, <1>2, <1>3 DEF HHeap
<1>5. \A r \in Object : g.cell[Adr(r)] = IF r = p THEN v ELSE h.cell[Adr(r)]
  BY <1>1, <1>2, <1>4
<1>6. QED
  BY <1>4, <1>5 DEF Nx

LEMMA PprevSet ==
  ASSUME NEW h \in HHeap, NEW n \in Node, NEW c \in Back,
         NEW g, g = HR!SetPprev(h, n, c)
  PROVE  /\ g \in HHeap /\ g.pprev = [h.pprev EXCEPT ![n] = c]
         /\ Nx(g) = Nx(h)
<1>1. h.cell \in [HR!Cell -> Target] /\ h.pprev \in [Node -> Back]
  BY DEF HHeap
<1>2. g = [cell |-> h.cell, pprev |-> [h.pprev EXCEPT ![n] = c]]
  BY DEF HR!SetPprev
<1>3. g \in HHeap /\ g.pprev = [h.pprev EXCEPT ![n] = c] /\ g.cell = h.cell
  BY <1>1, <1>2 DEF HHeap
<1>4. QED
  BY <1>3 DEF Nx

-----------------------------------------------------------------------------
(* The assignments of the calls (list.h:821-905).                          *)
LEMMA AdrBack == \A p \in Object : Adr(p) \in Back
  BY Addresses DEF Back

LEMMA AddHeadEffect ==
  ASSUME NEW h \in HHeap, NEW x \in ListHead, NEW n \in Node,
         NEW q \in Node \cup {HR!NULL}, q = Nx(h)[x], q # n,
         NEW g, g = HR!hlist_add_head(h, n, x)
  PROVE  g \in HHeap /\ Inserted(Nx(h), h.pprev, Nx(g), g.pprev, x, n, q)
<1>0. /\ x \in Object /\ n \in Object /\ x # n /\ n \in Target /\ q \in Target
      /\ Adr(x) \in Back /\ Adr(n) \in Back /\ HR!NULL \notin Node
      /\ HR!First(x) = Adr(x) /\ HR!Next(n) = Adr(n) /\ Addr[x] = Adr(x) /\ Addr[n] = Adr(n)
  BY NodeWords, Addresses, AdrBack, ListAssumption DEF Target
<1>1. Nx(h) \in [Object -> Target] /\ h.pprev \in [Node -> Back] /\ h.cell[Adr(x)] = q
  BY <1>0, HHeapFacts
<1>2. PICK h1 : h1 = HR!SetCell(h, Adr(n), q)
  OBVIOUS
<1>3. h1 \in HHeap /\ h1.pprev = h.pprev /\ Nx(h1) = [Nx(h) EXCEPT ![n] = q]
  <2>1. n \in Object /\ q \in Target
    BY <1>0
  <2>2. QED
    BY <1>2, <2>1, CellSet
<1>4. PICK h2 : h2 = IF q # HR!NULL THEN HR!SetPprev(h1, q, Adr(n)) ELSE h1
  OBVIOUS
<1>5. /\ h2 \in HHeap /\ Nx(h2) = Nx(h1)
      /\ h2.pprev = IF q # HR!NULL THEN [h1.pprev EXCEPT ![q] = Adr(n)] ELSE h1.pprev
  <2>1. h1 \in HHeap /\ Adr(n) \in Back
    BY <1>0, <1>3
  <2>2. CASE q = HR!NULL
    BY <1>4, <2>1, <2>2
  <2>3. CASE q # HR!NULL
    <3>1. q \in Node /\ h2 = HR!SetPprev(h1, q, Adr(n))
      BY <1>4, <2>3
    <3>2. h2 \in HHeap /\ h2.pprev = [h1.pprev EXCEPT ![q] = Adr(n)] /\ Nx(h2) = Nx(h1)
      BY <2>1, <3>1, PprevSet
    <3>3. QED
      BY <2>3, <3>2
  <2>4. QED
    BY <2>2, <2>3
<1>6. PICK h3 : h3 = HR!SetCell(h2, Adr(x), n)
  OBVIOUS
<1>7. h3 \in HHeap /\ h3.pprev = h2.pprev /\ Nx(h3) = [Nx(h2) EXCEPT ![x] = n]
  <2>1. h2 \in HHeap /\ x \in Object /\ n \in Target
    BY <1>0, <1>5
  <2>2. QED
    BY <1>6, <2>1, CellSet
<1>8. g = HR!SetPprev(h3, n, Adr(x))
  BY <1>0, <1>1, <1>2, <1>4, <1>6 DEF HR!hlist_add_head
<1>9. g \in HHeap /\ Nx(g) = Nx(h3) /\ g.pprev = [h3.pprev EXCEPT ![n] = Adr(x)]
  <2>1. h3 \in HHeap
    BY <1>7
  <2>2. QED
    BY <1>0, <1>8, <2>1, PprevSet
<1>10. /\ Nx(g)[x] = n /\ Nx(g)[n] = q
       /\ \A r \in Object : r # n /\ r # x => Nx(g)[r] = Nx(h)[r]
  BY <1>0, <1>1, <1>3, <1>5, <1>7, <1>9
<1>11. /\ g.pprev[n] = Adr(x) /\ (q # HR!NULL => g.pprev[q] = Adr(n))
       /\ \A r \in Node : r # n /\ r # q => g.pprev[r] = h.pprev[r]
  BY <1>0, <1>1, <1>3, <1>5, <1>7, <1>9
<1>12. QED
  BY <1>0, <1>9, <1>10, <1>11 DEF Inserted

LEMMA AddBehindEffect ==
  ASSUME NEW h \in HHeap, NEW m \in Node, NEW n \in Node, n # m,
         NEW q \in Node \cup {HR!NULL}, q = Nx(h)[m], q # n,
         NEW g, g = HR!hlist_add_behind(h, n, m)
  PROVE  g \in HHeap /\ Inserted(Nx(h), h.pprev, Nx(g), g.pprev, m, n, q)
<1>0. /\ m \in Object /\ n \in Object /\ n \in Target /\ q \in Target
      /\ Adr(m) \in Back /\ Adr(n) \in Back /\ HR!NULL \notin Node
      /\ HR!Next(m) = Adr(m) /\ HR!Next(n) = Adr(n) /\ Addr[m] = Adr(m) /\ Addr[n] = Adr(n)
  BY NodeWords, Addresses, AdrBack, ListAssumption DEF Target
<1>1. Nx(h) \in [Object -> Target] /\ h.pprev \in [Node -> Back] /\ h.cell[Adr(m)] = q
  BY <1>0, HHeapFacts
<1>2. PICK h1 : h1 = HR!SetCell(h, Adr(n), q)
  OBVIOUS
<1>3. h1 \in HHeap /\ h1.pprev = h.pprev /\ Nx(h1) = [Nx(h) EXCEPT ![n] = q]
  <2>1. n \in Object /\ q \in Target
    BY <1>0
  <2>2. QED
    BY <1>2, <2>1, CellSet
<1>4. PICK h2 : h2 = HR!SetCell(h1, Adr(m), n)
  OBVIOUS
<1>5. h2 \in HHeap /\ h2.pprev = h1.pprev /\ Nx(h2) = [Nx(h1) EXCEPT ![m] = n]
  <2>1. h1 \in HHeap /\ m \in Object /\ n \in Target
    BY <1>0, <1>3
  <2>2. QED
    BY <1>4, <2>1, CellSet
<1>6. PICK h3 : h3 = HR!SetPprev(h2, n, Adr(m))
  OBVIOUS
<1>7. h3 \in HHeap /\ Nx(h3) = Nx(h2) /\ h3.pprev = [h2.pprev EXCEPT ![n] = Adr(m)]
  <2>1. h2 \in HHeap
    BY <1>5
  <2>2. QED
    BY <1>0, <1>6, <2>1, PprevSet
<1>8. h3.cell[Adr(n)] = q
  <2>1. Nx(h3)[n] = q
    BY <1>0, <1>1, <1>3, <1>5, <1>7
  <2>2. QED
    BY <1>0, <1>7, <2>1, HHeapFacts
<1>9. g = IF q # HR!NULL THEN HR!SetPprev(h3, q, Adr(n)) ELSE h3
  BY <1>0, <1>1, <1>2, <1>4, <1>6, <1>8 DEF HR!hlist_add_behind
<1>10. /\ g \in HHeap /\ Nx(g) = Nx(h3)
       /\ g.pprev = IF q # HR!NULL THEN [h3.pprev EXCEPT ![q] = Adr(n)] ELSE h3.pprev
  <2>1. h3 \in HHeap
    BY <1>7
  <2>2. QED
    BY <1>0, <1>9, <2>1, PprevSet
<1>11. /\ Nx(g)[m] = n /\ Nx(g)[n] = q
       /\ \A r \in Object : r # n /\ r # m => Nx(g)[r] = Nx(h)[r]
  BY <1>0, <1>1, <1>3, <1>5, <1>7, <1>10
<1>12. /\ g.pprev[n] = Adr(m) /\ (q # HR!NULL => g.pprev[q] = Adr(n))
       /\ \A r \in Node : r # n /\ r # q => g.pprev[r] = h.pprev[r]
  BY <1>0, <1>1, <1>3, <1>5, <1>7, <1>10
<1>13. QED
  BY <1>0, <1>10, <1>11, <1>12 DEF Inserted

LEMMA AddBeforeEffect ==
  ASSUME NEW h \in HHeap, NEW m \in Node, NEW n \in Node, n # m,
         NEW p \in Object, p # n, h.pprev[m] = Adr(p),
         NEW g, g = HR!hlist_add_before(h, n, m)
  PROVE  g \in HHeap /\ Inserted(Nx(h), h.pprev, Nx(g), g.pprev, p, n, m)
<1>0. /\ m \in Object /\ n \in Object /\ n \in Target /\ m \in Target
      /\ Adr(p) \in Back /\ Adr(n) \in Back
      /\ HR!Next(n) = Adr(n) /\ Addr[p] = Adr(p) /\ Addr[n] = Adr(n)
  BY NodeWords, Addresses, AdrBack DEF Target
<1>1. Nx(h) \in [Object -> Target] /\ h.pprev \in [Node -> Back]
  BY HHeapFacts
<1>2. PICK h1 : h1 = HR!SetPprev(h, n, Adr(p))
  OBVIOUS
<1>3. h1 \in HHeap /\ h1.pprev = [h.pprev EXCEPT ![n] = Adr(p)] /\ Nx(h1) = Nx(h)
  BY <1>0, <1>2, PprevSet
<1>4. PICK h2 : h2 = HR!SetCell(h1, Adr(n), m)
  OBVIOUS
<1>5. h2 \in HHeap /\ h2.pprev = h1.pprev /\ Nx(h2) = [Nx(h1) EXCEPT ![n] = m]
  <2>1. h1 \in HHeap /\ n \in Object /\ m \in Target
    BY <1>0, <1>3
  <2>2. QED
    BY <1>4, <2>1, CellSet
<1>6. PICK h3 : h3 = HR!SetPprev(h2, m, Adr(n))
  OBVIOUS
<1>7. h3 \in HHeap /\ Nx(h3) = Nx(h2) /\ h3.pprev = [h2.pprev EXCEPT ![m] = Adr(n)]
  <2>1. h2 \in HHeap
    BY <1>5
  <2>2. QED
    BY <1>0, <1>6, <2>1, PprevSet
<1>8. h3.pprev[n] = Adr(p)
  BY <1>1, <1>3, <1>5, <1>7
<1>9. g = HR!SetCell(h3, Adr(p), n)
  BY <1>0, <1>2, <1>4, <1>6, <1>8 DEF HR!hlist_add_before
<1>10. g \in HHeap /\ g.pprev = h3.pprev /\ Nx(g) = [Nx(h3) EXCEPT ![p] = n]
  <2>1. h3 \in HHeap /\ n \in Target
    BY <1>0, <1>7
  <2>2. QED
    BY <1>9, <2>1, CellSet
<1>11. /\ Nx(g)[p] = n /\ Nx(g)[n] = m
       /\ \A r \in Object : r # n /\ r # p => Nx(g)[r] = Nx(h)[r]
  BY <1>0, <1>1, <1>3, <1>5, <1>7, <1>10
<1>12. /\ g.pprev[n] = Adr(p) /\ g.pprev[m] = Adr(n)
       /\ \A r \in Node : r # n /\ r # m => g.pprev[r] = h.pprev[r]
  BY <1>0, <1>1, <1>3, <1>5, <1>7, <1>10
<1>13. QED
  BY <1>0, <1>10, <1>11, <1>12 DEF Inserted

LEMMA HDelEffect ==
  ASSUME NEW h \in HHeap, NEW n \in Node, NEW p \in Object, h.pprev[n] = Adr(p),
         NEW q \in Node \cup {HR!NULL}, q = Nx(h)[n],
         NEW g, g = HR!HlistDel(h, n)
  PROVE  g \in HHeap /\ Removed(Nx(h), h.pprev, Nx(g), g.pprev, p, n, q)
<1>0. /\ n \in Object /\ q \in Target /\ Adr(p) \in Back /\ HR!NULL \notin Node
      /\ HR!Next(n) = Adr(n) /\ Addr[p] = Adr(p)
  BY NodeWords, Addresses, AdrBack, ListAssumption DEF Target
<1>1. Nx(h) \in [Object -> Target] /\ h.pprev \in [Node -> Back] /\ h.cell[Adr(n)] = q
  BY <1>0, HHeapFacts
<1>2. PICK h1 : h1 = HR!SetCell(h, Adr(p), q)
  OBVIOUS
<1>3. h1 \in HHeap /\ h1.pprev = h.pprev /\ Nx(h1) = [Nx(h) EXCEPT ![p] = q]
  <2>1. p \in Object /\ q \in Target
    BY <1>0
  <2>2. QED
    BY <1>2, <2>1, CellSet
<1>4. g = IF q # HR!NULL THEN HR!SetPprev(h1, q, Adr(p)) ELSE h1
  BY <1>0, <1>1, <1>2 DEF HR!HlistDel
<1>5. /\ g \in HHeap /\ Nx(g) = Nx(h1)
      /\ g.pprev = IF q # HR!NULL THEN [h1.pprev EXCEPT ![q] = Adr(p)] ELSE h1.pprev
  <2>1. h1 \in HHeap
    BY <1>3
  <2>2. QED
    BY <1>0, <1>4, <2>1, PprevSet
<1>6. Nx(g)[p] = q /\ \A r \in Object : r # p => Nx(g)[r] = Nx(h)[r]
  BY <1>0, <1>1, <1>3, <1>5
<1>7. /\ (q # HR!NULL => g.pprev[q] = Adr(p))
      /\ \A r \in Node : r # q => g.pprev[r] = h.pprev[r]
  BY <1>0, <1>1, <1>3, <1>5
<1>8. QED
  BY <1>0, <1>5, <1>6, <1>7 DEF Removed

-----------------------------------------------------------------------------
(* The invariant of the hlists.  An entry that is on no list and looks     *)
(* unhashed, or hashed by itself, holds no way on: deleting it again does  *)
(* no harm.                                                                *)
Calm(h, n) == h.pprev[n] \in {HR!NULLCell, Adr(n)} => Nx(h)[n] = HR!NULL

Route(h, w) == Line(Nx(h), h.pprev, w)

HState(h, l) ==
    /\ h \in HHeap
    /\ l \in [ListHead -> Seq(Node)]
    /\ \A x \in ListHead : Route(h, One(x) \o l[x])
    /\ Apart(l)
    /\ \A n \in Spare(l) : Calm(h, n)

(* The pointers of all objects but those of T are what they were.          *)
Kept(h, g, T) == /\ \A r \in Object : r \notin T => Nx(g)[r] = Nx(h)[r]
                 /\ \A r \in Node : r \notin T => g.pprev[r] = h.pprev[r]

LEMMA RouteKept ==
  ASSUME NEW h, NEW g, NEW T, Kept(h, g, T), NEW x \in ListHead, NEW s \in Seq(Node),
         Route(h, One(x) \o s), x \notin T, In(s) \cap T = {}
  PROVE  Route(g, One(x) \o s)
<1>1. PICK w : w = One(x) \o s
  OBVIOUS
<1>2. In(w) = {x} \cup In(s) /\ Start(w) = x
  BY <1>1, RingWord
<1>3. x \in Object /\ In(s) \subseteq Node /\ \A n \in Node : n \in Object
  BY NodeWords
<1>4. /\ \A r \in In(w) : Nx(g)[r] = Nx(h)[r]
      /\ \A r \in In(w) : r # Start(w) => g.pprev[r] = h.pprev[r]
  BY <1>2, <1>3 DEF Kept
<1>5. Line(Nx(h), h.pprev, w)
  BY <1>1 DEF Route
<1>6. Line(Nx(g), g.pprev, w)
  BY <1>4, <1>5, LineKept
<1>7. QED
  BY <1>1, <1>6 DEF Route

(* A call that touches the list of x and the entry n.                      *)
LEMMA HChangeOne ==
  ASSUME NEW h, NEW l, HState(h, l), NEW x \in ListHead, NEW s \in Seq(Node),
         NEW n \in Node, n \in In(l[x]) \cup Spare(l),
         In(s) \subseteq In(l[x]) \cup {n}, In(l[x]) \subseteq In(s) \cup {n},
         NEW g \in HHeap, Route(g, One(x) \o s), Kept(h, g, {x, n} \cup In(l[x])),
         n \in In(s) \/ Calm(g, n),
         NEW k, k = Put(l, x, s)
  PROVE  HState(g, k) /\ (n \notin In(s) => n \in Spare(k))
<1>1. /\ l \in [ListHead -> Seq(Node)]
      /\ \A z \in ListHead : Route(h, One(z) \o l[z])
      /\ \A y, z \in ListHead : y # z => In(l[y]) \cap In(l[z]) = {}
      /\ \A r \in Spare(l) : Calm(h, r)
  BY DEF HState, Apart
<1>2. /\ k \in [ListHead -> Seq(Node)] /\ k[x] = s
      /\ \A z \in ListHead : z # x => k[z] = l[z]
  BY <1>1, PutFacts
<1>3. ASSUME NEW z \in ListHead, z # x
      PROVE  n \notin In(l[z]) /\ In(l[z]) \cap In(l[x]) = {}
  BY <1>1, <1>3 DEF Spare
<1>4. ASSUME NEW z \in ListHead, z # x
      PROVE  Route(g, One(z) \o k[z])
  <2>1. l[z] \in Seq(Node) /\ Route(h, One(z) \o l[z]) /\ k[z] = l[z]
    BY <1>1, <1>2, <1>4
  <2>2. PICK T : T = {x, n} \cup In(l[x])
    OBVIOUS
  <2>3. z \notin T /\ In(l[z]) \cap T = {}
    <3>1. z \notin Node /\ x \notin Node /\ In(l[z]) \subseteq Node /\ In(l[x]) \subseteq Node
      BY <1>1, NodeWords
    <3>2. n \notin In(l[z]) /\ In(l[z]) \cap In(l[x]) = {}
      BY <1>3, <1>4
    <3>3. QED
      BY <1>4, <2>2, <3>1, <3>2
  <2>4. Kept(h, g, T)
    BY <2>2
  <2>5. Route(g, One(z) \o l[z])
    BY <2>1, <2>3, <2>4, RouteKept
  <2>6. QED
    BY <2>1, <2>5
<1>5. \A z \in ListHead : Route(g, One(z) \o k[z])
  BY <1>2, <1>4
<1>6. Apart(k)
  <2>1. ASSUME NEW y \in ListHead, y # x
        PROVE  In(k[y]) \cap In(s) = {}
    <3>1. k[y] = l[y] /\ In(l[y]) \cap In(l[x]) = {} /\ n \notin In(l[y])
      BY <1>2, <1>3, <2>1
    <3>2. QED
      BY <3>1
  <2>2. QED
    BY <1>1, <1>2, <2>1 DEF Apart
<1>7. ASSUME NEW r \in Spare(k) PROVE Calm(g, r)
  <2>1. r \in Node /\ r \notin In(s) /\ \A z \in ListHead : z # x => r \notin In(l[z])
    <3>1. r \in Node /\ \A z \in ListHead : r \notin In(k[z])
      BY DEF Spare
    <3>2. QED
      BY <1>2, <3>1
  <2>2. CASE r = n
    BY <2>1, <2>2
  <2>3. CASE r # n
    <3>1. r \notin In(l[x])
      BY <2>1, <2>3
    <3>2. r \in Spare(l)
      BY <2>1, <3>1 DEF Spare
    <3>3. r \in Object /\ r # x
      BY <2>1, NodeWords
    <3>4. Nx(g)[r] = Nx(h)[r] /\ g.pprev[r] = h.pprev[r]
      BY <2>1, <2>3, <3>1, <3>3 DEF Kept
    <3>5. Calm(h, r)
      BY <1>1, <3>2
    <3>6. QED
      BY <3>4, <3>5 DEF Calm
  <2>4. QED
    BY <2>2, <2>3
<1>8. HState(g, k)
  BY <1>2, <1>5, <1>6, <1>7 DEF HState
<1>9. ASSUME n \notin In(s) PROVE n \in Spare(k)
  <2>1. ASSUME NEW z \in ListHead PROVE n \notin In(k[z])
    BY <1>2, <1>3, <1>9
  <2>2. QED
    BY <2>1 DEF Spare
<1>10. QED
  BY <1>8, <1>9

(* The pointers of a spare entry may be anything harmless.                 *)
LEMMA HSpare ==
  ASSUME NEW h, NEW l, HState(h, l), NEW n \in Spare(l),
         NEW g \in HHeap, Kept(h, g, {n}), Calm(g, n)
  PROVE  HState(g, l)
<1>1. /\ l \in [ListHead -> Seq(Node)] /\ Apart(l)
      /\ \A z \in ListHead : Route(h, One(z) \o l[z])
      /\ \A r \in Spare(l) : Calm(h, r)
  BY DEF HState
<1>2. ASSUME NEW z \in ListHead PROVE Route(g, One(z) \o l[z])
  <2>1. l[z] \in Seq(Node) /\ Route(h, One(z) \o l[z])
    BY <1>1
  <2>2. PICK T : T = {n}
    OBVIOUS
  <2>3. z \notin T /\ In(l[z]) \cap T = {}
    BY <2>2, NodeWords DEF Spare
  <2>4. Kept(h, g, T)
    BY <2>2
  <2>5. QED
    BY <2>1, <2>3, <2>4, RouteKept
<1>3. ASSUME NEW r \in Spare(l) PROVE Calm(g, r)
  <2>1. CASE r # n
    <3>1. r \in Node /\ r \in Object
      BY NodeWords DEF Spare
    <3>2. Nx(g)[r] = Nx(h)[r] /\ g.pprev[r] = h.pprev[r]
      BY <2>1, <3>1 DEF Kept
    <3>3. QED
      BY <1>1, <3>2 DEF Calm
  <2>2. QED
    BY <2>1
<1>4. QED
  BY <1>1, <1>2, <1>3 DEF HState

(* What follows the objects u on a line.                                   *)
Gate(nx, pv, u, b) ==
    /\ Word(u) /\ End(u) \in In(u) /\ End(u) \in Object
    /\ b = <<>> => nx[End(u)] = HR!NULL
    /\ b # <<>> => /\ nx[End(u)] = Start(b) /\ Start(b) \in In(b)
                   /\ pv[Start(b)] = Adr(End(u))

LEMMA LineGap ==
  ASSUME NEW nx, NEW pv, NEW u \in Seq(Object), NEW b \in Seq(Object), u # <<>>,
         Line(nx, pv, u \o b)
  PROVE  Gate(nx, pv, u, b)
<1>0. PICK p : p = End(u)
  OBVIOUS
<1>1. CASE b = <<>>
  <2>1. u \o b = u
    BY <1>1, ConcatEmptySeq
  <2>2. Chain(nx, pv, Addr, u) /\ nx[End(u)] = HR!NULL
    BY <2>1 DEF Line
  <2>3. Word(u)
    BY <2>2 DEF Chain
  <2>4. QED
    BY <1>1, <2>2, <2>3, WordFacts DEF Gate
<1>2. CASE b # <<>>
  <2>1. /\ Chain(nx, pv, Addr, u) /\ Line(nx, pv, b) /\ In(u) \cap In(b) = {}
        /\ nx[End(u)] = Start(b) /\ pv[Start(b)] = Addr[End(u)]
    BY <1>2, CutLine
  <2>2. Word(u) /\ Word(b)
    BY <2>1 DEF Chain, Line
  <2>3. p \in In(u) /\ p \in Object /\ Start(b) \in In(b)
    BY <1>0, <2>2, WordFacts
  <2>4. Addr[p] = Adr(p)
    BY <2>3, Addresses
  <2>5. QED
    BY <1>0, <1>2, <2>1, <2>2, <2>3, <2>4 DEF Gate
<1>3. QED
  BY <1>1, <1>2

(* The way of x to the entries a, and from there to the entries b.         *)
Way(h, x, u, b, p, q) ==
    /\ Line(Nx(h), h.pprev, u \o b)
    /\ p \in In(u) /\ p \in Object
    /\ (b = <<>> => q = HR!NULL)
    /\ (b # <<>> => q = Start(b) /\ q \in In(b) /\ h.pprev[q] = Adr(p))
    /\ q \in Node \cup {HR!NULL} /\ q \in In(b) \cup {HR!NULL}

LEMMA HGap ==
  ASSUME NEW h, NEW l, HState(h, l), NEW x, NEW a, NEW b, Parts(l, x, a, b),
         NEW u, u = One(x) \o a, NEW p, p = End(u), NEW q, q = Nx(h)[p],
         NEW n \in Node
  PROVE  LineArgs(u, b, n) /\ Way(h, x, u, b, p, q)
<1>0. x \in ListHead /\ a \in Seq(Node) /\ b \in Seq(Node) /\ l[x] = a \o b
  BY DEF Parts
<1>1. /\ a \in Seq(Object) /\ b \in Seq(Object) /\ In(a) \subseteq Node /\ In(b) \subseteq Node
      /\ x \in Object
  BY <1>0, NodeWords
<1>2. u \in Seq(Object) /\ u # <<>> /\ In(u) = {x} \cup In(a) /\ Start(u) = x
  BY <1>0, RingWord
<1>4. Line(Nx(h), h.pprev, u \o b)
  <2>1. Line(Nx(h), h.pprev, One(x) \o (a \o b))
    BY <1>0 DEF HState, Route
  <2>2. One(x) \in Seq(Object)
    BY <1>1, OneObject
  <2>3. (One(x) \o a) \o b = One(x) \o (a \o b)
    BY <1>1, <2>2, Associative
  <2>4. QED
    BY <2>1, <2>3
<1>5. /\ Word(u) /\ p \in In(u) /\ p \in Object
      /\ b = <<>> => q = HR!NULL
      /\ b # <<>> => q = Start(b) /\ Start(b) \in In(b) /\ h.pprev[Start(b)] = Adr(p)
  <2>1. PICK nx, pv : nx = Nx(h) /\ pv = h.pprev
    OBVIOUS
  <2>2. u \in Seq(Object) /\ b \in Seq(Object) /\ u # <<>> /\ Line(nx, pv, u \o b)
    BY <1>1, <1>2, <1>4, <2>1
  <2>3. Gate(nx, pv, u, b)
    BY <2>2, LineGap
  <2>4. QED
    BY <2>1, <2>3 DEF Gate
<1>6. LineArgs(u, b, n)
  BY <1>1, <1>2, <1>5 DEF LineArgs
<1>7. QED
  BY <1>1, <1>4, <1>5, <1>6 DEF Way

(* An entry that is put behind the entries a of x.                         *)
LEMMA HInsertState ==
  ASSUME NEW h, NEW l, HState(h, l), NEW x, NEW a, NEW b, Parts(l, x, a, b),
         NEW n \in Spare(l),
         NEW p, p = End(One(x) \o a), NEW q, q = Nx(h)[p],
         NEW g \in HHeap, Inserted(Nx(h), h.pprev, Nx(g), g.pprev, p, n, q)
  PROVE  HState(g, Put(l, x, (a \o One(n)) \o b))
<1>0. x \in ListHead /\ a \in Seq(Node) /\ b \in Seq(Node) /\ l[x] = a \o b
  BY DEF Parts
<1>1. PICK u : u = One(x) \o a
  OBVIOUS
<1>2. n \in Node /\ n \in Object /\ n \notin In(l[x]) /\ n # x
  BY <1>0, NodeWords DEF Spare
<1>3. p = End(u)
  BY <1>1
<1>4. /\ LineArgs(u, b, n) /\ Line(Nx(h), h.pprev, u \o b)
      /\ In(u) = {x} \cup In(a) /\ p \in In(u)
      /\ In(l[x]) = In(a) \cup In(b)
      /\ q \in In(b) \cup {HR!NULL}
  <2>1. LineArgs(u, b, n) /\ Way(h, x, u, b, p, q)
    BY <1>1, <1>2, <1>3, HGap
  <2>2. In(u) = {x} \cup In(a)
    BY <1>0, <1>1, RingWord
  <2>3. In(l[x]) = In(a) \cup In(b)
    BY <1>0, Around
  <2>4. QED
    BY <2>1, <2>2, <2>3 DEF Way
<1>5. n \notin In(u) /\ n \notin In(b)
  BY <1>2, <1>4
<1>6. Line(Nx(g), g.pprev, (u \o One(n)) \o b)
  <2>1. Inserted(Nx(h), h.pprev, Nx(g), g.pprev, End(u), n, Nx(h)[End(u)])
    BY <1>3
  <2>2. LineArgs(u, b, n) /\ Line(Nx(h), h.pprev, u \o b)
    BY <1>4
  <2>3. QED
    BY <1>5, <2>1, <2>2, LineInsert
<1>7. PICK s : s = (a \o One(n)) \o b
  OBVIOUS
<1>8. s \in Seq(Node) /\ In(s) = In(a) \cup {n} \cup In(b)
  BY <1>0, <1>2, <1>7, AroundOne
<1>9. One(x) \o s = (u \o One(n)) \o b
  <2>1. a \in Seq(Object) /\ b \in Seq(Object) /\ One(n) \in Seq(Object) /\ One(x) \in Seq(Object)
    BY <1>0, <1>2, NodeWords, OneObject
  <2>2. PICK c \in Seq(Object) : c = a \o One(n)
    BY <2>1, Joined
  <2>3. One(x) \o (c \o b) = (One(x) \o c) \o b
    <3>1. c \in Seq(Object) /\ b \in Seq(Object) /\ One(x) \in Seq(Object)
      BY <2>1, <2>2
    <3>2. QED
      BY <3>1, Associative
  <2>4. One(x) \o (a \o One(n)) = (One(x) \o a) \o One(n)
    BY <2>1, Associative
  <2>5. QED
    BY <1>1, <1>7, <2>2, <2>3, <2>4
<1>10. Route(g, One(x) \o s)
  BY <1>6, <1>9 DEF Route
<1>11. Kept(h, g, {x, n} \cup In(l[x]))
  <2>1. HR!NULL \notin Node
    BY ListAssumption
  <2>2. p \in {x, n} \cup In(l[x]) /\ (q \in Node => q \in {x, n} \cup In(l[x]))
    BY <1>4, <2>1
  <2>3. QED
    BY <2>2 DEF Inserted, Kept
<1>12. /\ n \in In(s) /\ In(s) \subseteq In(l[x]) \cup {n} /\ In(l[x]) \subseteq In(s) \cup {n}
       /\ n \in In(l[x]) \cup Spare(l)
  BY <1>4, <1>8
<1>13. HState(g, Put(l, x, s))
  <2>1. x \in ListHead /\ s \in Seq(Node) /\ n \in Node
    BY <1>0, <1>2, <1>8
  <2>2. QED
    BY <1>10, <1>11, <1>12, <2>1, HChangeOne
<1>14. QED
  BY <1>7, <1>13

-----------------------------------------------------------------------------
(* An entry on a line.                                                     *)
LEMMA OnceFirst ==
  ASSUME NEW nx, NEW pv, NEW b \in Seq(Object), NEW n \in Object, Line(nx, pv, One(n) \o b)
  PROVE  n \notin In(b)
<1>1. CASE b = <<>>
  BY <1>1 DEF In
<1>2. CASE b # <<>>
  <2>1. Line(nx, pv, b) /\ n \notin In(b) /\ nx[n] = Start(b)
    BY <1>2, CutFirst
  <2>2. QED
    BY <2>1
<1>3. QED
  BY <1>1, <1>2

LEMMA OnceOnLine ==
  ASSUME NEW nx, NEW pv, NEW u \in Seq(Object), NEW b \in Seq(Object), u # <<>>,
         NEW n \in Object, NEW v \in Seq(Object), v # <<>>, Line(nx, pv, u \o v),
         In(v) = {n} \cup In(b), v = One(n) \o b
  PROVE  n \notin In(u) /\ n \notin In(b)
<1>1. Line(nx, pv, v) /\ In(u) \cap In(v) = {}
  <2>1. Chain(nx, pv, Addr, u) /\ Line(nx, pv, v) /\ In(u) \cap In(v) = {}
    BY CutLine
  <2>2. QED
    BY <2>1
<1>2. n \notin In(b)
  <2>1. Line(nx, pv, One(n) \o b)
    BY <1>1
  <2>2. QED
    BY <2>1, OnceFirst
<1>3. QED
  BY <1>1, <1>2

(* An entry n of x, the entries a before it and b behind it.               *)
LEMMA LiesParts ==
  ASSUME NEW l, NEW x, NEW a, NEW n, NEW b, Lies(l, x, a, n, b)
  PROVE  /\ Parts(l, x, a, One(n) \o b) /\ Parts(l, x, a \o One(n), b)
         /\ One(n) \o b # <<>> /\ Start(One(n) \o b) = n
         /\ End(One(x) \o (a \o One(n))) = n
         /\ One(x) \o (a \o One(n)) = (One(x) \o a) \o One(n)
         /\ (One(x) \o a) \o (One(n) \o b) = ((One(x) \o a) \o One(n)) \o b
<1>0. /\ x \in ListHead /\ n \in Node /\ a \in Seq(Node) /\ b \in Seq(Node)
      /\ l[x] = (a \o One(n)) \o b
  BY DEF Lies
<1>1. /\ n \in Object /\ x \in Object /\ a \in Seq(Object) /\ b \in Seq(Object)
  BY <1>0, NodeWords
<1>2. /\ One(n) \in Seq(Object) /\ One(x) \in Seq(Object) /\ One(n) # <<>>
      /\ Start(One(n)) = n /\ End(One(n)) = n
  BY <1>1, OneObject
<1>3. One(n) \in Seq(Node)
  BY <1>0 DEF One
<1>4. One(n) \o b \in Seq(Node) /\ a \o One(n) \in Seq(Node)
  BY <1>0, <1>3, Joined
<1>5. (a \o One(n)) \o b = a \o (One(n) \o b)
  BY <1>1, <1>2, Associative
<1>6. One(n) \o b # <<>> /\ Start(One(n) \o b) = n
  BY <1>1, <1>2, ConcatEqualIffEmpty, JoinedEnds
<1>7. One(x) \o (a \o One(n)) = (One(x) \o a) \o One(n)
  BY <1>1, <1>2, Associative
<1>8. PICK u \in Seq(Object) : u = One(x) \o a
  BY <1>1, <1>2, Joined
<1>9. End(u \o One(n)) = n
  BY <1>1, <1>2, JoinedEnds
<1>10. u \o (One(n) \o b) = (u \o One(n)) \o b
  BY <1>1, <1>2, Associative
<1>11. QED
  BY <1>0, <1>4, <1>5, <1>6, <1>7, <1>8, <1>9, <1>10 DEF Parts

Found(h, l, x, a, n, b, p, q) ==
    /\ LineArgs(One(x) \o a, b, n)
    /\ Line(Nx(h), h.pprev, ((One(x) \o a) \o One(n)) \o b)
    /\ p = End(One(x) \o a) /\ p \in In(One(x) \o a) /\ p \in Object /\ p # n
    /\ n \notin In(a) /\ n \notin In(b)
    /\ h.pprev[n] = Adr(p)
    /\ q = Nx(h)[n] /\ q \in Node \cup {HR!NULL} /\ q \in In(b) \cup {HR!NULL}
    /\ b = <<>> => q = HR!NULL
    /\ b # <<>> => q # HR!NULL

LEMMA HFound ==
  ASSUME NEW h, NEW l, HState(h, l), NEW x, NEW a, NEW n, NEW b, Lies(l, x, a, n, b)
  PROVE  \E p, q : Found(h, l, x, a, n, b, p, q)
<1>0. /\ x \in ListHead /\ n \in Node /\ a \in Seq(Node) /\ b \in Seq(Node)
  BY DEF Lies
<1>1. PICK u, v, w : u = One(x) \o a /\ v = One(n) \o b /\ w = One(x) \o (a \o One(n))
  OBVIOUS
<1>2. /\ Parts(l, x, a, v) /\ Parts(l, x, a \o One(n), b)
      /\ v # <<>> /\ Start(v) = n /\ End(w) = n /\ w = u \o One(n)
      /\ u \o v = (u \o One(n)) \o b
  BY <1>1, LiesParts
<1>3. PICK p, q, r : p = End(u) /\ r = Nx(h)[p] /\ q = Nx(h)[n]
  OBVIOUS
<1>4. LineArgs(u, v, n) /\ Way(h, x, u, v, p, r)
  BY <1>0, <1>1, <1>2, <1>3, HGap
<1>5. Way(h, x, w, b, n, q)
  <2>1. PICK c : c = a \o One(n)
    OBVIOUS
  <2>2. Parts(l, x, c, b) /\ w = One(x) \o c /\ n = End(w)
    BY <1>1, <1>2, <2>1
  <2>3. LineArgs(w, b, n) /\ Way(h, x, w, b, n, q)
    BY <1>0, <1>3, <2>2, HGap
  <2>4. QED
    BY <2>3
<1>6. /\ Line(Nx(h), h.pprev, u \o v) /\ p \in In(u) /\ p \in Object /\ r = n
      /\ h.pprev[n] = Adr(p)
  BY <1>2, <1>4 DEF Way
<1>7. q \in Node \cup {HR!NULL} /\ q \in In(b) \cup {HR!NULL} /\ (b = <<>> => q = HR!NULL)
  BY <1>5 DEF Way
<1>8. b # <<>> => q # HR!NULL
  <2>1. In(b) \subseteq Node /\ HR!NULL \notin Node
    BY <1>0, NodeWords, ListAssumption
  <2>2. QED
    BY <1>5, <2>1 DEF Way
<1>9. /\ u \in Seq(Object) /\ u # <<>> /\ Word(u) /\ n \in Object /\ b \in Seq(Object)
      /\ In(b) \subseteq Node /\ \A z \in In(u) : z # Start(u) => z \in Node
  BY <1>0, <1>4, NodeWords DEF LineArgs
<1>10. n \notin In(u) /\ n \notin In(b)
  <2>1. PICK nx, pv : nx = Nx(h) /\ pv = h.pprev
    OBVIOUS
  <2>2. u \in Seq(Object) /\ u # <<>> /\ n \in Object /\ b \in Seq(Object)
    BY <1>9
  <2>3. One(n) \in Seq(Object) /\ In(One(n)) = {n}
    BY <2>2, OneObject
  <2>4. v \in Seq(Object) /\ In(v) = {n} \cup In(b)
    <3>1. v \in Seq(Object)
      BY <1>1, <2>2, <2>3, Joined
    <3>2. In(v) = In(One(n)) \cup In(b)
      BY <1>1, <2>2, <2>3, JoinedIn
    <3>3. QED
      BY <2>3, <3>1, <3>2
  <2>5. Line(nx, pv, u \o v) /\ v # <<>> /\ v = One(n) \o b
    BY <1>1, <1>2, <1>6, <2>1
  <2>6. QED
    BY <2>2, <2>4, <2>5, OnceOnLine
<1>11. In(u) = {x} \cup In(a)
  BY <1>0, <1>1, RingWord
<1>12. LineArgs(u, b, n)
  BY <1>0, <1>9 DEF LineArgs
<1>13. Found(h, l, x, a, n, b, p, q)
  <2>1. Line(Nx(h), h.pprev, (u \o One(n)) \o b)
    BY <1>2, <1>6
  <2>2. p # n /\ n \notin In(a) /\ n \notin In(b)
    BY <1>6, <1>10, <1>11
  <2>3. QED
    BY <1>1, <1>3, <1>6, <1>7, <1>8, <1>12, <2>1, <2>2 DEF Found
<1>14. QED
  BY <1>13

(* __hlist_del() takes an entry off its list (list.h:821-829).             *)
LEMMA HRemoveState ==
  ASSUME NEW h, NEW l, HState(h, l), NEW x, NEW a, NEW n, NEW b, Lies(l, x, a, n, b),
         NEW g, g = HR!HlistDel(h, n), NEW k, k = Put(l, x, a \o b)
  PROVE  HState(g, k) /\ n \in Spare(k) /\ h.pprev[n] # HR!NULLCell
<1>0. /\ x \in ListHead /\ n \in Node /\ a \in Seq(Node) /\ b \in Seq(Node)
      /\ l[x] = (a \o One(n)) \o b /\ h \in HHeap
  BY DEF Lies, HState
<1>1. PICK p, q : Found(h, l, x, a, n, b, p, q)
  BY HFound
<1>2. PICK u : u = One(x) \o a
  OBVIOUS
<1>3. /\ LineArgs(u, b, n) /\ Line(Nx(h), h.pprev, (u \o One(n)) \o b)
      /\ p = End(u) /\ p \in In(u) /\ p \in Object /\ p # n
      /\ n \notin In(a) /\ n \notin In(b) /\ h.pprev[n] = Adr(p)
      /\ q = Nx(h)[n] /\ q \in Node \cup {HR!NULL} /\ q \in In(b) \cup {HR!NULL}
  BY <1>1, <1>2 DEF Found
<1>4. g \in HHeap /\ Removed(Nx(h), h.pprev, Nx(g), g.pprev, p, n, q)
  <2>1. /\ h \in HHeap /\ n \in Node /\ p \in Object /\ h.pprev[n] = Adr(p)
        /\ q \in Node \cup {HR!NULL} /\ q = Nx(h)[n]
    BY <1>0, <1>3
  <2>2. QED
    BY <2>1, HDelEffect
<1>5. Line(Nx(g), g.pprev, u \o b)
  <2>1. Removed(Nx(h), h.pprev, Nx(g), g.pprev, End(u), n, Nx(h)[n])
    BY <1>3, <1>4
  <2>2. LineArgs(u, b, n) /\ Line(Nx(h), h.pprev, (u \o One(n)) \o b)
    BY <1>3
  <2>3. QED
    BY <2>1, <2>2, LineRemove
<1>6. PICK s : s = a \o b
  OBVIOUS
<1>7. s \in Seq(Node) /\ In(s) = In(a) \cup In(b) /\ In(l[x]) = In(a) \cup {n} \cup In(b)
  BY <1>0, <1>6, Around, AroundOne
<1>8. Route(g, One(x) \o s)
  <2>1. a \in Seq(Object) /\ b \in Seq(Object) /\ One(x) \in Seq(Object)
    BY <1>0, NodeWords, OneObject
  <2>2. u \o b = One(x) \o s
    BY <1>2, <1>6, <2>1, Associative
  <2>3. QED
    BY <1>5, <2>2 DEF Route
<1>9. Kept(h, g, {x, n} \cup In(l[x]))
  <2>1. HR!NULL \notin Node /\ In(u) = {x} \cup In(a)
    BY <1>0, <1>2, ListAssumption, RingWord
  <2>2. p \in {x, n} \cup In(l[x]) /\ (q \in Node => q \in {x, n} \cup In(l[x]))
    BY <1>3, <1>7, <2>1
  <2>3. QED
    BY <1>4, <2>2 DEF Removed, Kept
<1>10. h.pprev[n] # HR!NULLCell /\ h.pprev[n] # Adr(n)
  <2>1. n \in Object
    BY <1>0, NodeWords
  <2>2. Adr(p) # HR!NULLCell /\ Adr(p) # Adr(n)
    BY <1>3, <2>1, Addresses
  <2>3. QED
    BY <1>3, <2>2
<1>11. Calm(g, n)
  <2>1. n # q
    <3>1. HR!NULL \notin Node
      BY ListAssumption
    <3>2. QED
      BY <1>0, <1>3, <3>1
  <2>2. g.pprev[n] = h.pprev[n]
    BY <1>0, <1>4, <2>1 DEF Removed
  <2>3. QED
    BY <1>10, <2>2 DEF Calm
<1>12. /\ n \in In(l[x]) \cup Spare(l) /\ In(s) \subseteq In(l[x]) \cup {n}
       /\ In(l[x]) \subseteq In(s) \cup {n} /\ n \notin In(s)
  BY <1>3, <1>7
<1>13. HState(g, k) /\ (n \notin In(s) => n \in Spare(k))
  <2>1. x \in ListHead /\ s \in Seq(Node) /\ n \in Node /\ g \in HHeap /\ k = Put(l, x, s)
    BY <1>0, <1>4, <1>6, <1>7
  <2>2. QED
    BY <1>8, <1>9, <1>11, <1>12, <2>1, HChangeOne
<1>14. QED
  BY <1>10, <1>12, <1>13

-----------------------------------------------------------------------------
(* The calls that add an entry (list.h:867-905).                           *)
LEMMA HAddHeadState ==
  ASSUME NEW h, NEW l, HState(h, l), NEW x \in ListHead, NEW n \in Spare(l),
         NEW g, g = HR!hlist_add_head(h, n, x)
  PROVE  HState(g, Put(l, x, One(n) \o l[x]))
<1>0. l[x] \in Seq(Node) /\ h \in HHeap /\ n \in Node /\ n \notin In(l[x])
  BY DEF HState, Spare
<1>1. x \in Object /\ n \in Object
  BY <1>0, NodeWords
<1>2. /\ One(x) \in Seq(Object) /\ One(x) # <<>> /\ End(One(x)) = x
      /\ One(n) \in Seq(Object)
  BY <1>1, OneObject
<1>3. PICK a, b : a = <<>> /\ b = l[x]
  OBVIOUS
<1>4. /\ a \in Seq(Node) /\ a \o b = b /\ a \o One(n) = One(n) /\ One(x) \o a = One(x)
      /\ b \in Seq(Node) /\ b \in Seq(Object)
  BY <1>0, <1>2, <1>3, NodeWords, ConcatEmptySeq
<1>5. Parts(l, x, a, b)
  BY <1>3, <1>4 DEF Parts
<1>6. PICK u, p, q : u = One(x) \o a /\ p = End(u) /\ q = Nx(h)[p]
  OBVIOUS
<1>7. p = x
  BY <1>2, <1>4, <1>6
<1>8. LineArgs(u, b, n) /\ Way(h, x, u, b, p, q)
  <2>1. n \in Node
    BY <1>0
  <2>2. QED
    BY <1>5, <1>6, <2>1, HGap
<1>9. q \in Node \cup {HR!NULL} /\ q # n
  <2>1. HR!NULL \notin Node
    BY ListAssumption
  <2>2. QED
    BY <1>0, <1>3, <1>8, <2>1 DEF Way
<1>10. g \in HHeap /\ Inserted(Nx(h), h.pprev, Nx(g), g.pprev, p, n, q)
  <2>1. h \in HHeap /\ n \in Node /\ q \in Node \cup {HR!NULL} /\ q = Nx(h)[x] /\ q # n
    BY <1>0, <1>6, <1>7, <1>9
  <2>2. g \in HHeap /\ Inserted(Nx(h), h.pprev, Nx(g), g.pprev, x, n, q)
    BY <2>1, AddHeadEffect
  <2>3. QED
    BY <1>7, <2>2
<1>11. HState(g, Put(l, x, (a \o One(n)) \o b))
  <2>1. p = End(One(x) \o a) /\ q = Nx(h)[p]
    BY <1>6
  <2>2. QED
    BY <1>5, <1>10, <2>1, HInsertState
<1>12. QED
  BY <1>3, <1>4, <1>11

LEMMA HAddBeforeState ==
  ASSUME NEW h, NEW l, HState(h, l), NEW x, NEW a, NEW m, NEW b, Lies(l, x, a, m, b),
         NEW n \in Spare(l), NEW g, g = HR!hlist_add_before(h, n, m)
  PROVE  HState(g, Put(l, x, (a \o One(n)) \o (One(m) \o b)))
<1>0. /\ x \in ListHead /\ m \in Node /\ a \in Seq(Node) /\ b \in Seq(Node)
      /\ l[x] = (a \o One(m)) \o b /\ h \in HHeap /\ n \in Node /\ n \notin In(l[x])
  BY DEF Lies, HState, Spare
<1>1. In(l[x]) = In(a) \cup {m} \cup In(b)
  BY <1>0, AroundOne
<1>2. PICK u, v, p, q : u = One(x) \o a /\ v = One(m) \o b /\ p = End(u) /\ q = Nx(h)[p]
  OBVIOUS
<1>3. Parts(l, x, a, v) /\ v # <<>> /\ Start(v) = m
  BY <1>2, LiesParts
<1>4. LineArgs(u, v, n) /\ Way(h, x, u, v, p, q)
  <2>1. n \in Node
    BY <1>0
  <2>2. QED
    BY <1>2, <1>3, <2>1, HGap
<1>5. q = m /\ h.pprev[m] = Adr(p) /\ p \in Object /\ p \in In(u)
  BY <1>3, <1>4 DEF Way
<1>6. n # m /\ p # n
  <2>1. In(u) = {x} \cup In(a) /\ x # n
    BY <1>0, <1>2, RingWord, NodeWords
  <2>2. QED
    BY <1>0, <1>1, <1>5, <2>1
<1>7. g \in HHeap /\ Inserted(Nx(h), h.pprev, Nx(g), g.pprev, p, n, q)
  <2>1. h \in HHeap /\ m \in Node /\ n \in Node /\ n # m /\ p \in Object /\ p # n /\ h.pprev[m] = Adr(p)
    BY <1>0, <1>5, <1>6
  <2>2. g \in HHeap /\ Inserted(Nx(h), h.pprev, Nx(g), g.pprev, p, n, m)
    BY <2>1, AddBeforeEffect
  <2>3. QED
    BY <1>5, <2>2
<1>8. HState(g, Put(l, x, (a \o One(n)) \o v))
  <2>1. p = End(One(x) \o a) /\ q = Nx(h)[p]
    BY <1>2
  <2>2. QED
    BY <1>3, <1>7, <2>1, HInsertState
<1>9. QED
  BY <1>2, <1>8

LEMMA HAddBehindState ==
  ASSUME NEW h, NEW l, HState(h, l), NEW x, NEW a, NEW m, NEW b, Lies(l, x, a, m, b),
         NEW n \in Spare(l), NEW g, g = HR!hlist_add_behind(h, n, m)
  PROVE  HState(g, Put(l, x, ((a \o One(m)) \o One(n)) \o b))
<1>0. /\ x \in ListHead /\ m \in Node /\ a \in Seq(Node) /\ b \in Seq(Node)
      /\ l[x] = (a \o One(m)) \o b /\ h \in HHeap /\ n \in Node /\ n \notin In(l[x])
  BY DEF Lies, HState, Spare
<1>1. In(l[x]) = In(a) \cup {m} \cup In(b)
  BY <1>0, AroundOne
<1>2. PICK c : c = a \o One(m)
  OBVIOUS
<1>3. PICK u, q : u = One(x) \o c /\ q = Nx(h)[m]
  OBVIOUS
<1>4. Parts(l, x, c, b) /\ m = End(u)
  BY <1>2, <1>3, LiesParts
<1>5. LineArgs(u, b, n) /\ Way(h, x, u, b, m, q)
  <2>1. n \in Node
    BY <1>0
  <2>2. QED
    BY <1>3, <1>4, <2>1, HGap
<1>6. q \in Node \cup {HR!NULL} /\ q # n /\ n # m
  <2>1. HR!NULL \notin Node
    BY ListAssumption
  <2>2. QED
    BY <1>0, <1>1, <1>5, <2>1 DEF Way
<1>7. g \in HHeap /\ Inserted(Nx(h), h.pprev, Nx(g), g.pprev, m, n, q)
  <2>1. /\ h \in HHeap /\ m \in Node /\ n \in Node /\ n # m
        /\ q \in Node \cup {HR!NULL} /\ q = Nx(h)[m] /\ q # n
    BY <1>0, <1>3, <1>6
  <2>2. QED
    BY <2>1, AddBehindEffect
<1>8. HState(g, Put(l, x, (c \o One(n)) \o b))
  <2>1. m = End(One(x) \o c) /\ q = Nx(h)[m]
    BY <1>3, <1>4
  <2>2. QED
    BY <1>4, <1>7, <2>1, HInsertState
<1>9. QED
  BY <1>2, <1>8

-----------------------------------------------------------------------------
(* The pointers of an entry that is on no list (list.h:780-784, 838-857,   *)
(* 915-918).                                                               *)
LEMMA HPointers ==
  ASSUME NEW h, NEW l, HState(h, l), NEW n \in Spare(l), NEW v \in Target, NEW c \in Back,
         (c \notin {HR!NULLCell, Adr(n)}) \/ v = HR!NULL,
         NEW g, g = HR!SetPprev(HR!SetCell(h, Adr(n), v), n, c)
  PROVE  HState(g, l)
<1>0. h \in HHeap /\ n \in Node /\ n \in Object
  BY NodeWords DEF HState, Spare
<1>1. PICK f : f = HR!SetCell(h, Adr(n), v)
  OBVIOUS
<1>2. f \in HHeap /\ f.pprev = h.pprev /\ Nx(f) = [Nx(h) EXCEPT ![n] = v]
  BY <1>0, <1>1, CellSet
<1>3. g \in HHeap /\ g.pprev = [f.pprev EXCEPT ![n] = c] /\ Nx(g) = Nx(f)
  <2>1. f \in HHeap /\ n \in Node /\ g = HR!SetPprev(f, n, c)
    BY <1>0, <1>1, <1>2
  <2>2. QED
    BY <2>1, PprevSet
<1>4. Nx(h) \in [Object -> Target] /\ h.pprev \in [Node -> Back]
  BY <1>0, HHeapFacts
<1>5. Kept(h, g, {n})
  BY <1>2, <1>3, <1>4 DEF Kept
<1>6. Nx(g)[n] = v /\ g.pprev[n] = c
  BY <1>0, <1>2, <1>3, <1>4
<1>7. Calm(g, n)
  BY <1>6 DEF Calm
<1>8. QED
  BY <1>3, <1>5, <1>7, HSpare

LEMMA HPoison ==
  ASSUME NEW h, NEW l, HState(h, l), NEW n \in Spare(l), NEW g,
         \/ g = HR!INIT_HLIST_NODE(h, n)
         \/ g = HR!SetPprev(HR!SetCell(h, HR!Next(n), HR!LIST_POISON1), n, HR!LIST_POISON2)
  PROVE  HState(g, l)
<1>0. n \in Node
  BY DEF Spare
<1>1. /\ HR!Next(n) = Adr(n) /\ HR!NULL \in Target /\ HR!LIST_POISON1 \in Target
      /\ HR!NULLCell \in Back /\ HR!LIST_POISON2 \in Back
      /\ HR!LIST_POISON2 # HR!NULLCell /\ HR!LIST_POISON2 # Adr(n)
  BY <1>0, Addresses DEF Target, Back
<1>2. CASE g = HR!INIT_HLIST_NODE(h, n)
  <2>1. g = HR!SetPprev(HR!SetCell(h, Adr(n), HR!NULL), n, HR!NULLCell)
    BY <1>1, <1>2 DEF HR!INIT_HLIST_NODE
  <2>2. QED
    BY <1>1, <2>1, HPointers
<1>3. CASE g = HR!SetPprev(HR!SetCell(h, HR!Next(n), HR!LIST_POISON1), n, HR!LIST_POISON2)
  <2>1. g = HR!SetPprev(HR!SetCell(h, Adr(n), HR!LIST_POISON1), n, HR!LIST_POISON2)
    BY <1>1, <1>3
  <2>2. HR!LIST_POISON2 \notin {HR!NULLCell, Adr(n)}
    BY <1>1
  <2>3. QED
    BY <1>1, <2>1, <2>2, HPointers
<1>4. QED
  BY <1>2, <1>3

LEMMA HDeleteState ==
  ASSUME NEW h, NEW l, HState(h, l), NEW x, NEW a, NEW n, NEW b, Lies(l, x, a, n, b),
         NEW g, g \in {HR!hlist_del(h, n), HR!hlist_del_init(h, n)}
  PROVE  HState(g, Put(l, x, a \o b))
<1>1. PICK f, k : f = HR!HlistDel(h, n) /\ k = Put(l, x, a \o b)
  OBVIOUS
<1>2. HState(f, k) /\ n \in Spare(k) /\ h.pprev[n] # HR!NULLCell
  BY <1>1, HRemoveState
<1>3. \/ g = HR!INIT_HLIST_NODE(f, n)
      \/ g = HR!SetPprev(HR!SetCell(f, HR!Next(n), HR!LIST_POISON1), n, HR!LIST_POISON2)
  BY <1>1, <1>2 DEF HR!hlist_del, HR!hlist_del_init, HR!hlist_unhashed
<1>4. HState(g, k)
  BY <1>2, <1>3, HPoison
<1>5. QED
  BY <1>1, <1>4

(* An entry on no list that deletes itself, and one that is made to look   *)
(* as if it could.                                                         *)
LEMMA HFakeState ==
  ASSUME NEW h, NEW l, HState(h, l), NEW n \in Spare(l), HR!hlist_unhashed(h, n),
         NEW g, g = HR!hlist_add_fake(h, n)
  PROVE  HState(g, l)
<1>0. h \in HHeap /\ n \in Node /\ n \in Object
  BY NodeWords DEF HState, Spare
<1>1. Nx(h)[n] = HR!NULL
  <2>1. Calm(h, n)
    BY DEF HState
  <2>2. QED
    BY <2>1 DEF Calm, HR!hlist_unhashed
<1>2. Adr(n) \in Back /\ HR!Next(n) = Adr(n)
  BY <1>0, AdrBack, Addresses
<1>3. g \in HHeap /\ g.pprev = [h.pprev EXCEPT ![n] = Adr(n)] /\ Nx(g) = Nx(h)
  <2>1. g = HR!SetPprev(h, n, Adr(n))
    BY <1>2 DEF HR!hlist_add_fake
  <2>2. QED
    BY <1>0, <1>2, <2>1, PprevSet
<1>4. h.pprev \in [Node -> Back]
  BY <1>0, HHeapFacts
<1>5. Kept(h, g, {n})
  BY <1>3, <1>4 DEF Kept
<1>6. Calm(g, n)
  BY <1>1, <1>3 DEF Calm
<1>7. QED
  BY <1>3, <1>5, <1>6, HSpare

LEMMA HUnlistedState ==
  ASSUME NEW h, NEW l, HState(h, l), NEW n \in Spare(l), HR!hlist_fake(h, n),
         NEW g, g \in {HR!hlist_del(h, n), HR!hlist_del_init(h, n)}
  PROVE  HState(g, l)
<1>0. h \in HHeap /\ n \in Node /\ n \in Object /\ HR!NULL \in Target
  BY NodeWords DEF HState, Spare, Target
<1>1. HR!Next(n) = Adr(n) /\ Adr(n) # HR!NULLCell /\ h.pprev[n] = Adr(n)
  BY <1>0, Addresses DEF HR!hlist_fake
<1>2. Nx(h)[n] = HR!NULL
  <2>1. Calm(h, n)
    BY DEF HState
  <2>2. QED
    BY <1>1, <2>1 DEF Calm
<1>3. PICK f : f = HR!SetCell(h, Adr(n), HR!NULL)
  OBVIOUS
<1>4. HR!HlistDel(h, n) = f
  <2>1. h.cell[Adr(n)] = HR!NULL
    BY <1>0, <1>2, HHeapFacts
  <2>2. QED
    BY <1>1, <1>3, <2>1 DEF HR!HlistDel
<1>5. HState(f, l)
  <2>1. f \in HHeap /\ f.pprev = h.pprev /\ Nx(f) = [Nx(h) EXCEPT ![n] = HR!NULL]
    BY <1>0, <1>3, CellSet
  <2>2. Nx(h) \in [Object -> Target]
    BY <1>0, HHeapFacts
  <2>3. Kept(h, f, {n})
    BY <2>1, <2>2 DEF Kept
  <2>4. Calm(f, n)
    BY <1>0, <2>1, <2>2 DEF Calm
  <2>5. QED
    BY <2>1, <2>3, <2>4, HSpare
<1>6. \/ g = HR!INIT_HLIST_NODE(f, n)
      \/ g = HR!SetPprev(HR!SetCell(f, HR!Next(n), HR!LIST_POISON1), n, HR!LIST_POISON2)
  BY <1>1, <1>4 DEF HR!hlist_del, HR!hlist_del_init, HR!hlist_unhashed
<1>7. QED
  BY <1>5, <1>6, HPoison

-----------------------------------------------------------------------------
(* The first entry of a list.                                              *)
LEMMA HFirst ==
  ASSUME NEW h, NEW l, HState(h, l), NEW x \in ListHead, NEW q, q = Nx(h)[x]
  PROVE  q \in Node \cup {HR!NULL} /\ (q = HR!NULL <=> l[x] = <<>>)
<1>1. PICK nx, pv, s : nx = Nx(h) /\ pv = h.pprev /\ s = l[x]
  OBVIOUS
<1>2. s \in Seq(Node) /\ Line(nx, pv, One(x) \o s)
  BY <1>1 DEF HState, Route
<1>3. s \in Seq(Object) /\ In(s) \subseteq Node /\ HR!NULL \notin Node
  BY <1>2, NodeWords, ListAssumption
<1>4. One(x) \in Seq(Object) /\ One(x) # <<>> /\ End(One(x)) = x
  BY NodeWords, OneObject
<1>5. Gate(nx, pv, One(x), s)
  BY <1>2, <1>3, <1>4, LineGap
<1>6. QED
  BY <1>1, <1>3, <1>4, <1>5 DEF Gate

(* hlist_move_list() (list.h:951-958): x takes over the entries of y.      *)
Shifted(nx, pv, nx2, pv2, x, y, q) ==
    /\ nx2[x] = q /\ nx2[y] = HR!NULL
    /\ q # HR!NULL => pv2[q] = Addr[x]
    /\ \A r \in Object : r # x /\ r # y => nx2[r] = nx[r]
    /\ \A r \in Node : r # q => pv2[r] = pv[r]

LEMMA HMoveEffect ==
  ASSUME NEW h \in HHeap, NEW x \in ListHead, NEW y \in ListHead, x # y,
         NEW q \in Node \cup {HR!NULL}, q = Nx(h)[y],
         NEW g, g = HR!hlist_move_list(h, y, x)
  PROVE  g \in HHeap /\ Shifted(Nx(h), h.pprev, Nx(g), g.pprev, x, y, q)
<1>0. /\ x \in Object /\ y \in Object /\ q \in Target /\ HR!NULL \in Target
      /\ Adr(x) \in Back /\ HR!NULL \notin Node
      /\ HR!First(x) = Adr(x) /\ HR!First(y) = Adr(y) /\ Addr[x] = Adr(x)
  BY NodeWords, Addresses, AdrBack, ListAssumption DEF Target
<1>1. Nx(h) \in [Object -> Target] /\ h.pprev \in [Node -> Back] /\ h.cell[Adr(y)] = q
  BY <1>0, HHeapFacts
<1>2. PICK h1 : h1 = HR!SetCell(h, Adr(x), q)
  OBVIOUS
<1>3. h1 \in HHeap /\ h1.pprev = h.pprev /\ Nx(h1) = [Nx(h) EXCEPT ![x] = q]
  <2>1. x \in Object /\ q \in Target
    BY <1>0
  <2>2. QED
    BY <1>2, <2>1, CellSet
<1>4. PICK h2 : h2 = IF q # HR!NULL THEN HR!SetPprev(h1, q, Adr(x)) ELSE h1
  OBVIOUS
<1>5. /\ h2 \in HHeap /\ Nx(h2) = Nx(h1)
      /\ h2.pprev = IF q # HR!NULL THEN [h1.pprev EXCEPT ![q] = Adr(x)] ELSE h1.pprev
  <2>1. h1 \in HHeap
    BY <1>3
  <2>2. QED
    BY <1>0, <1>4, <2>1, PprevSet
<1>6. g = HR!SetCell(h2, Adr(y), HR!NULL)
  BY <1>0, <1>1, <1>2, <1>4 DEF HR!hlist_move_list
<1>7. g \in HHeap /\ g.pprev = h2.pprev /\ Nx(g) = [Nx(h2) EXCEPT ![y] = HR!NULL]
  <2>1. h2 \in HHeap /\ y \in Object /\ HR!NULL \in Target
    BY <1>0, <1>5
  <2>2. QED
    BY <1>6, <2>1, CellSet
<1>8. /\ Nx(g)[x] = q /\ Nx(g)[y] = HR!NULL
      /\ \A r \in Object : r # x /\ r # y => Nx(g)[r] = Nx(h)[r]
  BY <1>0, <1>1, <1>3, <1>5, <1>7
<1>9. /\ (q # HR!NULL => g.pprev[q] = Adr(x))
      /\ \A r \in Node : r # q => g.pprev[r] = h.pprev[r]
  BY <1>0, <1>1, <1>3, <1>5, <1>7
<1>10. QED
  BY <1>0, <1>7, <1>8, <1>9 DEF Shifted

LEMMA LineShift ==
  ASSUME NEW nx, NEW pv, NEW nx2, NEW pv2, NEW x \in ListHead, NEW y \in ListHead,
         NEW s \in Seq(Node), Line(nx, pv, One(y) \o s), x # y,
         NEW q, q = nx[y], Shifted(nx, pv, nx2, pv2, x, y, q)
  PROVE  /\ Line(nx2, pv2, One(x) \o s) /\ Line(nx2, pv2, One(y))
         /\ q \in In(s) \cup {HR!NULL}
<1>0. /\ x \in Object /\ y \in Object /\ s \in Seq(Object) /\ In(s) \subseteq Node
      /\ x \notin Node /\ y \notin Node /\ In(s) \subseteq Object
  BY NodeWords
<1>1. /\ Chain(nx2, pv2, Addr, One(x)) /\ Chain(nx2, pv2, Addr, One(y))
      /\ End(One(x)) = x /\ End(One(y)) = y /\ In(One(x)) = {x}
      /\ One(x) \in Seq(Object) /\ One(y) \in Seq(Object)
  BY <1>0, OneChain, OneObject
<1>2. /\ nx2[x] = q /\ nx2[y] = HR!NULL
      /\ q # HR!NULL => pv2[q] = Addr[x]
      /\ \A r \in Object : r # x /\ r # y => nx2[r] = nx[r]
      /\ \A r \in Node : r # q => pv2[r] = pv[r]
  BY DEF Shifted
<1>3. Line(nx2, pv2, One(y))
  BY <1>1, <1>2 DEF Line
<1>4. CASE s = <<>>
  <2>1. One(x) \o s = One(x) /\ One(y) \o s = One(y)
    BY <1>1, <1>4, ConcatEmptySeq
  <2>2. q = HR!NULL
    BY <1>1, <2>1 DEF Line
  <2>3. Line(nx2, pv2, One(x))
    BY <1>1, <1>2, <2>2 DEF Line
  <2>4. QED
    BY <1>3, <2>1, <2>2, <2>3
<1>5. CASE s # <<>>
  <2>1. Line(nx, pv, s) /\ y \notin In(s) /\ nx[y] = Start(s)
    <3>1. y \in Object /\ s \in Seq(Object)
      BY <1>0
    <3>2. QED
      BY <1>5, <3>1, CutFirst
  <2>2. Word(s)
    BY <2>1 DEF Line, Chain
  <2>3. q = Start(s) /\ q \in In(s) /\ q # HR!NULL
    <3>1. HR!NULL \notin Node
      BY ListAssumption
    <3>2. QED
      BY <1>0, <2>1, <2>2, <3>1, WordFacts
  <2>4. Line(nx2, pv2, s)
    <3>1. /\ \A r \in In(s) : nx2[r] = nx[r]
          /\ \A r \in In(s) : r # Start(s) => pv2[r] = pv[r]
      BY <1>0, <1>2, <2>3
    <3>2. QED
      BY <2>1, <3>1, LineKept
  <2>5. /\ In(One(x)) \cap In(s) = {} /\ nx2[End(One(x))] = Start(s)
        /\ pv2[Start(s)] = Addr[End(One(x))]
    BY <1>0, <1>1, <1>2, <2>3
  <2>6. Line(nx2, pv2, One(x) \o s)
    BY <1>1, <2>4, <2>5, TieLine
  <2>7. QED
    BY <1>3, <2>3, <2>6
<1>6. QED
  BY <1>4, <1>5

LEMMA HMoveState ==
  ASSUME NEW h, NEW l, HState(h, l), NEW x \in ListHead, NEW y \in ListHead, x # y,
         l[x] = <<>>, NEW g, g = HR!hlist_move_list(h, y, x),
         NEW k, k = Put(Put(l, x, l[y]), y, <<>>)
  PROVE  HState(g, k)
<1>1. /\ h \in HHeap /\ l \in [ListHead -> Seq(Node)]
      /\ \A z \in ListHead : Route(h, One(z) \o l[z])
      /\ \A z, w \in ListHead : z # w => In(l[z]) \cap In(l[w]) = {}
      /\ \A r \in Spare(l) : Calm(h, r)
  BY DEF HState, Apart
<1>2. PICK s, q : s = l[y] /\ q = Nx(h)[y]
  OBVIOUS
<1>3. s \in Seq(Node) /\ Line(Nx(h), h.pprev, One(y) \o s) /\ In(s) \subseteq Node
  BY <1>1, <1>2, NodeWords DEF Route
<1>4. q \in Node \cup {HR!NULL}
  BY <1>2, HFirst
<1>5. g \in HHeap /\ Shifted(Nx(h), h.pprev, Nx(g), g.pprev, x, y, q)
  <2>1. h \in HHeap /\ q \in Node \cup {HR!NULL} /\ q = Nx(h)[y]
    BY <1>1, <1>2, <1>4
  <2>2. QED
    BY <2>1, HMoveEffect
<1>6. /\ Line(Nx(g), g.pprev, One(x) \o s) /\ Line(Nx(g), g.pprev, One(y))
      /\ q \in In(s) \cup {HR!NULL}
  <2>1. PICK nx, pv, nx2, pv2 : nx = Nx(h) /\ pv = h.pprev /\ nx2 = Nx(g) /\ pv2 = g.pprev
    OBVIOUS
  <2>2. Line(nx, pv, One(y) \o s) /\ Shifted(nx, pv, nx2, pv2, x, y, q) /\ q = nx[y] /\ s \in Seq(Node)
    BY <1>2, <1>3, <1>5, <2>1
  <2>3. /\ Line(nx2, pv2, One(x) \o s) /\ Line(nx2, pv2, One(y))
        /\ q \in In(s) \cup {HR!NULL}
    BY <2>2, LineShift
  <2>4. QED
    BY <2>1, <2>3
<1>7. PICK T : T = {x, y} \cup In(s)
  OBVIOUS
<1>8. Kept(h, g, T)
  <2>1. x \in T /\ y \in T /\ (q \in Node => q \in T)
    <3>1. HR!NULL \notin Node
      BY ListAssumption
    <3>2. QED
      BY <1>6, <1>7, <3>1
  <2>2. QED
    BY <1>5, <2>1 DEF Shifted, Kept
<1>9. <<>> \in Seq(Node) /\ In(<<>>) = {}
  BY DEF In
<1>10. /\ k \in [ListHead -> Seq(Node)] /\ k[x] = s /\ k[y] = <<>>
       /\ \A z \in ListHead : z # x /\ z # y => k[z] = l[z]
  <2>1. PICK f : f = Put(l, x, s)
    OBVIOUS
  <2>2. /\ f \in [ListHead -> Seq(Node)] /\ f[x] = s
        /\ \A z \in ListHead : z # x => f[z] = l[z]
    BY <1>1, <1>3, <2>1, PutFacts
  <2>3. k = Put(f, y, <<>>)
    BY <1>2, <2>1
  <2>4. k \in [ListHead -> Seq(Node)] /\ k[y] = <<>> /\ \A z \in ListHead : z # y => k[z] = f[z]
    <3>1. PICK e \in Seq(Node) : e = <<>>
      BY <1>9
    <3>2. k = Put(f, y, e) /\ f \in [ListHead -> Seq(Node)]
      BY <2>2, <2>3, <3>1
    <3>3. k \in [ListHead -> Seq(Node)] /\ k[y] = e /\ \A z \in ListHead : z # y => k[z] = f[z]
      BY <3>2, PutFacts
    <3>4. QED
      BY <3>1, <3>3
  <2>5. QED
    BY <2>2, <2>4
<1>11. ASSUME NEW z \in ListHead PROVE Route(g, One(z) \o k[z])
  <2>1. CASE z = x
    BY <1>6, <1>10, <2>1 DEF Route
  <2>2. CASE z = y
    <3>1. One(y) \o <<>> = One(y)
      BY NodeWords, OneObject, ConcatEmptySeq
    <3>2. QED
      BY <1>6, <1>10, <2>2, <3>1 DEF Route
  <2>3. CASE z # x /\ z # y
    <3>1. k[z] = l[z] /\ l[z] \in Seq(Node) /\ Route(h, One(z) \o l[z])
      BY <1>1, <1>10, <2>3
    <3>2. z \notin T /\ In(l[z]) \cap T = {}
      <4>1. z \notin Node /\ x \notin Node /\ y \notin Node /\ In(l[z]) \subseteq Node
        BY <3>1, NodeWords
      <4>2. In(l[z]) \cap In(s) = {}
        BY <1>1, <1>2, <2>3
      <4>3. QED
        BY <1>3, <1>7, <2>3, <4>1, <4>2
    <3>3. Route(g, One(z) \o l[z])
      BY <1>8, <3>1, <3>2, RouteKept
    <3>4. QED
      BY <3>1, <3>3
  <2>4. QED
    BY <2>1, <2>2, <2>3
<1>12. Apart(k)
  <2>1. ASSUME NEW z \in ListHead, NEW w \in ListHead, z # w PROVE In(k[z]) \cap In(k[w]) = {}
    <3>1. CASE z = y \/ w = y
      BY <1>9, <1>10, <3>1
    <3>2. CASE z # y /\ w # y /\ z = x
      <4>1. k[z] = s /\ k[w] = l[w] /\ In(s) \cap In(l[w]) = {}
        BY <1>1, <1>2, <1>10, <2>1, <3>2
      <4>2. QED
        BY <4>1
    <3>3. CASE z # y /\ w # y /\ w = x
      <4>1. k[w] = s /\ k[z] = l[z] /\ In(s) \cap In(l[z]) = {}
        BY <1>1, <1>2, <1>10, <2>1, <3>3
      <4>2. QED
        BY <4>1
    <3>4. CASE z # y /\ w # y /\ z # x /\ w # x
      BY <1>1, <1>10, <2>1, <3>4
    <3>5. QED
      BY <3>1, <3>2, <3>3, <3>4
  <2>2. QED
    BY <2>1 DEF Apart
<1>13. ASSUME NEW r \in Spare(k) PROVE Calm(g, r)
  <2>1. r \in Node /\ \A z \in ListHead : r \notin In(k[z])
    BY DEF Spare
  <2>2. r \in Spare(l)
    <3>1. ASSUME NEW z \in ListHead PROVE r \notin In(l[z])
      <4>1. CASE z = x
        BY <1>9, <4>1
      <4>2. CASE z = y
        BY <1>2, <1>10, <2>1, <4>2
      <4>3. CASE z # x /\ z # y
        BY <1>10, <2>1, <4>3
      <4>4. QED
        BY <4>1, <4>2, <4>3
    <3>2. QED
      BY <2>1, <3>1 DEF Spare
  <2>3. r \notin T /\ r \in Object
    <3>1. r \notin In(s) /\ r # x /\ r # y /\ r \in Object
      BY <1>10, <2>1, NodeWords
    <3>2. QED
      BY <1>7, <3>1
  <2>4. Nx(g)[r] = Nx(h)[r] /\ g.pprev[r] = h.pprev[r]
    BY <1>8, <2>1, <2>3 DEF Kept
  <2>5. QED
    BY <1>1, <2>2, <2>4 DEF Calm
<1>14. QED
  BY <1>5, <1>10, <1>11, <1>12, <1>13 DEF HState

-----------------------------------------------------------------------------
(* The calls, one by one.                                                  *)
HNow == HState(hlists, lists)

LEMMA HContract ==
  /\ HR!L!Free = S!Free /\ HR!L!Linked = S!Linked
  /\ \A x : HR!L!On(x) = S!On(x)
  /\ \A n : HR!L!HeadOf(n) = S!HeadOf(n) /\ HR!L!Pos(n) = S!Pos(n) /\ HR!L!Without(n) = S!Without(n)
<1>1. \A x : HR!L!On(x) = S!On(x)
  BY DEF HR!L!On, S!On
<1>2. HR!L!Linked = S!Linked /\ HR!L!Free = S!Free
  BY <1>1 DEF HR!L!Linked, S!Linked, HR!L!Free, S!Free
<1>3. ASSUME NEW n PROVE HR!L!HeadOf(n) = S!HeadOf(n)
  BY <1>1 DEF HR!L!HeadOf, S!HeadOf
<1>4. ASSUME NEW n PROVE HR!L!Pos(n) = S!Pos(n)
  BY <1>3 DEF HR!L!Pos, S!Pos
<1>5. ASSUME NEW n PROVE HR!L!Without(n) = S!Without(n)
  BY <1>3, <1>4 DEF HR!L!Without, S!Without, HR!L!RemoveAt, S!RemoveAt
<1>6. QED
  BY <1>1, <1>2, <1>3, <1>4, <1>5

LEMMA HInContract ==
  ASSUME HNow
  PROVE  /\ lists \in [ListHead -> Seq(Node)] /\ Contract(lists)
         /\ \A x \in ListHead : HR!L!On(x) = In(lists[x])
         /\ HR!L!Free = Spare(lists)
<1>1. lists \in [ListHead -> Seq(Node)] /\ Contract(lists)
  BY DEF HNow, HState, Contract
<1>2. QED
  BY <1>1, OnIsIn, HContract

(* Where the contract finds m.                                             *)
LEMMA HWhere ==
  ASSUME HNow, NEW m, m \in HR!L!Linked,
         NEW x, x = HR!L!HeadOf(m), NEW i, i = HR!L!Pos(m), NEW s, s = lists[x]
  PROVE  /\ Lies(lists, x, Before(s, i), m, Behind(s, i))
         /\ s \in Seq(Node) /\ i \in 1..Len(s) /\ s[i] = m
<1>1. Contract(lists) /\ m \in S!Linked /\ x = S!HeadOf(m) /\ i = S!Pos(m)
  BY HInContract, HContract
<1>2. /\ Lies(lists, x, Before(s, i), m, Behind(s, i)) /\ x \in ListHead
      /\ i \in 1..Len(s) /\ s[i] = m
  BY <1>1, Where
<1>3. QED
  BY <1>1, <1>2 DEF Contract

LEMMA HAddHeadStep ==
  ASSUME HNow, NEW n \in Node, NEW x \in ListHead, HR!AddHead(n, x)
  PROVE  HNow'
<1>1. HState(hlists, lists) /\ HR!L!Free = Spare(lists)
  BY HInContract DEF HNow
<1>2. /\ n \in Spare(lists) /\ lists' = Put(lists, x, One(n) \o lists[x])
      /\ hlists' = HR!hlist_add_head(hlists, n, x)
  BY <1>1 DEF HR!AddHead, HR!L!Add, Put, One
<1>3. QED
  BY <1>1, <1>2, HAddHeadState DEF HNow

LEMMA HAddBesideStep ==
  ASSUME HNow, NEW n \in Node, NEW m \in Node, HR!AddBeside(n, m)
  PROVE  HNow'
<1>1. HState(hlists, lists) /\ n \in Spare(lists) /\ m \in HR!L!Linked
  BY HInContract DEF HNow, HR!AddBeside, HR!L!AddAt
<1>2. PICK x, i : x = HR!L!HeadOf(m) /\ i = HR!L!Pos(m)
  OBVIOUS
<1>3. PICK s, a, b : s = lists[x] /\ a = Before(s, i) /\ b = Behind(s, i)
  OBVIOUS
<1>4. Lies(lists, x, a, m, b) /\ s \in Seq(Node) /\ i \in 1..Len(s) /\ s[i] = m
  BY <1>1, <1>2, <1>3, HWhere
<1>5. /\ SubSeq(s, 1, i) = a \o One(m) /\ SubSeq(s, i, Len(s)) = One(m) \o b
  BY <1>3, <1>4, SplitAt
<1>6. CASE HR!L!AddAt(n, m, 0) /\ hlists' = HR!hlist_add_before(hlists, n, m)
  <2>1. lists' = Put(lists, x, HR!L!InsertAt(s, i + 0, n))
    BY <1>2, <1>3, <1>6 DEF HR!L!AddAt, Put
  <2>2. i + 0 = i
    BY <1>4
  <2>3. HR!L!InsertAt(s, i, n) = (a \o One(n)) \o (One(m) \o b)
    BY <1>3, <1>5 DEF HR!L!InsertAt, Before, One
  <2>4. HState(hlists', Put(lists, x, (a \o One(n)) \o (One(m) \o b)))
    BY <1>1, <1>4, <1>6, HAddBeforeState
  <2>5. QED
    BY <2>1, <2>2, <2>3, <2>4 DEF HNow
<1>7. CASE HR!L!AddAt(n, m, 1) /\ hlists' = HR!hlist_add_behind(hlists, n, m)
  <2>1. lists' = Put(lists, x, HR!L!InsertAt(s, i + 1, n))
    BY <1>2, <1>3, <1>7 DEF HR!L!AddAt, Put
  <2>2. (i + 1) - 1 = i
    BY <1>4
  <2>3. HR!L!InsertAt(s, i + 1, n) = ((a \o One(m)) \o One(n)) \o b
    BY <1>3, <1>5, <2>2 DEF HR!L!InsertAt, Behind, One
  <2>4. HState(hlists', Put(lists, x, ((a \o One(m)) \o One(n)) \o b))
    BY <1>1, <1>4, <1>7, HAddBehindState
  <2>5. QED
    BY <2>1, <2>3, <2>4 DEF HNow
<1>8. QED
  BY <1>6, <1>7 DEF HR!AddBeside

LEMMA HDeleteStep ==
  ASSUME HNow, NEW n \in Node, HR!Delete(n)
  PROVE  HNow'
<1>1. /\ HState(hlists, lists) /\ n \in HR!L!Linked /\ lists' = HR!L!Without(n)
      /\ hlists' \in {HR!hlist_del(hlists, n), HR!hlist_del_init(hlists, n)}
  BY DEF HNow, HR!Delete, HR!L!Delete
<1>2. PICK x, i : x = HR!L!HeadOf(n) /\ i = HR!L!Pos(n)
  OBVIOUS
<1>3. PICK s, a, b : s = lists[x] /\ a = Before(s, i) /\ b = Behind(s, i)
  OBVIOUS
<1>4. Lies(lists, x, a, n, b)
  BY <1>1, <1>2, <1>3, HWhere
<1>5. lists' = Put(lists, x, a \o b)
  BY <1>1, <1>2, <1>3, WithoutIs, HContract
<1>6. HState(hlists', Put(lists, x, a \o b))
  BY <1>1, <1>4, HDeleteState
<1>7. QED
  BY <1>5, <1>6 DEF HNow

LEMMA HFakeStep ==
  ASSUME HNow, NEW n \in Node, HR!Fake(n) \/ HR!DeleteUnlisted(n)
  PROVE  HNow'
<1>1. HState(hlists, lists) /\ n \in Spare(lists) /\ lists' = lists
  BY HInContract DEF HNow, HR!Fake, HR!DeleteUnlisted
<1>2. CASE HR!Fake(n)
  <2>1. HR!hlist_unhashed(hlists, n) /\ hlists' = HR!hlist_add_fake(hlists, n)
    BY <1>2 DEF HR!Fake
  <2>2. HState(hlists', lists)
    BY <1>1, <2>1, HFakeState
  <2>3. QED
    BY <1>1, <2>2 DEF HNow
<1>3. CASE HR!DeleteUnlisted(n)
  <2>1. CASE HR!hlist_unhashed(hlists, n) /\ hlists' = HR!hlist_del_init(hlists, n)
    BY <1>1, <2>1 DEF HR!hlist_del_init, HNow
  <2>2. CASE /\ HR!hlist_fake(hlists, n)
             /\ hlists' \in {HR!hlist_del(hlists, n), HR!hlist_del_init(hlists, n)}
    <3>1. HState(hlists', lists)
      BY <1>1, <2>2, HUnlistedState
    <3>2. QED
      BY <1>1, <3>1 DEF HNow
  <2>3. QED
    BY <1>3, <2>1, <2>2 DEF HR!DeleteUnlisted
<1>4. QED
  BY <1>2, <1>3

LEMMA HMoveStep ==
  ASSUME HNow, NEW x \in ListHead, NEW y \in ListHead, HR!MoveList(y, x)
  PROVE  HNow'
<1>1. /\ HState(hlists, lists) /\ lists[x] = <<>> /\ y # x
      /\ hlists' = HR!hlist_move_list(hlists, y, x)
      /\ lists' = [[lists EXCEPT ![x] = lists[y] \o @] EXCEPT ![y] = <<>>]
  BY DEF HNow, HR!MoveList, HR!L!Splice
<1>2. lists \in [ListHead -> Seq(Node)]
  BY HInContract
<1>3. lists[y] \o <<>> = lists[y]
  BY <1>2, ConcatEmptySeq
<1>4. lists' = Put(Put(lists, x, lists[y]), y, <<>>)
  BY <1>1, <1>2, <1>3 DEF Put
<1>5. HState(hlists', Put(Put(lists, x, lists[y]), y, <<>>))
  <2>1. x # y
    BY <1>1
  <2>2. QED
    BY <1>1, <2>1, HMoveState
<1>6. QED
  BY <1>4, <1>5 DEF HNow

LEMMA HStep ==
  ASSUME HNow, HR!Step
  PROVE  HNow'
<1>1. CASE \E n \in Node, x \in ListHead : HR!AddHead(n, x)
  BY <1>1, HAddHeadStep
<1>2. CASE \E n, m \in Node : HR!AddBeside(n, m)
  BY <1>2, HAddBesideStep
<1>3. CASE \E n \in Node : HR!Delete(n) \/ HR!Fake(n) \/ HR!DeleteUnlisted(n)
  BY <1>3, HDeleteStep, HFakeStep
<1>4. CASE \E x, y \in ListHead : HR!MoveList(y, x)
  BY <1>4, HMoveStep
<1>5. QED
  BY <1>1, <1>2, <1>3, <1>4 DEF HR!Step

(* The pointers before the first call.                                     *)
LEMMA HInit ==
  ASSUME HR!Init
  PROVE  HNow
<1>1. /\ hlists = [cell |-> [c \in HR!Cell |-> HR!NULL], pprev |-> [n \in Node |-> HR!NULLCell]]
      /\ lists = [x \in ListHead |-> <<>>]
  BY DEF HR!Init, HR!L!Init
<1>2. hlists \in HHeap
  BY <1>1 DEF HHeap, Target, Back
<1>3. \A p \in Object : Nx(hlists)[p] = HR!NULL
  BY <1>1, Addresses DEF Nx
<1>4. lists \in [ListHead -> Seq(Node)] /\ Apart(lists)
  BY <1>1 DEF Apart, In
<1>5. ASSUME NEW x \in ListHead PROVE Route(hlists, One(x) \o lists[x])
  <2>1. x \in Object
    BY NodeWords
  <2>2. One(x) \o <<>> = One(x) /\ End(One(x)) = x
    BY <2>1, OneObject, ConcatEmptySeq
  <2>3. Chain(Nx(hlists), hlists.pprev, Addr, One(x))
    BY <2>1, OneChain
  <2>4. Route(hlists, One(x))
    BY <1>3, <2>1, <2>2, <2>3 DEF Route, Line
  <2>5. QED
    BY <1>1, <2>2, <2>4
<1>6. \A n \in Spare(lists) : Calm(hlists, n)
  BY <1>3, NodeWords DEF Calm, Spare
<1>7. QED
  BY <1>2, <1>4, <1>5, <1>6 DEF HNow, HState

-----------------------------------------------------------------------------
(* What the lines mean.                                                    *)
LEMMA HKeepsContract ==
  ASSUME HNow
  PROVE  HR!KeepsContract
<1>0. HState(hlists, lists) /\ lists \in [ListHead -> Seq(Node)] /\ hlists \in HHeap
  BY HInContract DEF HNow, HState
<1>1. ASSUME NEW x \in ListHead PROVE HR!Represents(hlists, x, lists[x])
  <2>1. PICK s \in Seq(Node) : s = lists[x]
    BY <1>0
  <2>2. PICK w : w = One(x) \o s
    OBVIOUS
  <2>3. x \in Object /\ s \in Seq(Object)
    BY <2>1, NodeWords
  <2>4. One(x) \in Seq(Object) /\ Len(One(x)) = 1 /\ Start(One(x)) = x
    BY <2>3, OneObject
  <2>5. /\ w \in Seq(Object) /\ Len(s) \in Nat /\ Len(w) = 1 + Len(s)
        /\ w[1] = x
        /\ \A i \in 1..Len(s) : w[1 + i] = s[i]
    <3>1. 1 \in 1..Len(One(x)) /\ One(x)[1] = x
      BY <2>4 DEF Start
    <3>2. PICK o \in Seq(Object) : o = One(x)
      BY <2>4
    <3>3. /\ o \o s \in Seq(Object) /\ Len(s) \in Nat /\ Len(o \o s) = Len(o) + Len(s)
          /\ \A i \in 1..Len(o) : (o \o s)[i] = o[i]
          /\ \A i \in 1..Len(s) : (o \o s)[Len(o) + i] = s[i]
      BY <2>3, <3>2, Joined
    <3>4. QED
      BY <2>2, <2>4, <3>1, <3>2, <3>3
  <2>6. Line(Nx(hlists), hlists.pprev, w)
    BY <1>0, <2>1, <2>2 DEF HState, Route
  <2>7. /\ \A i \in 1..(Len(w) - 1) : Linked(Nx(hlists), hlists.pprev, Addr, w[i], w[i + 1])
        /\ Nx(hlists)[w[Len(w)]] = HR!NULL
    BY <2>6 DEF Line, Chain, End
  <2>8. \A i \in 1..Len(w) : w[i] \in Object
    BY <2>5, LenProperties
  <2>9. ASSUME NEW i \in 1..Len(w) PROVE HR!CellOf(x, s, i) = Adr(w[i])
    <3>1. CASE i = 1
      BY <2>5, <3>1, Addresses DEF HR!CellOf
    <3>2. CASE i # 1
      <4>1. i - 1 \in 1..Len(s) /\ 1 + (i - 1) = i
        BY <2>5, <3>2
      <4>2. w[i] = s[i - 1] /\ s[i - 1] \in Node
        BY <2>5, <4>1
      <4>3. QED
        BY <3>2, <4>2, Addresses DEF HR!CellOf
    <3>3. QED
      BY <3>1, <3>2
  <2>10. \A p \in Object : hlists.cell[Adr(p)] = Nx(hlists)[p] /\ Addr[p] = Adr(p)
    BY <1>0, HHeapFacts, Addresses
  <2>11. ASSUME NEW i \in 1..Len(s)
         PROVE  /\ hlists.cell[HR!CellOf(x, s, i)] = s[i]
                /\ hlists.pprev[s[i]] = HR!CellOf(x, s, i)
    <3>1. i \in 1..(Len(w) - 1) /\ i \in 1..Len(w) /\ w[i + 1] = s[i]
      BY <2>5
    <3>2. Nx(hlists)[w[i]] = w[i + 1] /\ hlists.pprev[w[i + 1]] = Addr[w[i]]
      BY <2>7, <3>1 DEF Linked
    <3>3. QED
      BY <2>8, <2>9, <2>10, <3>1, <3>2
  <2>12. hlists.cell[HR!CellOf(x, s, Len(s) + 1)] = HR!NULL
    <3>1. Len(s) + 1 \in 1..Len(w) /\ Len(s) + 1 = Len(w)
      BY <2>5
    <3>2. QED
      BY <2>7, <2>8, <2>9, <2>10, <3>1
  <2>13. QED
    BY <2>1, <2>11, <2>12 DEF HR!Represents
<1>2. QED
  BY <1>1 DEF HR!KeepsContract

(* An entry is alone on its list when nothing is before it or behind it.   *)
LEMMA Alone ==
  ASSUME NEW a \in Seq(Object), NEW b \in Seq(Object), NEW n \in Object
  PROVE  (a \o One(n)) \o b = One(n) <=> a = <<>> /\ b = <<>>
<1>1. One(n) \in Seq(Object) /\ Len(One(n)) = 1
  BY OneObject
<1>2. CASE a = <<>> /\ b = <<>>
  BY <1>1, <1>2, ConcatEmptySeq
<1>3. ASSUME (a \o One(n)) \o b = One(n) PROVE a = <<>> /\ b = <<>>
  <2>1. PICK c \in Seq(Object) : c = a \o One(n)
    BY <1>1, Joined
  <2>2. Len(c) = Len(a) + 1 /\ Len(a) \in Nat
    <3>1. PICK o \in Seq(Object) : o = One(n)
      BY <1>1
    <3>2. Len(a \o o) = Len(a) + Len(o) /\ Len(a) \in Nat
      BY Joined
    <3>3. QED
      BY <1>1, <2>1, <3>1, <3>2
  <2>3. Len(c \o b) = Len(c) + Len(b) /\ Len(b) \in Nat
    BY <2>1, Joined
  <2>4. Len(c \o b) = 1
    BY <1>1, <1>3, <2>1
  <2>5. Len(a) = 0 /\ Len(b) = 0
    BY <2>2, <2>3, <2>4
  <2>6. QED
    BY <2>5, EmptySeq
<1>4. QED
  BY <1>2, <1>3

LEMMA HAnswersRight ==
  ASSUME HNow
  PROVE  HR!AnswersRight
<1>0. /\ HState(hlists, lists) /\ lists \in [ListHead -> Seq(Node)] /\ hlists \in HHeap
      /\ Contract(lists) /\ \A x \in ListHead : HR!L!On(x) = In(lists[x])
  BY HInContract DEF HNow, HState
<1>1. ASSUME NEW n \in HR!L!Linked
      PROVE  /\ ~HR!hlist_unhashed(hlists, n) /\ ~HR!hlist_fake(hlists, n)
             /\ HR!hlist_is_singular_node(hlists, n, HR!L!HeadOf(n))
                  <=> lists[HR!L!HeadOf(n)] = <<n>>
  <2>1. PICK x, i : x = HR!L!HeadOf(n) /\ i = HR!L!Pos(n)
    OBVIOUS
  <2>2. PICK s, a, b : s = lists[x] /\ a = Before(s, i) /\ b = Behind(s, i)
    OBVIOUS
  <2>3. Lies(lists, x, a, n, b)
    BY <1>1, <2>1, <2>2, HWhere
  <2>4. /\ x \in ListHead /\ n \in Node /\ a \in Seq(Node) /\ b \in Seq(Node)
        /\ lists[x] = (a \o One(n)) \o b
    BY <2>3 DEF Lies
  <2>5. PICK p, q : Found(hlists, lists, x, a, n, b, p, q)
    BY <1>0, <2>3, HFound
  <2>6. /\ p = End(One(x) \o a) /\ p \in Object /\ p # n /\ hlists.pprev[n] = Adr(p)
        /\ q = Nx(hlists)[n] /\ (q = HR!NULL <=> b = <<>>)
    BY <2>5 DEF Found
  <2>7. /\ x \in Object /\ n \in Object /\ a \in Seq(Object) /\ b \in Seq(Object)
        /\ x \notin Node /\ In(a) \subseteq Node
    BY <2>4, NodeWords
  <2>8. /\ HR!Next(n) = Adr(n) /\ HR!First(x) = Adr(x)
        /\ Adr(p) # HR!NULLCell /\ Adr(p) # Adr(n) /\ (Adr(p) = Adr(x) => p = x)
    BY <2>4, <2>6, <2>7, Addresses
  <2>9. p = x <=> a = <<>>
    <3>1. One(x) \in Seq(Object) /\ End(One(x)) = x
      BY <2>7, OneObject
    <3>2. CASE a = <<>>
      BY <2>6, <3>1, <3>2, ConcatEmptySeq
    <3>3. CASE a # <<>>
      <4>1. p = End(a)
        BY <2>6, <2>7, <3>1, <3>3, JoinedEnds
      <4>2. End(a) \in Node
        BY <2>4, <3>3 DEF End
      <4>3. QED
        BY <2>7, <3>3, <4>1, <4>2
    <3>4. QED
      BY <3>2, <3>3
  <2>10. hlists.cell[Adr(n)] = q
    BY <1>0, <2>6, <2>7, HHeapFacts
  <2>11. lists[x] = One(n) <=> a = <<>> /\ b = <<>>
    BY <2>4, <2>7, Alone
  <2>12. HR!hlist_is_singular_node(hlists, n, x) <=> lists[x] = One(n)
    BY <2>6, <2>8, <2>9, <2>10, <2>11 DEF HR!hlist_is_singular_node
  <2>13. QED
    BY <2>1, <2>6, <2>8, <2>12 DEF One, HR!hlist_unhashed, HR!hlist_fake
<1>2. ASSUME NEW x \in ListHead PROVE HR!hlist_empty(hlists, x) <=> lists[x] = <<>>
  <2>1. PICK q : q = Nx(hlists)[x]
    OBVIOUS
  <2>2. q = HR!NULL <=> lists[x] = <<>>
    BY <1>0, <2>1, HFirst
  <2>3. hlists.cell[Adr(x)] = q /\ HR!First(x) = Adr(x)
    BY <1>0, <2>1, NodeWords, HHeapFacts, Addresses
  <2>4. QED
    BY <2>2, <2>3 DEF HR!hlist_empty
<1>3. ASSUME NEW x \in ListHead, NEW n \in Node, n \in HR!L!On(x)
      PROVE  HR!hlist_is_singular_node(hlists, n, x) <=> lists[x] = <<n>>
  <2>1. n \in HR!L!Linked
    BY <1>3 DEF HR!L!Linked
  <2>2. x = HR!L!HeadOf(n)
    <3>1. n \in In(lists[x]) /\ n \in S!Linked
      BY <1>0, <1>3, <2>1, HContract
    <3>2. x = S!HeadOf(n)
      BY <1>0, <3>1, Where
    <3>3. QED
      BY <3>2, HContract
  <2>3. QED
    BY <1>1, <2>1, <2>2
<1>4. QED
  BY <1>1, <1>2, <1>3 DEF HR!AnswersRight

-----------------------------------------------------------------------------
(* The invariant of a program that uses either kind of lists.              *)
ListInv == /\ kind \in {"list", "hlist"}
           /\ IF kind = "list" THEN RState ELSE HNow

LEMMA ListInvInit == Init => ListInv
  BY RingInit, HInit DEF Init, ListInv

LEMMA ListInvNext == ListInv /\ [Next]_vars => ListInv'
<1>1. ASSUME ListInv, kind = "list", R!Step, kind' = kind PROVE ListInv'
  <2>1. RState'
    BY <1>1, RingStep DEF ListInv
  <2>2. QED
    BY <1>1, <2>1 DEF ListInv
<1>2. ASSUME ListInv, kind = "hlist", HR!Step, kind' = kind PROVE ListInv'
  <2>1. HNow'
    BY <1>2, HStep DEF ListInv
  <2>2. QED
    BY <1>2, <2>1 DEF ListInv
<1>3. ASSUME ListInv, UNCHANGED vars PROVE ListInv'
  BY <1>3 DEF ListInv, vars, RState, HNow
<1>4. QED
  BY <1>1, <1>2, <1>3 DEF Next

(* Whichever calls a program makes, with whichever arguments list.h        *)
(* allows, the pointers are those of the lists it was promised:            *)
(* forwards and backwards on circular lists, forwards and through pprev on *)
(* hlists (list.h:46-490, 780-958).                                        *)
THEOREM ListsKeepContract == Spec => []KeepsContract
<1>1. ListInv => KeepsContract
  BY RingKeepsContract, HKeepsContract DEF ListInv, KeepsContract
<1>2. QED
  BY <1>1, ListInvInit, ListInvNext, PTL DEF Spec

(* The answers that list.h gives from one or two pointers (is this list    *)
(* empty, has it one entry, is this entry the first, the last, on a list   *)
(* at all) are those of the whole list (list.h:247-349, 531, 794-819,      *)
(* 924-942).                                                               *)
THEOREM ListsAnswerRight == Spec => []AnswersRight
<1>1. ListInv => AnswersRight
  BY RingAnswersRight, HAnswersRight DEF ListInv, AnswersRight
<1>2. QED
  BY <1>1, ListInvInit, ListInvNext, PTL DEF Spec
=============================================================================
