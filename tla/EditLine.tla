------------------------------ MODULE EditLine ------------------------------
(***************************************************************************)
(* How a log of batches with undone marks walks a line of versions, for    *)
(* whatever the versions are.  RecordStoreProofs and FieldStoreProofs take *)
(* from here that their logs implement EditHistory.                        *)
(***************************************************************************)
EXTENDS Naturals, Sequences, SequenceTheorems, TLAPS

\* A log of n batches, those in u undone in that order, stands at version c of
\* a line l.  The line ends with the newest batch; what is applied is the line
\* up to c, and what redo reaches first is the line from c on.
Walk(n, u, l, c) ==
    /\ n \in Nat
    /\ u \in Seq(1..n)
    /\ l \in Seq(1..n)
    /\ c \in 1..(Len(l) + 1)
    /\ n # 0 => Len(l) # 0 /\ l[Len(l)] = n
    /\ \A i, j \in 1..Len(l) : i < j => l[i] < l[j]
    /\ \A i, j \in 1..Len(u) : u[i] = u[j] => i = j
    /\ \A k \in 1..n :
        (\A i \in 1..Len(u) : u[i] # k) <=> \E i \in 1..(c - 1) : l[i] = k
    /\ \A i \in c..Len(l) :
        Len(u) + c - i \in 1..Len(u) /\ u[Len(u) + c - i] = l[i]

\* Each batch of the line l leads from a version in vs to the next; T has the
\* triples of a batch, the version it is undone to, and the one it is redone to.
Leads(l, vs, D, T) ==
    /\ vs \in Seq(D)
    /\ Len(vs) = Len(l) + 1
    /\ \A i \in 1..Len(l) : <<l[i], vs[i], vs[i + 1]>> \in T

-----------------------------------------------------------------------------
\* The shapes of what stands in a walk.
LEMMA WalkTypes ==
    ASSUME NEW n, NEW u, NEW l, NEW c, Walk(n, u, l, c)
    PROVE  /\ n \in Nat /\ u \in Seq(1..n) /\ l \in Seq(1..n)
           /\ c \in 1..(Len(l) + 1)
           /\ Len(l) \in Nat /\ Len(u) \in Nat
           /\ \A i \in 1..Len(l) : l[i] \in 1..n
           /\ \A i \in 1..Len(u) : u[i] \in 1..n
<1>1. n \in Nat /\ u \in Seq(1..n) /\ l \in Seq(1..n) /\ c \in 1..(Len(l) + 1)
    BY DEF Walk
<1> QED
    BY <1>1

\* A walk's other parts, to be cited one at a time.
LEMMA WalkParts ==
    ASSUME NEW n, NEW u, NEW l, NEW c, Walk(n, u, l, c)
    PROVE  /\ n # 0 => Len(l) # 0 /\ l[Len(l)] = n
           /\ \A i, j \in 1..Len(l) : i < j => l[i] < l[j]
           /\ \A i, j \in 1..Len(u) : u[i] = u[j] => i = j
           /\ \A k \in 1..n :
                (\A i \in 1..Len(u) : u[i] # k) <=> \E i \in 1..(c - 1) : l[i] = k
           /\ \A i \in c..Len(l) :
                Len(u) + c - i \in 1..Len(u) /\ u[Len(u) + c - i] = l[i]
BY DEF Walk

\* An edit forgets the line ahead and adds its batch.
LEMMA WalkEdit ==
    ASSUME NEW n, NEW u, NEW l, NEW c, Walk(n, u, l, c)
    PROVE  Walk(n + 1, u, Append(SubSeq(l, 1, c - 1), n + 1), c + 1)
<1> DEFINE m == Append(SubSeq(l, 1, c - 1), n + 1)
<1>1. /\ n \in Nat /\ u \in Seq(1..n) /\ l \in Seq(1..n) /\ c \in 1..(Len(l) + 1)
      /\ Len(l) \in Nat /\ Len(u) \in Nat
      /\ \A i \in 1..Len(l) : l[i] \in 1..n
      /\ \A i \in 1..Len(u) : u[i] \in 1..n
    BY WalkTypes
<1>2. /\ m \in Seq(1..(n + 1)) /\ Len(m) = c
      /\ \A i \in 1..(c - 1) : m[i] = l[i]
      /\ m[c] = n + 1
    <2> DEFINE p == SubSeq(l, 1, c - 1)
    <2>1. p \in Seq(1..n) /\ Len(p) = c - 1 /\ \A i \in 1..(c - 1) : p[i] = l[i]
        BY <1>1
    <2> HIDE DEF p
    <2>2. m = Append(p, n + 1)
        BY DEF m, p
    <2>3. /\ p \in Seq(1..(n + 1))
          /\ n + 1 \in 1..(n + 1)
          /\ Len(p) + 1 = c
          /\ \A i \in 1..(c - 1) : i \in 1..Len(p)
        BY <1>1, <2>1
    <2> HIDE DEF m
    <2>4. m \in Seq(1..(n + 1)) /\ Len(m) = Len(p) + 1 /\ m[Len(p) + 1] = n + 1
          /\ \A i \in 1..Len(p) : m[i] = p[i]
        BY ONLY <2>2, <2>3
    <2> QED
        BY ONLY <2>1, <2>3, <2>4
<1> HIDE DEF m
<1>3. u \in Seq(1..(n + 1))
    BY <1>1
<1>4. \A i, j \in 1..Len(m) : i < j => m[i] < m[j]
    <2> SUFFICES ASSUME NEW i \in 1..c, NEW j \in 1..c, i < j PROVE m[i] < m[j]
        BY <1>2
    <2>1. i \in 1..(c - 1) /\ i \in 1..Len(l) /\ l[i] \in 1..n /\ m[i] = l[i]
        BY <1>1, <1>2
    <2>2. CASE j = c
        BY <1>1, <1>2, <2>1, <2>2
    <2>3. CASE j # c
        <3>1. j \in 1..(c - 1) /\ j \in 1..Len(l) /\ m[j] = l[j]
            BY <1>1, <1>2, <2>3
        <3>2. l[i] < l[j]
            BY <2>1, <3>1, WalkParts
        <3> QED
            BY <2>1, <3>1, <3>2
    <2> QED
        BY <2>2, <2>3
<1>5. \A k \in 1..(n + 1) :
        (\A i \in 1..Len(u) : u[i] # k) <=> \E i \in 1..c : m[i] = k
    <2> SUFFICES ASSUME NEW k \in 1..(n + 1)
                 PROVE  (\A i \in 1..Len(u) : u[i] # k) <=> \E i \in 1..c : m[i] = k
        OBVIOUS
    <2>1. CASE k = n + 1
        BY <1>1, <1>2, <2>1
    <2>2. CASE k \in 1..n
        <3>1. (\A i \in 1..Len(u) : u[i] # k) <=> \E i \in 1..(c - 1) : l[i] = k
            BY <2>2 DEF Walk
        <3>2. ASSUME NEW i \in 1..(c - 1), l[i] = k PROVE \E j \in 1..c : m[j] = k
            <4>1. i \in 1..c /\ m[i] = k
                BY <1>1, <1>2, <3>2
            <4> QED
                BY <4>1
        <3>3. ASSUME NEW i \in 1..c, m[i] = k PROVE \E j \in 1..(c - 1) : l[j] = k
            <4>1. i # c
                BY <1>1, <1>2, <2>2, <3>3
            <4>2. i \in 1..(c - 1) /\ l[i] = k
                BY <1>1, <1>2, <3>3, <4>1
            <4> QED
                BY <4>2
        <3> QED
            BY <3>1, <3>2, <3>3
    <2> QED
        BY <1>1, <2>1, <2>2
<1>6. Walk(n + 1, u, m, c + 1)
    BY <1>1, <1>2, <1>3, <1>4, <1>5 DEF Walk
<1> QED
    BY <1>6 DEF m

\* The newest batch in force is the one that leads to the version shown.
LEMMA WalkUndo ==
    ASSUME NEW n, NEW u, NEW l, NEW c, Walk(n, u, l, c),
           NEW k \in 1..n, \A i \in 1..Len(u) : u[i] # k,
           \A j \in 1..n : (\A i \in 1..Len(u) : u[i] # j) => j <= k
    PROVE  /\ c > 1 /\ l[c - 1] = k
           /\ Walk(n, Append(u, k), l, c - 1)
<1>1. /\ n \in Nat /\ u \in Seq(1..n) /\ l \in Seq(1..n) /\ c \in 1..(Len(l) + 1)
      /\ Len(l) \in Nat /\ Len(u) \in Nat
      /\ \A i \in 1..Len(l) : l[i] \in 1..n
      /\ \A i \in 1..Len(u) : u[i] \in 1..n
    BY WalkTypes
<1>2. PICK p \in 1..(c - 1) : l[p] = k
    BY DEF Walk
<1>3. c > 1 /\ c - 1 \in 1..Len(l) /\ l[c - 1] \in 1..n
    BY <1>1, <1>2
<1>4. l[c - 1] = k
    <2>1. \A i \in 1..Len(u) : u[i] # l[c - 1]
        <3>1. \A j \in 1..n :
                (\A i \in 1..Len(u) : u[i] # j) <=> \E i \in 1..(c - 1) : l[i] = j
            BY WalkParts
        <3>2. c - 1 \in 1..(c - 1)
            BY <1>1, <1>3
        <3> QED
            BY ONLY <1>3, <3>1, <3>2
    <2>2. l[c - 1] <= k
        BY <1>3, <2>1
    <2>3. p # c - 1 => l[p] < l[c - 1]
        <3>1. \A i, j \in 1..Len(l) : i < j => l[i] < l[j]
            BY WalkParts
        <3>2. p # c - 1 => p < c - 1 /\ p \in 1..Len(l)
            BY <1>1, <1>2, <1>3
        <3> QED
            BY ONLY <1>3, <3>1, <3>2
    <2> QED
        BY <1>1, <1>2, <1>3, <2>2, <2>3
<1> DEFINE w == Append(u, k)
<1>5. /\ w \in Seq(1..n) /\ Len(w) = Len(u) + 1
      /\ \A i \in 1..Len(u) : w[i] = u[i]
      /\ w[Len(u) + 1] = k
    BY <1>1
<1> HIDE DEF w
<1>6. \A i, j \in 1..Len(w) : w[i] = w[j] => i = j
    <2>1. \A i, j \in 1..Len(u) : u[i] = u[j] => i = j
        BY WalkParts
    <2>2. \A i \in 1..Len(w) : i \in 1..Len(u) \/ i = Len(u) + 1
        BY <1>1, <1>5
    <2> QED
        BY ONLY <1>5, <2>1, <2>2, \A i \in 1..Len(u) : u[i] # k
<1>7. \A j \in 1..n : (\A i \in 1..Len(w) : w[i] # j) <=> \E i \in 1..(c - 2) : l[i] = j
    <2> SUFFICES ASSUME NEW j \in 1..n
                 PROVE  (\A i \in 1..Len(w) : w[i] # j) <=> \E i \in 1..(c - 2) : l[i] = j
        OBVIOUS
    <2>1. (\A i \in 1..Len(u) : u[i] # j) <=> \E i \in 1..(c - 1) : l[i] = j
        BY WalkParts
    <2>2. (\A i \in 1..Len(w) : w[i] # j) <=> (\A i \in 1..Len(u) : u[i] # j) /\ j # k
        <3>1. /\ \A i \in 1..Len(w) : i \in 1..Len(u) \/ i = Len(u) + 1
              /\ \A i \in 1..Len(u) : i \in 1..Len(w)
              /\ Len(u) + 1 \in 1..Len(w)
            BY <1>1, <1>5
        <3> QED
            BY ONLY <1>5, <3>1
    <2>3. \A i \in 1..(c - 2) : l[i] # k
        <3> SUFFICES ASSUME NEW i \in 1..(c - 2) PROVE l[i] # k
            OBVIOUS
        <3>1. i \in 1..Len(l) /\ c - 1 \in 1..Len(l) /\ i < c - 1
            BY <1>1, <1>3
        <3>2. l[i] < l[c - 1] /\ l[i] \in 1..n
            BY <1>1, <3>1, WalkParts
        <3> QED
            BY <1>1, <1>4, <3>2
    <2>4. (\E i \in 1..(c - 2) : l[i] = j) <=> (\E i \in 1..(c - 1) : l[i] = j) /\ j # k
        <3>1. /\ \A i \in 1..(c - 1) : i \in 1..(c - 2) \/ i = c - 1
              /\ \A i \in 1..(c - 2) : i \in 1..(c - 1)
            BY <1>1, <1>3
        <3> QED
            BY ONLY <1>4, <2>3, <3>1
    <2> QED
        BY <2>1, <2>2, <2>4
<1>8. \A i \in (c - 1)..Len(l) :
        Len(w) + (c - 1) - i \in 1..Len(w) /\ w[Len(w) + (c - 1) - i] = l[i]
    <2> SUFFICES ASSUME NEW i \in (c - 1)..Len(l)
                 PROVE  /\ Len(w) + (c - 1) - i \in 1..Len(w)
                        /\ w[Len(w) + (c - 1) - i] = l[i]
        OBVIOUS
    <2>1. CASE i = c - 1
        BY <1>1, <1>3, <1>4, <1>5, <2>1
    <2>2. CASE i # c - 1
        <3>1. i \in c..Len(l)
            BY <1>1, <1>3, <2>2
        <3>2. Len(u) + c - i \in 1..Len(u) /\ u[Len(u) + c - i] = l[i]
            BY <3>1 DEF Walk
        <3>3. Len(w) + (c - 1) - i = Len(u) + c - i
            BY <1>1, <1>5, <3>1
        <3>4. \A x \in 1..Len(u) : x \in 1..Len(w) /\ w[x] = u[x]
            BY <1>1, <1>5
        <3> QED
            BY ONLY <3>2, <3>3, <3>4
    <2> QED
        BY <2>1, <2>2
<1>9. Walk(n, w, l, c - 1)
    <2>1. c - 1 \in 1..(Len(l) + 1) /\ (c - 1) - 1 = c - 2
        BY <1>1, <1>3
    <2> QED
        BY <1>1, <1>5, <1>6, <1>7, <1>8, <2>1 DEF Walk
<1> QED
    BY <1>3, <1>4, <1>9 DEF w

\* The batch undone last is the next one of the line, unless a newer batch is
\* in force.
LEMMA WalkRedo ==
    ASSUME NEW n, NEW u, NEW l, NEW c, Walk(n, u, l, c), u # <<>>,
           \A j \in 1..n : (\A i \in 1..Len(u) : u[i] # j) => j < u[Len(u)]
    PROVE  /\ c < Len(l) + 1 /\ l[c] = u[Len(u)]
           /\ Walk(n, SubSeq(u, 1, Len(u) - 1), l, c + 1)
<1>1. /\ n \in Nat /\ u \in Seq(1..n) /\ l \in Seq(1..n) /\ c \in 1..(Len(l) + 1)
      /\ Len(l) \in Nat /\ Len(u) \in Nat
      /\ \A i \in 1..Len(l) : l[i] \in 1..n
      /\ \A i \in 1..Len(u) : u[i] \in 1..n
    BY WalkTypes
<1>2. Len(u) \in 1..Len(u) /\ u[Len(u)] \in 1..n
    BY <1>1
<1>3. c < Len(l) + 1
    <2> SUFFICES ASSUME c = Len(l) + 1 PROVE FALSE
        BY <1>1
    <2>1. Len(l) # 0 /\ l[Len(l)] = n
        BY <1>1, <1>2 DEF Walk
    <2>2. n \in 1..n /\ Len(l) \in 1..(c - 1)
        BY <1>1, <1>2, <2>1
    <2>3. \A i \in 1..Len(u) : u[i] # n
        BY <2>1, <2>2 DEF Walk
    <2>4. n < u[Len(u)]
        BY <2>2, <2>3
    <2> QED
        BY <1>1, <1>2, <2>4
<1>4. l[c] = u[Len(u)]
    <2>1. c \in c..Len(l) /\ Len(u) + c - c = Len(u)
        BY <1>1, <1>3
    <2> QED
        BY <2>1 DEF Walk
<1> DEFINE w == SubSeq(u, 1, Len(u) - 1)
<1>5. /\ w \in Seq(1..n) /\ Len(w) = Len(u) - 1
      /\ \A i \in 1..(Len(u) - 1) : w[i] = u[i]
    <2>1. Len(u) - 1 \in Nat /\ Len(u) - 1 <= Len(u)
        BY <1>1, <1>2
    <2>2. PICK S : S = 1..n
        OBVIOUS
    <2>3. u \in Seq(S) /\ \A i \in 1..(Len(u) - 1) : u[i] \in S
        BY <1>1, <2>1, <2>2
    <2>4. PICK z : z = Len(u) - 1
        OBVIOUS
    <2> HIDE DEF w
    <2>5. w = SubSeq(u, 1, z)
        BY <2>4 DEF w
    <2>6. w \in Seq(S) /\ Len(w) = z /\ \A i \in 1..z : w[i] = u[i]
        <3>1. /\ SubSeq(u, 1, z) \in Seq(S)
              /\ Len(SubSeq(u, 1, z)) = IF 1 <= z THEN z - 1 + 1 ELSE 0
              /\ \A i \in 1..(z - 1 + 1) : SubSeq(u, 1, z)[i] = u[1 + i - 1]
            <4>1. 1 \in Int /\ z \in Int /\ \A i \in 1..z : u[i] \in S
                BY ONLY <2>1, <2>3, <2>4
            <4> QED
                BY ONLY <4>1, SubSeqProperties
        <3>2. z \in Nat /\ z - 1 + 1 = z /\ \A i \in 1..z : 1 + i - 1 = i
            BY ONLY <2>1, <2>4
        <3> QED
            BY ONLY <2>5, <3>1, <3>2
    <2> QED
        BY <2>2, <2>4, <2>6
<1> HIDE DEF w
<1>5a. \A i \in 1..Len(w) : i \in 1..Len(u) /\ w[i] = u[i] /\ i # Len(u)
    BY <1>1, <1>2, <1>5, SMTT(20)
<1>5b. \A i \in 1..Len(u) : i \in 1..Len(w) \/ i = Len(u)
    BY <1>1, <1>2, <1>5
<1>6. \A i, j \in 1..Len(w) : w[i] = w[j] => i = j
    <2>1. \A i, j \in 1..Len(u) : u[i] = u[j] => i = j
        BY WalkParts
    <2> QED
        BY ONLY <1>5a, <2>1
<1>7. \A j \in 1..n : (\A i \in 1..Len(w) : w[i] # j) <=> \E i \in 1..c : l[i] = j
    <2> SUFFICES ASSUME NEW j \in 1..n
                 PROVE  (\A i \in 1..Len(w) : w[i] # j) <=> \E i \in 1..c : l[i] = j
        OBVIOUS
    <2>1. (\A i \in 1..Len(u) : u[i] # j) <=> \E i \in 1..(c - 1) : l[i] = j
        BY WalkParts
    <2>2. \A i \in 1..Len(w) : u[i] # u[Len(u)]
        <3>1. \A i, x \in 1..Len(u) : u[i] = u[x] => i = x
            BY WalkParts
        <3> QED
            BY ONLY <1>2, <1>5a, <3>1
    <2>3. (\A i \in 1..Len(w) : w[i] # j) <=> (\A i \in 1..Len(u) : u[i] # j) \/ j = u[Len(u)]
        BY ONLY <1>2, <1>5a, <1>5b, <2>2
    <2>4. (\E i \in 1..c : l[i] = j) <=> (\E i \in 1..(c - 1) : l[i] = j) \/ j = l[c]
        <3>1. /\ \A i \in 1..c : i \in 1..(c - 1) \/ i = c
              /\ \A i \in 1..(c - 1) : i \in 1..c
              /\ c \in 1..c
            BY <1>1
        <3> QED
            BY ONLY <3>1
    <2> QED
        BY <1>4, <2>1, <2>3, <2>4
<1>8. \A i \in (c + 1)..Len(l) :
        Len(w) + (c + 1) - i \in 1..Len(w) /\ w[Len(w) + (c + 1) - i] = l[i]
    <2> SUFFICES ASSUME NEW i \in (c + 1)..Len(l)
                 PROVE  /\ Len(w) + (c + 1) - i \in 1..Len(w)
                        /\ w[Len(w) + (c + 1) - i] = l[i]
        OBVIOUS
    <2>1. i \in c..Len(l) /\ i > c
        BY <1>1
    <2>2. Len(u) + c - i \in 1..Len(u) /\ u[Len(u) + c - i] = l[i]
        BY <2>1 DEF Walk
    <2>3. Len(w) + (c + 1) - i = Len(u) + c - i /\ Len(u) + c - i \in 1..Len(w)
        BY <1>1, <1>5, <2>1, <2>2
    <2> QED
        BY <1>5, <2>2, <2>3
<1>9. Walk(n, w, l, c + 1)
    <2>1. c + 1 \in 1..(Len(l) + 1) /\ (c + 1) - 1 = c
        BY <1>1, <1>3
    <2> QED
        BY <1>1, <1>5, <1>6, <1>7, <1>8, <2>1 DEF Walk
<1> QED
    BY <1>3, <1>4, <1>9 DEF w

\* An edit's batch leads from the version shown to the one it makes.
LEMMA LeadsEdit ==
    ASSUME NEW l, NEW vs, NEW D, NEW T, Leads(l, vs, D, T),
           NEW S, l \in Seq(S), NEW c \in 1..(Len(l) + 1),
           NEW U, NEW k, NEW v \in D, <<k, vs[c], v>> \in U,
           \A i \in 1..Len(l) : <<l[i], vs[i], vs[i + 1]>> \in U
    PROVE  Leads(Append(SubSeq(l, 1, c - 1), k), Append(SubSeq(vs, 1, c), v), D, U)
<1> DEFINE p == SubSeq(l, 1, c - 1)
           q == SubSeq(vs, 1, c)
<1>1. Len(l) \in Nat /\ vs \in Seq(D) /\ Len(vs) = Len(l) + 1
    BY DEF Leads
<1>2. p \in Seq(S) /\ Len(p) = c - 1 /\ \A i \in 1..(c - 1) : p[i] = l[i]
    BY <1>1
<1>3. q \in Seq(D) /\ Len(q) = c /\ \A i \in 1..c : q[i] = vs[i]
    BY <1>1
<1> HIDE DEF p, q
<1> DEFINE m == Append(p, k)
           ws == Append(q, v)
<1>4. Len(m) = c /\ m[c] = k /\ \A i \in 1..(c - 1) : m[i] = l[i]
    BY <1>1, <1>2
<1>5. ws \in Seq(D) /\ Len(ws) = c + 1 /\ ws[c + 1] = v /\ \A i \in 1..c : ws[i] = vs[i]
    BY <1>1, <1>3
<1> HIDE DEF m, ws
<1>6. ASSUME NEW i \in 1..Len(m) PROVE <<m[i], ws[i], ws[i + 1]>> \in U
    <2>1. CASE i = c
        BY <1>1, <1>4, <1>5, <2>1
    <2>2. CASE i # c
        <3>1. i \in 1..(c - 1) /\ i \in 1..Len(l) /\ i \in 1..c /\ i + 1 \in 1..c
            BY <1>1, <1>4, <2>2
        <3> QED
            BY <1>4, <1>5, <3>1
    <2> QED
        BY <2>1, <2>2
<1>7. Leads(m, ws, D, U)
    BY <1>4, <1>5, <1>6 DEF Leads
<1> QED
    BY <1>7 DEF m, ws, p, q
=============================================================================
