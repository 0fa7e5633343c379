------------------------------- MODULE Lines -------------------------------
(***************************************************************************)
(* Lines, first in, first out: the fibers that wait for a permit of one of *)
(* Effect's semaphores, the queued runs of a thread, its effect lane.      *)
(* What joining a line, leaving it and keeping a part of it do.            *)
(***************************************************************************)
EXTENDS Integers, Sequences, WellFoundedInduction, TLAPS

\* The line once a fiber has left its place in it, if it had one.
Without(line, f) ==
    LET places == {i \in 1 .. Len(line) : line[i] = f}
        i == CHOOSE p \in places : TRUE
    IN  IF places = {} THEN line ELSE SubSeq(line, 1, i - 1) \o SubSeq(line, i + 1, Len(line))

\* Nobody comes into a line because another leaves it.
LEMMA WithoutType ==
    ASSUME NEW S, NEW line \in Seq(S), NEW f
    PROVE  Without(line, f) \in Seq(S)
  <1> DEFINE places == {i \in 1 .. Len(line) : line[i] = f}
             place  == CHOOSE p \in places : TRUE
  <1>1. CASE places = {}
    BY <1>1 DEF Without
  <1>2. CASE places # {}
    <2>1. place \in 1 .. Len(line)
      BY <1>2
    <2>2. Without(line, f) = SubSeq(line, 1, place - 1) \o SubSeq(line, place + 1, Len(line))
      BY <1>2 DEF Without
    <2> HIDE DEF place
    <2>3. SubSeq(line, 1, place - 1) \in Seq(S) /\ SubSeq(line, place + 1, Len(line)) \in Seq(S)
      BY <2>1
    <2> QED
      BY <2>2, <2>3
  <1> QED
    BY <1>1, <1>2

\* The fiber has a place in the line.
Stands(f, line) == \E i \in 1 .. Len(line) : line[i] = f

\* One place p of the fiber is given up, and the line behind it moves up.
LEMMA WithoutPlace ==
    ASSUME NEW S, NEW line \in Seq(S), NEW f, Stands(f, line)
    PROVE  \E p \in 1 .. Len(line) :
              /\ line[p] = f
              /\ Without(line, f) \in Seq(S)
              /\ Len(Without(line, f)) = Len(line) - 1
              /\ \A i \in 1 .. Len(line) - 1 :
                    /\ i < p => Without(line, f)[i] = line[i]
                    /\ i >= p => Without(line, f)[i] = line[i + 1]
  <1> DEFINE places == {i \in 1 .. Len(line) : line[i] = f}
             p      == CHOOSE i \in places : TRUE
  <1>0. places # {}
    BY DEF Stands
  <1>1. p \in 1 .. Len(line) /\ line[p] = f
    BY <1>0
  <1>2. Without(line, f) = SubSeq(line, 1, p - 1) \o SubSeq(line, p + 1, Len(line))
    BY <1>0 DEF Without
  <1> HIDE DEF p
  <1>3. /\ Len(Without(line, f)) = Len(line) - 1
        /\ \A i \in 1 .. Len(line) - 1 :
              /\ i < p => Without(line, f)[i] = line[i]
              /\ i >= p => Without(line, f)[i] = line[i + 1]
    <2> DEFINE before == SubSeq(line, 1, p - 1)
               after  == SubSeq(line, p + 1, Len(line))
    <2>1. /\ before \in Seq(S) /\ Len(before) = p - 1
          /\ \A i \in 1 .. p - 1 : before[i] = line[i]
      BY <1>1
    <2>2. /\ after \in Seq(S) /\ Len(after) = Len(line) - p
          /\ \A i \in 1 .. Len(line) - p : after[i] = line[p + i]
      BY <1>1
    <2> HIDE DEF before, after
    <2>3. Len(before \o after) = Len(line) - 1
      <3>1. Len(before \o after) = Len(before) + Len(after)
        BY <2>1, <2>2
      <3> QED
        BY <1>1, <2>1, <2>2, <3>1
    <2>4. ASSUME NEW i \in 1 .. Len(line) - 1
          PROVE  /\ i < p => (before \o after)[i] = line[i]
                 /\ i >= p => (before \o after)[i] = line[i + 1]
      <3>1. CASE i < p
        BY <1>1, <2>1, <2>2, <3>1
      <3>2. CASE i >= p
        <4>1. i - (p - 1) \in 1 .. Len(line) - p
          BY <1>1, <3>2
        <4>2. (before \o after)[i] = after[i - (p - 1)]
          BY <1>1, <2>1, <2>2, <3>2
        <4>3. after[i - (p - 1)] = line[p + (i - (p - 1))]
          BY <2>2, <4>1
        <4>4. p + (i - (p - 1)) = i + 1
          BY <1>1
        <4>5. (before \o after)[i] = line[i + 1]
          BY <4>2, <4>3, <4>4, Zenon
        <4> QED
          BY <1>1, <3>2, <4>5
      <3> QED
        BY <1>1, <3>1, <3>2
    <2> QED
      BY <1>2, <2>3, <2>4 DEF before, after
  <1>4. Without(line, f) \in Seq(S)
    BY WithoutType
  <1> QED
    BY <1>1, <1>3, <1>4

\* Either nobody left, or one place was given up.
LEMMA WithoutShape ==
    ASSUME NEW S, NEW line \in Seq(S), NEW f
    PROVE  \/ Without(line, f) = line
           \/ \E p \in 1 .. Len(line) :
                 /\ line[p] = f
                 /\ Without(line, f) \in Seq(S)
                 /\ Len(Without(line, f)) = Len(line) - 1
                 /\ \A i \in 1 .. Len(line) - 1 :
                       /\ i < p => Without(line, f)[i] = line[i]
                       /\ i >= p => Without(line, f)[i] = line[i + 1]
  <1>1. CASE Stands(f, line)
    BY <1>1, WithoutPlace
  <1>2. CASE ~ Stands(f, line)
    BY <1>2 DEF Stands, Without
  <1> QED
    BY <1>1, <1>2

\* Who does not leave the line stays in it.
LEMMA WithoutKeeps ==
    ASSUME NEW S, NEW line \in Seq(S), NEW f, NEW g, g # f, Stands(g, line)
    PROVE  Stands(g, Without(line, f))
  <1> PICK i \in 1 .. Len(line) : line[i] = g
    BY DEF Stands
  <1>1. CASE Without(line, f) = line
    BY <1>1
  <1>2. ASSUME NEW p \in 1 .. Len(line), line[p] = f,
               Len(Without(line, f)) = Len(line) - 1,
               \A k \in 1 .. Len(line) - 1 :
                   /\ k < p => Without(line, f)[k] = line[k]
                   /\ k >= p => Without(line, f)[k] = line[k + 1]
        PROVE  Stands(g, Without(line, f))
    <2>1. CASE i < p
      <3>1. i \in 1 .. Len(line) - 1 /\ Without(line, f)[i] = g
        BY <1>2, <2>1
      <3> QED
        BY <1>2, <3>1 DEF Stands
    <2>2. CASE i > p
      <3>1. i - 1 \in 1 .. Len(line) - 1 /\ Without(line, f)[i - 1] = g
        BY <1>2, <2>2
      <3> QED
        BY <1>2, <3>1 DEF Stands
    <2> QED
      BY <1>2, <2>1, <2>2
  <1> QED
    BY <1>1, <1>2, WithoutShape

\* The first of the line stays the first when another leaves.
LEMMA WithoutKeepsFirst ==
    ASSUME NEW S, NEW line \in Seq(S), NEW f, NEW g, g # f, line # <<>>, line[1] = g
    PROVE  Without(line, f) # <<>> /\ Without(line, f)[1] = g
  <1>1. CASE Without(line, f) = line
    BY <1>1
  <1>2. ASSUME NEW p \in 1 .. Len(line), line[p] = f,
               Without(line, f) \in Seq(S),
               Len(Without(line, f)) = Len(line) - 1,
               \A k \in 1 .. Len(line) - 1 :
                   /\ k < p => Without(line, f)[k] = line[k]
                   /\ k >= p => Without(line, f)[k] = line[k + 1]
        PROVE  Without(line, f) # <<>> /\ Without(line, f)[1] = g
    <2>1. p # 1 /\ 1 \in 1 .. Len(line) - 1
      BY <1>2
    <2> QED
      BY <1>2, <2>1
  <1> QED
    BY <1>1, <1>2, WithoutShape

\* No fiber has two places.
Distinct(line) == \A i, j \in 1 .. Len(line) : line[i] = line[j] => i = j

\* Who leaves a line of distinct fibers is gone from it, and nobody came.
LEMMA WithoutLeaves ==
    ASSUME NEW S, NEW line \in Seq(S), NEW f, Distinct(line)
    PROVE  /\ Distinct(Without(line, f))
           /\ Stands(f, line) => ~ Stands(f, Without(line, f))
           /\ \A g : Stands(g, Without(line, f)) => Stands(g, line)
  <1>1. CASE ~ Stands(f, line)
    BY <1>1 DEF Without, Stands
  <1>2. CASE Stands(f, line)
    <2> DEFINE places == {i \in 1 .. Len(line) : line[i] = f}
    <2>1. PICK p \in 1 .. Len(line) :
             /\ line[p] = f
             /\ Without(line, f) \in Seq(S)
             /\ Len(Without(line, f)) = Len(line) - 1
             /\ \A i \in 1 .. Len(line) - 1 :
                   /\ i < p => Without(line, f)[i] = line[i]
                   /\ i >= p => Without(line, f)[i] = line[i + 1]
      BY <1>2, WithoutPlace
    <2> DEFINE from(i) == IF i < p THEN i ELSE i + 1
    <2>2. ASSUME NEW i \in 1 .. Len(line) - 1
          PROVE  /\ from(i) \in 1 .. Len(line) /\ from(i) # p
                 /\ Without(line, f)[i] = line[from(i)]
      BY <2>1
    <2>3. \A i, j \in 1 .. Len(line) - 1 : from(i) = from(j) => i = j
      BY <2>1
    <2>4. Len(Without(line, f)) = Len(line) - 1 /\ line[p] = f
      BY <2>1
    <2> HIDE DEF from
    <2> QED
      BY SMTT(30), <2>2, <2>3, <2>4 DEF Distinct, Stands
  <1> QED
    BY <1>1, <1>2

\* Who comes has the last place.
LEMMA AppendEntries ==
    ASSUME NEW T, NEW w \in Seq(T), NEW e \in T
    PROVE  /\ Len(Append(w, e)) = Len(w) + 1 /\ Len(w) \in Nat
           /\ \A i \in 1 .. Len(w) : Append(w, e)[i] = w[i]
           /\ Append(w, e)[Len(w) + 1] = e
           /\ w \o <<e>> = Append(w, e) /\ w \o << >> = w
  OBVIOUS

LEMMA AppendJoins ==
    ASSUME NEW S, NEW line \in Seq(S), NEW f \in S
    PROVE  /\ \A g : Stands(g, Append(line, f)) <=> g = f \/ Stands(g, line)
           /\ Distinct(line) /\ ~ Stands(f, line) => Distinct(Append(line, f))
  <1>1. /\ Len(Append(line, f)) = Len(line) + 1 /\ Len(line) \in Nat
        /\ \A i \in 1 .. Len(line) : Append(line, f)[i] = line[i]
        /\ Append(line, f)[Len(line) + 1] = f
    BY AppendEntries
  <1>2. 1 .. Len(line) + 1 = 1 .. Len(line) \cup {Len(line) + 1}
    BY <1>1
  <1>3. \A g : Stands(g, Append(line, f)) <=> g = f \/ Stands(g, line)
    BY <1>1, <1>2 DEF Stands
  <1>4. ASSUME Distinct(line), ~ Stands(f, line) PROVE Distinct(Append(line, f))
    BY <1>1, <1>2, <1>4 DEF Stands, Distinct
  <1> QED
    BY <1>3, <1>4

\* Who is served leaves the first place.
LEMMA TailLeaves ==
    ASSUME NEW S, NEW line \in Seq(S), line # << >>
    PROVE  /\ Tail(line) \in Seq(S)
           /\ \A g : Stands(g, line) <=> g = Head(line) \/ Stands(g, Tail(line))
           /\ Distinct(line) => Distinct(Tail(line)) /\ ~ Stands(Head(line), Tail(line))
           /\ line = <<Head(line)>> \o Tail(line)
  <1>1. /\ Len(Tail(line)) = Len(line) - 1 /\ Len(line) \in Nat \ {0}
        /\ \A i \in 1 .. Len(line) - 1 : Tail(line)[i] = line[i + 1]
        /\ Head(line) = line[1] /\ Tail(line) \in Seq(S)
    OBVIOUS
  <1>2. \A i \in 1 .. Len(line) : i = 1 \/ i - 1 \in 1 .. Len(line) - 1
    BY <1>1
  <1>3. \A i \in 1 .. Len(line) - 1 : i + 1 \in 1 .. Len(line) /\ i + 1 # 1
    BY <1>1
  <1>4. \A g : Stands(g, line) <=> g = Head(line) \/ Stands(g, Tail(line))
    <2> SUFFICES ASSUME NEW g
                 PROVE  Stands(g, line) <=> g = Head(line) \/ Stands(g, Tail(line))
      OBVIOUS
    <2>1. ASSUME NEW i \in 1 .. Len(line), line[i] = g
          PROVE  g = Head(line) \/ Stands(g, Tail(line))
      <3>1. CASE i = 1
        BY <1>1, <2>1, <3>1
      <3>2. CASE i # 1
        <4>1. i - 1 \in 1 .. Len(Tail(line)) /\ Tail(line)[i - 1] = g
          BY <1>1, <1>2, <2>1, <3>2
        <4> QED
          BY <4>1 DEF Stands
      <3> QED
        BY <3>1, <3>2
    <2>2. ASSUME Stands(g, Tail(line)) PROVE Stands(g, line)
      <3>1. PICK i \in 1 .. Len(line) - 1 : line[i + 1] = g
        BY <1>1, <2>2 DEF Stands
      <3> QED
        BY <1>3, <3>1 DEF Stands
    <2>3. ASSUME g = Head(line) PROVE Stands(g, line)
      BY <1>1, <2>3 DEF Stands
    <2> QED
      BY <2>1, <2>2, <2>3 DEF Stands
  <1>5. ASSUME Distinct(line) PROVE Distinct(Tail(line)) /\ ~ Stands(Head(line), Tail(line))
    <2>1. \A i, j \in 1 .. Len(line) - 1 : Tail(line)[i] = Tail(line)[j] => i = j
      BY <1>1, <1>3, <1>5 DEF Distinct
    <2>2. \A i \in 1 .. Len(line) - 1 : Tail(line)[i] # Head(line)
      BY <1>1, <1>3, <1>5 DEF Distinct
    <2> QED
      BY <1>1, <2>1, <2>2 DEF Distinct, Stands
  <1>6. line = <<Head(line)>> \o Tail(line)
    OBVIOUS
  <1> QED
    BY <1>1, <1>4, <1>5, <1>6

\* A line and who is before it.
LEMMA AtTheHead ==
    ASSUME NEW S, NEW line \in Seq(S), NEW h \in S
    PROVE  LET all == <<h>> \o line
           IN  /\ all \in Seq(S) /\ Len(all) = Len(line) + 1 /\ Len(line) \in Nat
               /\ all[1] = h /\ \A i \in 1 .. Len(line) : all[i + 1] = line[i]
               /\ Head(all) = h /\ all # << >>
               /\ \A g : Stands(g, all) <=> g = h \/ Stands(g, line)
  <1> DEFINE all == <<h>> \o line
  <1>1. /\ all \in Seq(S) /\ Len(all) = Len(line) + 1 /\ Len(line) \in Nat
        /\ all[1] = h /\ \A i \in 1 .. Len(line) : all[i + 1] = line[i]
        /\ Head(all) = h /\ all # << >>
    OBVIOUS
  <1>2. /\ Tail(all) \in Seq(S) /\ Len(Tail(all)) = Len(line)
        /\ \A i \in 1 .. Len(line) : Tail(all)[i] = line[i]
    OBVIOUS
  <1> HIDE DEF all
  <1>3. \A g : Stands(g, all) <=> g = h \/ Stands(g, line)
    <2>1. \A g : Stands(g, all) <=> g = Head(all) \/ Stands(g, Tail(all))
      BY <1>1, TailLeaves
    <2>2. \A g : Stands(g, Tail(all)) <=> Stands(g, line)
      BY <1>2 DEF Stands
    <2> QED
      BY <1>1, <2>1, <2>2
  <1> QED
    BY <1>1, <1>3 DEF all

LEMMA WithoutFirst ==
    ASSUME NEW S, NEW line \in Seq(S), NEW h \in S, ~ Stands(h, line)
    PROVE  Without(<<h>> \o line, h) = line
  <1> DEFINE all  == <<h>> \o line
             rest == Without(all, h)
  <1>1. /\ all \in Seq(S) /\ Len(all) = Len(line) + 1 /\ Len(line) \in Nat
        /\ all[1] = h /\ \A i \in 1 .. Len(line) : all[i + 1] = line[i]
        /\ Stands(h, all)
    BY AtTheHead
  <1> HIDE DEF all
  <1>2. PICK p \in 1 .. Len(all) :
          /\ all[p] = h /\ rest \in Seq(S) /\ Len(rest) = Len(all) - 1
          /\ \A i \in 1 .. Len(all) - 1 : i >= p => rest[i] = all[i + 1]
    BY <1>1, WithoutPlace
  <1> HIDE DEF rest
  <1>3. p = 1
    <2>1. p # 1 => p - 1 \in 1 .. Len(line) /\ all[(p - 1) + 1] = line[p - 1] /\ (p - 1) + 1 = p
      BY <1>1, <1>2
    <2> QED
      BY <1>2, <2>1 DEF Stands
  <1>4. Len(rest) = Len(line) /\ \A i \in 1 .. Len(line) : rest[i] = line[i]
    BY <1>1, <1>2, <1>3
  <1>5. rest = line
    BY <1>2, <1>4
  <1> QED
    BY <1>5 DEF rest, all

LEMMA WithoutBehind ==
    ASSUME NEW S, NEW line \in Seq(S), NEW h \in S, NEW f, f # h, Distinct(line)
    PROVE  Without(<<h>> \o line, f) = <<h>> \o Without(line, f)
  <1> DEFINE all  == <<h>> \o line
             rest == Without(all, f)
             less == Without(line, f)
  <1>1. /\ all \in Seq(S) /\ Len(all) = Len(line) + 1 /\ Len(line) \in Nat
        /\ all[1] = h /\ \A i \in 1 .. Len(line) : all[i + 1] = line[i]
        /\ Stands(f, all) <=> f = h \/ Stands(f, line)
    BY AtTheHead
  <1> HIDE DEF all
  <1>2. CASE ~ Stands(f, line)
    <2>1. rest = all /\ less = line
      BY <1>1, <1>2 DEF Without, Stands
    <2> QED
      BY <2>1 DEF all
  <1>3. CASE Stands(f, line)
    <2>0. Stands(f, all)
      BY <1>1, <1>3
    <2>a. all \in Seq(S)
      BY <1>1
    <2>1. PICK p \in 1 .. Len(all) :
            /\ all[p] = f /\ rest \in Seq(S) /\ Len(rest) = Len(all) - 1
            /\ \A i \in 1 .. Len(all) - 1 :
                  /\ i < p => rest[i] = all[i]
                  /\ i >= p => rest[i] = all[i + 1]
      BY <2>0, <2>a, WithoutPlace
    <2>2. PICK q \in 1 .. Len(line) :
            /\ line[q] = f /\ less \in Seq(S) /\ Len(less) = Len(line) - 1
            /\ \A i \in 1 .. Len(line) - 1 :
                  /\ i < q => less[i] = line[i]
                  /\ i >= q => less[i] = line[i + 1]
      BY <1>3, WithoutPlace
    <2> DEFINE new == <<h>> \o less
    <2>3. /\ new \in Seq(S) /\ Len(new) = Len(less) + 1
          /\ new[1] = h /\ \A i \in 1 .. Len(less) : new[i + 1] = less[i]
      BY <2>2, AtTheHead
    <2> HIDE DEF rest, less, new
    <2>4. p = q + 1
      <3>1. p # 1 /\ p - 1 \in 1 .. Len(line)
        BY <1>1, <2>1
      <3>2. line[p - 1] = f
        <4>1. all[(p - 1) + 1] = line[p - 1] /\ (p - 1) + 1 = p
          BY <1>1, <3>1
        <4> QED
          BY <2>1, <4>1
      <3>3. p - 1 = q
        BY <2>2, <3>1, <3>2 DEF Distinct
      <3> QED
        BY <2>1, <2>2, <3>3
    <2>5. Len(rest) = Len(line) /\ Len(new) = Len(line)
      BY <1>1, <2>1, <2>2, <2>3
    <2>6. ASSUME NEW i \in 1 .. Len(line) PROVE rest[i] = new[i]
      <3>1. CASE i = 1
        BY <1>1, <2>1, <2>2, <2>3, <2>4, <3>1
      <3>2. CASE i # 1
        <4> DEFINE j == i - 1
        <4>1. j \in 1 .. Len(line) - 1 /\ j \in 1 .. Len(less) /\ j \in 1 .. Len(line) /\ i = j + 1
          BY <2>2, <3>2
        <4> HIDE DEF j
        <4>2. new[i] = less[j]
          BY <2>3, <4>1
        <4>3. CASE j < q
          <5>1. i < p /\ i \in 1 .. Len(all) - 1
            BY <1>1, <2>4, <4>1, <4>3
          <5>2. rest[i] = all[i] /\ all[i] = line[j] /\ less[j] = line[j]
            BY <1>1, <2>1, <2>2, <4>1, <4>3, <5>1
          <5> QED
            BY <4>2, <5>2
        <4>4. CASE j >= q
          <5>1. i >= p /\ i \in 1 .. Len(all) - 1
            BY <1>1, <2>4, <4>1, <4>4
          <5>2. rest[i] = all[i + 1] /\ all[i + 1] = line[i] /\ less[j] = line[j + 1]
            BY <1>1, <2>1, <2>2, <4>1, <4>4, <5>1
          <5> QED
            BY <4>1, <4>2, <5>2
        <4> QED
          BY <2>2, <4>1, <4>3, <4>4
      <3> QED
        BY <3>1, <3>2
    <2>7. rest = new
      BY <2>1, <2>3, <2>5, <2>6
    <2> QED
      BY <2>7 DEF rest, less, new, all
  <1> QED
    BY <1>2, <1>3

-----------------------------------------------------------------------------
(* A part of a line.                                                       *)

\* Induction over the natural numbers, for a set.
LEMMA NatSets ==
    ASSUME NEW S, 0 \in S, \A n \in Nat : n \in S => n + 1 \in S
    PROVE  Nat \subseteq S
  <1> DEFINE T  == Nat \ S
             LT == OpToRel(<, Nat)
  <1>1. IsWellFoundedOn(LT, Nat)
    BY NatLessThanWellFounded
  <1>2. \A x, y \in Nat : x < y => <<x, y>> \in LT
    BY DEF OpToRel
  <1> HIDE DEF LT
  <1>3. ASSUME T # {} PROVE FALSE
    <2>1. PICK x \in T : \A y \in T : ~(<<y, x>> \in LT)
      BY <1>1, <1>3, WFMin
    <2>2. x # 0 /\ x - 1 \in Nat /\ x - 1 < x
      OBVIOUS
    <2>3. x - 1 \in T
      BY <2>2
    <2> QED
      BY <1>2, <2>1, <2>2, <2>3
  <1> QED
    BY <1>3

\* The line with e at its end if e is in S, and without it if not.
Keep(line, e, S) == IF e \in S THEN Append(line, e) ELSE line

\* What the first i entries of the line leave when only those in S are kept.
Kept(line, S) ==
    LET F[i \in 0 .. Len(line)] == IF i = 0 THEN << >> ELSE Keep(F[i - 1], line[i], S)
    IN  F

\* The entries of the line that are in S, in its order.
Only(line, S) == Kept(line, S)[Len(line)]

\* The function that Kept describes exists.
LEMMA KeptIsDefined ==
    ASSUME NEW T, NEW line \in Seq(T), NEW S
    PROVE  Kept(line, S) =
             [i \in 0 .. Len(line) |->
                IF i = 0 THEN << >> ELSE Keep(Kept(line, S)[i - 1], line[i], S)]
  <1> DEFINE Is(F, n) ==
               F = [i \in 0 .. n |-> IF i = 0 THEN << >> ELSE Keep(F[i - 1], line[i], S)]
             D == {n \in Nat : \E F : Is(F, n)}
  <1>1. 0 \in D
    <2>1. Is([i \in 0 .. 0 |-> << >>], 0)
      OBVIOUS
    <2> QED
      BY <2>1, Zenon
  <1>2. ASSUME NEW n \in Nat, n \in D PROVE n + 1 \in D
    <2> PICK F : Is(F, n)
      BY <1>2
    <2> DEFINE G == [i \in 0 .. n + 1 |-> IF i <= n THEN F[i] ELSE Keep(F[i - 1], line[i], S)]
    <2>1. \A i \in 0 .. n : F[i] = IF i = 0 THEN << >> ELSE Keep(F[i - 1], line[i], S)
      OBVIOUS
    <2>2. \A i \in 0 .. n : G[i] = F[i]
      OBVIOUS
    <2>3. \A i \in 0 .. n + 1 : i # 0 => i - 1 \in 0 .. n
      OBVIOUS
    <2>4. \A i \in 0 .. n + 1 : G[i] = IF i = 0 THEN << >> ELSE Keep(G[i - 1], line[i], S)
      <3>1. ASSUME NEW i \in 0 .. n + 1, i # 0 PROVE G[i - 1] = F[i - 1]
        BY <2>2, <2>3, <3>1
      <3>2. \A i \in 0 .. n : G[i] = IF i = 0 THEN << >> ELSE Keep(G[i - 1], line[i], S)
        BY <2>1, <2>2, <3>1
      <3>3. G[n + 1] = Keep(F[n], line[n + 1], S) /\ G[n] = F[n]
        BY <2>2
      <3> QED
        BY <3>2, <3>3
    <2>5. Is(G, n + 1)
      <3> DEFINE H == [i \in 0 .. n + 1 |-> IF i = 0 THEN << >> ELSE Keep(G[i - 1], line[i], S)]
      <3>1. \A i \in 0 .. n + 1 : G[i] = H[i]
        BY <2>4
      <3>2. G = [i \in 0 .. n + 1 |-> G[i]] /\ H = [i \in 0 .. n + 1 |-> H[i]]
        OBVIOUS
      <3> HIDE DEF G, H
      <3>3. G = H
        BY <3>1, <3>2
      <3> QED
        BY <3>3 DEF H
    <2>6. n + 1 \in Nat
      OBVIOUS
    <2> QED
      BY <2>5, <2>6, Zenon
  <1>3. Len(line) \in D
    <2> HIDE DEF D
    <2> QED
      BY <1>1, <1>2, NatSets
  <1>4. Kept(line, S) = CHOOSE F : Is(F, Len(line))
    BY DEF Kept
  <1> QED
    BY <1>3, <1>4, Zenon

\* t is what the first n entries leave when those in S are kept: place says
\* where each entry of t stands in the line.
IsPartOf(t, line, n, S) ==
    \E place \in [1 .. Len(t) -> 1 .. n] :
       /\ \A j \in 1 .. Len(t) : t[j] = line[place[j]] /\ t[j] \in S
       /\ \A j, k \in 1 .. Len(t) : j < k => place[j] < place[k]
       /\ \A i \in 1 .. n : line[i] \in S => \E j \in 1 .. Len(t) : place[j] = i

LEMMA OnlyShape ==
    ASSUME NEW T, NEW line \in Seq(T), NEW S
    PROVE  Only(line, S) \in Seq(T) /\ IsPartOf(Only(line, S), line, Len(line), S)
  <1> DEFINE K == Kept(line, S)
             D == {n \in Nat : n <= Len(line) =>
                                 K[n] \in Seq(T) /\ IsPartOf(K[n], line, n, S)}
  <1>1. \A n \in 0 .. Len(line) : K[n] = IF n = 0 THEN << >> ELSE Keep(K[n - 1], line[n], S)
    BY KeptIsDefined
  <1> HIDE DEF K
  <1>2. 0 \in D
    <2>1. K[0] = << >>
      BY <1>1
    <2>2. << >> \in Seq(T) /\ Len(<< >>) = 0
      OBVIOUS
    <2>3. ASSUME NEW t, Len(t) = 0 PROVE IsPartOf(t, line, 0, S)
      <3>1. 1 .. Len(t) = {} /\ 1 .. 0 = {}
        BY <2>3
      <3>2. [j \in 1 .. Len(t) |-> 0] \in [1 .. Len(t) -> 1 .. 0]
        BY <3>1, Zenon
      <3> QED
        BY <3>1, <3>2, Zenon DEF IsPartOf
    <2> QED
      BY <2>1, <2>2, <2>3
  <1>3. ASSUME NEW n \in Nat, n \in D, n + 1 <= Len(line)
        PROVE  K[n + 1] \in Seq(T) /\ IsPartOf(K[n + 1], line, n + 1, S)
    <2> DEFINE t == K[n]
    <2>1. t \in Seq(T) /\ IsPartOf(t, line, n, S) /\ line[n + 1] \in T
      BY <1>3
    <2>2. K[n + 1] = Keep(t, line[n + 1], S)
      BY <1>1, <1>3
    <2> HIDE DEF t
    <2>3. PICK place \in [1 .. Len(t) -> 1 .. n] :
             /\ \A j \in 1 .. Len(t) : t[j] = line[place[j]] /\ t[j] \in S
             /\ \A j, k \in 1 .. Len(t) : j < k => place[j] < place[k]
             /\ \A i \in 1 .. n : line[i] \in S => \E j \in 1 .. Len(t) : place[j] = i
      BY <2>1 DEF IsPartOf
    <2>4. CASE line[n + 1] \notin S
      <3>1. K[n + 1] = t
        BY <2>2, <2>4 DEF Keep
      <3>2. place \in [1 .. Len(t) -> 1 .. n + 1]
        BY <2>1, <2>3
      <3>3. \A i \in 1 .. n + 1 : line[i] \in S => \E j \in 1 .. Len(t) : place[j] = i
        BY <2>3, <2>4
      <3>4. IsPartOf(t, line, n + 1, S)
        BY <2>3, <3>2, <3>3, Zenon DEF IsPartOf
      <3> QED
        BY <2>1, <3>1, <3>4
    <2>5. CASE line[n + 1] \in S
      <3> DEFINE u == Append(t, line[n + 1])
                 at == [j \in 1 .. Len(t) + 1 |-> IF j <= Len(t) THEN place[j] ELSE n + 1]
      <3>1. K[n + 1] = u
        BY <2>2, <2>5 DEF Keep
      <3>2. /\ u \in Seq(T) /\ Len(u) = Len(t) + 1
            /\ \A j \in 1 .. Len(t) : u[j] = t[j]
            /\ u[Len(t) + 1] = line[n + 1]
        BY <2>1
      <3>3. at \in [1 .. Len(u) -> 1 .. n + 1]
        BY <2>1, <2>3, <3>2
      <3>4. /\ \A j \in 1 .. Len(t) : at[j] = place[j] /\ place[j] \in 1 .. n
            /\ at[Len(t) + 1] = n + 1
        BY <2>1, <2>3
      <3> HIDE DEF u, at
      <3>5. \A j \in 1 .. Len(u) : u[j] = line[at[j]] /\ u[j] \in S
        BY <2>1, <2>3, <2>5, <3>2, <3>4
      <3>6. ASSUME NEW j \in 1 .. Len(u), NEW k \in 1 .. Len(u), j < k PROVE at[j] < at[k]
        <4>1. Len(u) \in Nat /\ Len(t) \in Nat /\ Len(u) = Len(t) + 1
          BY <2>1, <3>2
        <4>2. j \in 1 .. Len(t) /\ at[j] = place[j] /\ place[j] \in 1 .. n
          BY <3>4, <3>6, <4>1
        <4>3. CASE k \in 1 .. Len(t)
          <5>1. at[k] = place[k]
            BY <3>4, <4>3
          <5>2. place[j] < place[k]
            BY <2>3, <3>6, <4>2, <4>3
          <5> QED
            BY <4>2, <5>1, <5>2
        <4>4. CASE k = Len(t) + 1
          BY <3>4, <4>2, <4>4
        <4> QED
          BY <4>1, <4>3, <4>4
      <3>7. \A i \in 1 .. n + 1 : line[i] \in S => \E j \in 1 .. Len(u) : at[j] = i
        <4>1. Len(u) \in Nat /\ Len(t) \in Nat /\ Len(u) = Len(t) + 1
          BY <2>1, <3>2
        <4>2. ASSUME NEW i \in 1 .. n, line[i] \in S PROVE \E j \in 1 .. Len(u) : at[j] = i
          <5>1. PICK j \in 1 .. Len(t) : place[j] = i
            BY <2>3, <4>2
          <5>2. j \in 1 .. Len(u) /\ at[j] = i
            BY <3>4, <4>1, <5>1
          <5> QED
            BY <5>2
        <4>3. \E j \in 1 .. Len(u) : at[j] = n + 1
          BY <3>4, <4>1
        <4>4. \A i \in 1 .. n + 1 : i \in 1 .. n \/ i = n + 1
          OBVIOUS
        <4> QED
          BY <4>2, <4>3, <4>4
      <3>8. IsPartOf(u, line, n + 1, S)
        BY <3>3, <3>5, <3>6, <3>7, Zenon DEF IsPartOf
      <3> QED
        BY <3>1, <3>2, <3>8
    <2> QED
      BY <2>4, <2>5
  <1>4. \A n \in Nat : n \in D => n + 1 \in D
    BY <1>3
  <1>5. Len(line) \in D
    <2> HIDE DEF D
    <2> QED
      BY <1>2, <1>4, NatSets
  <1> QED
    BY <1>5 DEF K, Only

=============================================================================
