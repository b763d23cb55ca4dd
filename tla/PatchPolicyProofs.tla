------------------------- MODULE PatchPolicyProofs -------------------------
(***************************************************************************)
(* Proofs about PatchPolicy, for every policy and for diffs of any length: *)
(* what the loop over the lines makes of a text is what its sections say,  *)
(* so the verdict on a diff is the policy's verdict on its sections.       *)
(***************************************************************************)
EXTENDS PatchPolicy, SequenceTheorems, WellFoundedInduction, TLAPS

-----------------------------------------------------------------------------
\* Induction over the natural numbers, for a set instead of an operator.
LEMMA SetInduction ==
  ASSUME NEW S \in SUBSET Nat, 0 \in S, \A n \in S : n + 1 \in S
  PROVE  S = Nat
<1>. SUFFICES ASSUME Nat \ S # {}
              PROVE  FALSE
  OBVIOUS
<1>1. IsWellFoundedOn(OpToRel(<, Nat), Nat)
  BY NatLessThanWellFounded
<1>2. PICK b \in Nat \ S : \A c \in Nat \ S : ~(<<c, b>> \in OpToRel(<, Nat))
  BY <1>1, WFMin
<1>3. \A c \in Nat \ S : ~(c < b)
  BY <1>2 DEF OpToRel
<1>4. b \in Nat /\ b # 0
  OBVIOUS
<1>5. b - 1 \in Nat /\ b - 1 < b
  BY <1>4
<1>6. b - 1 \in S
  BY <1>3, <1>5
<1>7. (b - 1) + 1 \in S
  BY <1>6
<1>. QED  BY <1>4, <1>7

\* flat[k] is the first k of the sequences put together, for each k up to n.
Joined(longer, front, last) == longer = front \o last
Flattens(flat, seqs, n) ==
  /\ flat[1] = seqs[1]
  /\ \A i \in 2..n : Joined(flat[i], flat[i - 1], seqs[i])

LEMMA FlattenExists ==
  ASSUME NEW E, NEW seqs \in Seq(Seq(E)), seqs # <<>>
  PROVE  \E flat \in [1..Len(seqs) -> Seq(E)] : Flattens(flat, seqs, Len(seqs))
<1>. DEFINE n == Len(seqs)
            S == {k \in Nat : k < n => \E flat \in [1..(k + 1) -> Seq(E)] :
                                          Flattens(flat, seqs, k + 1)}
<1>1. n \in Nat /\ n >= 1 /\ \A i \in 1..n : seqs[i] \in Seq(E)
  OBVIOUS
<1>2. 0 \in S
  <2>1. [i \in 1..1 |-> seqs[1]] \in [1..(0 + 1) -> Seq(E)]
    BY <1>1
  <2>2. Flattens([i \in 1..1 |-> seqs[1]], seqs, 0 + 1)
    BY DEF Flattens
  <2>. QED  BY <2>1, <2>2
<1>3. ASSUME NEW k \in S
      PROVE  k + 1 \in S
  <2>. SUFFICES ASSUME k + 1 < n
                PROVE  \E flat \in [1..(k + 2) -> Seq(E)] : Flattens(flat, seqs, k + 2)
    <3>1. k \in Nat /\ (k + 1) + 1 = k + 2
      OBVIOUS
    <3>. QED  BY <3>1
  <2>1. k \in Nat
    OBVIOUS
  <2>2. PICK flat \in [1..(k + 1) -> Seq(E)] : Flattens(flat, seqs, k + 1)
    BY <2>1, <1>1
  <2>3. k + 2 \in 1..n /\ k + 1 \in 1..(k + 1)
    BY <2>1, <1>1
  <2>4. flat[k + 1] \in Seq(E) /\ seqs[k + 2] \in Seq(E)
    BY <2>3, <1>1
  <2>5. PICK last \in Seq(E) : Joined(last, flat[k + 1], seqs[k + 2])
    BY <2>4, ConcatProperties DEF Joined
  <2>. DEFINE more == [i \in 1..(k + 2) |-> IF i = k + 2 THEN last ELSE flat[i]]
  <2>6. more \in [1..(k + 2) -> Seq(E)]
    BY <2>1
  <2>7. Flattens(more, seqs, k + 2)
    <3>1. \A i \in 1..(k + 1) : more[i] = flat[i]
      BY <2>1
    <3>2. more[1] = seqs[1]
      BY <3>1, <2>1, <2>2 DEF Flattens
    <3>3. \A i \in 2..(k + 1) : Joined(more[i], more[i - 1], seqs[i])
      BY <3>1, <2>1, <2>2 DEF Flattens
    <3>4. more[k + 2] = last /\ (k + 2) - 1 = k + 1 /\ more[k + 1] = flat[k + 1]
      BY <3>1, <2>1
    <3>5. Joined(more[k + 2], more[(k + 2) - 1], seqs[k + 2])
      BY <3>4, <2>5
    <3>6. \A i \in 2..(k + 2) : i \in 2..(k + 1) \/ i = k + 2
      BY <2>1
    <3>. HIDE DEF more
    <3>. QED  BY <3>2, <3>3, <3>5, <3>6 DEF Flattens
  <2>. QED  BY <2>6, <2>7
<1>4. S = Nat
  BY <1>2, <1>3, SetInduction
<1>5. n - 1 \in S /\ (n - 1) + 1 = n /\ n - 1 < n
  BY <1>1, <1>4
<1>. QED  BY <1>5

\* FlattenSeq is such a sequence at its end.
LEMMA FlattenIsLast ==
  ASSUME NEW E, NEW seqs \in Seq(Seq(E)), seqs # <<>>
  PROVE  \E flat : Flattens(flat, seqs, Len(seqs)) /\ FlattenSeq(seqs) = flat[Len(seqs)]
<1>. DEFINE n == Len(seqs)
            Step_(f) == [i \in 1..n |-> IF i = 1 THEN seqs[i] ELSE f[i - 1] \o seqs[i]]
            chosen == CHOOSE f : f = Step_(f)
<1>1. n \in Nat /\ n >= 1 /\ n # 0
  OBVIOUS
<1>2. FlattenSeq(seqs) = chosen[n]
  BY <1>1 DEF FlattenSeq
<1>3. PICK flat \in [1..n -> Seq(E)] : Flattens(flat, seqs, n)
  BY FlattenExists
<1>4. flat = Step_(flat)
  <2>1. \A i \in 1..n : i # 1 => i \in 2..n
    BY <1>1
  <2>2. \A i \in 1..n : flat[i] = IF i = 1 THEN seqs[i] ELSE flat[i - 1] \o seqs[i]
    BY <2>1, <1>3 DEF Flattens, Joined
  <2>. QED  BY <2>2, <1>3
<1>. HIDE DEF Step_
<1>5. chosen = Step_(chosen)
  BY <1>4
<1>. USE DEF Step_
<1>6. \A i \in 1..n : chosen[i] = IF i = 1 THEN seqs[i] ELSE chosen[i - 1] \o seqs[i]
  <2>. HIDE DEF chosen
  <2>. QED  BY <1>5
<1>7. Flattens(chosen, seqs, n)
  <2>1. 1 \in 1..n /\ \A i \in 2..n : i \in 1..n /\ i # 1
    BY <1>1
  <2>. HIDE DEF chosen
  <2>2. chosen[1] = seqs[1]
    BY <2>1, <1>6
  <2>3. \A i \in 2..n : chosen[i] = chosen[i - 1] \o seqs[i]
    BY <2>1, <1>6
  <2>. QED  BY <2>2, <2>3 DEF Flattens, Joined
<1>. QED  BY <1>2, <1>7

\* Where each of the first n sequences begins in the text made of them.
Layout(start, text, seqs, n) ==
  /\ start \in [1..(n + 1) -> Nat] /\ start[1] = 0 /\ Len(text) = start[n + 1]
  /\ \A k \in 1..n : start[k + 1] = start[k] + Len(seqs[k])
  /\ \A k \in 1..n : \A j \in 1..Len(seqs[k]) :
       start[k] + j \in 1..Len(text) /\ text[start[k] + j] = seqs[k][j]
  /\ \A p \in 1..Len(text) :
       \E k \in 1..n : \E j \in 1..Len(seqs[k]) : p = start[k] + j

LEMMA LayoutOfOne ==
  ASSUME NEW E, NEW seqs \in Seq(Seq(E)), seqs # <<>>
  PROVE  \E start : Layout(start, seqs[1], seqs, 1)
<1>. DEFINE start == [i \in 1..2 |-> IF i = 1 THEN 0 ELSE Len(seqs[1])]
<1>1. seqs[1] \in Seq(E)
  OBVIOUS
<1>2. Len(seqs[1]) \in Nat
  BY <1>1
<1>3. start \in [1..(1 + 1) -> Nat] /\ start[1] = 0 /\ start[2] = Len(seqs[1])
  BY <1>2
<1>. HIDE DEF start
<1>4. \A k \in 1..1 : k = 1
  OBVIOUS
<1>5. \A j \in 1..Len(seqs[1]) : start[1] + j = j
  BY <1>3
<1>6. 1 \in 1..1 /\ 1 + 1 = 2
  OBVIOUS
<1>7. Layout(start, seqs[1], seqs, 1)
  BY <1>2, <1>3, <1>4, <1>5, <1>6 DEF Layout
<1>. QED  BY <1>7

LEMMA LayoutOfMore ==
  ASSUME NEW E, NEW seqs \in Seq(Seq(E)), NEW n \in Nat, n + 1 \in 1..Len(seqs),
         NEW text \in Seq(E), NEW start, Layout(start, text, seqs, n),
         NEW longer \in Seq(E), Joined(longer, text, seqs[n + 1])
  PROVE  \E s : Layout(s, longer, seqs, n + 1)
<1>. DEFINE s == [i \in 1..(n + 2) |->
                    IF i = n + 2 THEN start[n + 1] + Len(seqs[n + 1]) ELSE start[i]]
<1>1. seqs[n + 1] \in Seq(E) /\ Len(seqs[n + 1]) \in Nat
  OBVIOUS
<1>2. start \in [1..(n + 1) -> Nat] /\ start[1] = 0 /\ Len(text) = start[n + 1]
  BY DEF Layout
<1>3. /\ Len(longer) = Len(text) + Len(seqs[n + 1])
      /\ \A p \in 1..Len(text) : longer[p] = text[p]
      /\ \A p \in 1..Len(longer) : p > Len(text) => longer[p] = seqs[n + 1][p - Len(text)]
  <2>1. longer = text \o seqs[n + 1]
    BY DEF Joined
  <2>2. Len(longer) = Len(text) + Len(seqs[n + 1])
    BY <2>1, <1>1, ConcatProperties
  <2>3. \A p \in 1..(Len(text) + Len(seqs[n + 1])) :
          longer[p] = IF p <= Len(text) THEN text[p] ELSE seqs[n + 1][p - Len(text)]
    BY <2>1, <1>1, ConcatProperties
  <2>4. Len(text) \in Nat
    OBVIOUS
  <2>5. \A p \in 1..Len(text) : p \in 1..(Len(text) + Len(seqs[n + 1])) /\ p <= Len(text)
    BY <2>4, <1>1
  <2>6. \A p \in 1..Len(longer) : p > Len(text) => ~(p <= Len(text))
    BY <2>4
  <2>. QED  BY <2>2, <2>3, <2>5, <2>6
<1>4. /\ s \in [1..(n + 2) -> Nat]
      /\ \A i \in 1..(n + 1) : s[i] = start[i]
      /\ s[n + 2] = start[n + 1] + Len(seqs[n + 1])
  <2>1. n + 1 \in 1..(n + 1)
    OBVIOUS
  <2>2. start[n + 1] \in Nat
    BY <2>1, <1>2
  <2>3. \A i \in 1..(n + 2) : i # n + 2 => i \in 1..(n + 1)
    OBVIOUS
  <2>. QED  BY <1>1, <1>2, <2>2, <2>3
<1>. HIDE DEF s
<1>5. s[1] = 0 /\ s[n + 1] = Len(text) /\ Len(text) \in Nat
  <2>1. 1 \in 1..(n + 1) /\ n + 1 \in 1..(n + 1)
    OBVIOUS
  <2>. QED  BY <2>1, <1>2, <1>4
<1>6. \A k \in 1..n : k \in 1..(n + 1) /\ k + 1 \in 1..(n + 1)
  OBVIOUS
<1>7. ASSUME NEW k \in 1..(n + 1)
      PROVE  s[k + 1] = s[k] + Len(seqs[k])
  <2>1. CASE k \in 1..n
    BY <2>1, <1>4, <1>6 DEF Layout
  <2>2. CASE k = n + 1
    BY <2>2, <1>2, <1>4, <1>5
  <2>. QED  BY <2>1, <2>2
<1>8. ASSUME NEW k \in 1..(n + 1), NEW j \in 1..Len(seqs[k])
      PROVE  s[k] + j \in 1..Len(longer) /\ longer[s[k] + j] = seqs[k][j]
  <2>1. CASE k \in 1..n
    <3>1. start[k] + j \in 1..Len(text) /\ text[start[k] + j] = seqs[k][j]
      BY <2>1 DEF Layout
    <3>2. s[k] = start[k]
      BY <2>1, <1>4, <1>6
    <3>3. s[k] + j \in 1..Len(longer)
      BY <3>1, <3>2, <1>1, <1>3, <1>5
    <3>. QED  BY <3>1, <3>2, <3>3, <1>3
  <2>2. CASE k = n + 1
    <3>1. j \in 1..Len(seqs[n + 1]) /\ s[k] = Len(text)
      BY <2>2, <1>5
    <3>2. /\ Len(text) + j \in 1..Len(longer) /\ Len(text) + j > Len(text)
          /\ (Len(text) + j) - Len(text) = j
      BY <3>1, <1>1, <1>3, <1>5
    <3>. QED  BY <2>2, <3>1, <3>2, <1>3
  <2>. QED  BY <2>1, <2>2
<1>9. ASSUME NEW p \in 1..Len(longer)
      PROVE  \E k \in 1..(n + 1) : \E j \in 1..Len(seqs[k]) : p = s[k] + j
  <2>1. CASE p \in 1..Len(text)
    <3>1. PICK k \in 1..n : \E j \in 1..Len(seqs[k]) : p = start[k] + j
      BY <2>1 DEF Layout
    <3>. QED  BY <3>1, <1>4, <1>6
  <2>2. CASE p \notin 1..Len(text)
    <3>1. p - Len(text) \in 1..Len(seqs[n + 1]) /\ p = Len(text) + (p - Len(text))
      BY <2>2, <1>1, <1>3, <1>5
    <3>2. n + 1 \in 1..(n + 1)
      OBVIOUS
    <3>. QED  BY <3>1, <3>2, <1>5
  <2>. QED  BY <2>1, <2>2
<1>10. (n + 1) + 1 = n + 2 /\ Len(longer) = s[n + 2]
  BY <1>2, <1>3, <1>4
<1>11. Layout(s, longer, seqs, n + 1)
  BY <1>4, <1>5, <1>7, <1>8, <1>9, <1>10 DEF Layout
<1>. QED  BY <1>11

\* Each line of a flattened text is a line of one of the sequences it is made of.
LEMMA FlattenLayout ==
  ASSUME NEW E, NEW seqs \in Seq(Seq(E)), seqs # <<>>
  PROVE  /\ FlattenSeq(seqs) \in Seq(E)
         /\ \E start : Layout(start, FlattenSeq(seqs), seqs, Len(seqs))
<1>. DEFINE n == Len(seqs)
<1>1. n \in Nat /\ n >= 1 /\ \A i \in 1..n : seqs[i] \in Seq(E)
  OBVIOUS
<1>2. PICK flat : Flattens(flat, seqs, n) /\ FlattenSeq(seqs) = flat[n]
  BY FlattenIsLast
<1>. DEFINE S == {k \in Nat : k < n => /\ flat[k + 1] \in Seq(E)
                                       /\ \E start : Layout(start, flat[k + 1], seqs, k + 1)}
<1>3. 0 \in S
  <2>1. flat[1] = seqs[1] /\ seqs[1] \in Seq(E) /\ 0 + 1 = 1
    BY <1>1, <1>2 DEF Flattens
  <2>. QED  BY <2>1, LayoutOfOne
<1>4. ASSUME NEW k \in S
      PROVE  k + 1 \in S
  <2>0. k \in Nat
    OBVIOUS
  <2>. SUFFICES ASSUME k + 1 < n
                PROVE  /\ flat[k + 2] \in Seq(E)
                       /\ \E start : Layout(start, flat[k + 2], seqs, k + 2)
    <3>1. (k + 1) + 1 = k + 2 /\ k + 1 \in Nat
      BY <2>0
    <3>. QED  BY <3>1
  <2>1. flat[k + 1] \in Seq(E) /\ \E start : Layout(start, flat[k + 1], seqs, k + 1)
    <3>1. k < n
      BY <2>0, <1>1
    <3>. QED  BY <3>1
  <2>2. k + 2 \in 1..n /\ k + 2 \in 2..n /\ (k + 2) - 1 = k + 1 /\ (k + 1) + 1 = k + 2
    BY <2>0, <1>1
  <2>3. Joined(flat[k + 2], flat[k + 1], seqs[k + 2])
    BY <2>2, <1>2 DEF Flattens
  <2>4. flat[k + 2] \in Seq(E)
    BY <2>1, <2>2, <2>3, <1>1, ConcatProperties DEF Joined
  <2>5. PICK start : Layout(start, flat[k + 1], seqs, k + 1)
    BY <2>1
  <2>6. k + 1 \in Nat
    BY <2>0
  <2>. HIDE DEF S
  <2>7. \E s : Layout(s, flat[k + 2], seqs, k + 2)
    BY <2>1, <2>2, <2>3, <2>4, <2>5, <2>6, LayoutOfMore
  <2>. QED  BY <2>4, <2>7
<1>5. S = Nat
  <2>. HIDE DEF S
  <2>1. S \subseteq Nat
    BY DEF S
  <2>. QED  BY <2>1, <1>3, <1>4, SetInduction
<1>6. n - 1 \in S /\ (n - 1) + 1 = n /\ n - 1 < n
  BY <1>1, <1>5
<1>. QED  BY <1>2, <1>6

-----------------------------------------------------------------------------
\* What lies where in two sequences put together.
LEMMA Concatenated ==
  ASSUME NEW E, NEW s \in Seq(E), NEW t \in Seq(E)
  PROVE  /\ s \o t \in Seq(E) /\ Len(s \o t) = Len(s) + Len(t)
         /\ \A i \in 1..Len(s) : (s \o t)[i] = s[i]
         /\ \A j \in 1..Len(t) : (s \o t)[Len(s) + j] = t[j]
<1>1. Len(s) \in Nat /\ Len(t) \in Nat
  OBVIOUS
<1>2. \A i \in 1..Len(s) : i \in 1..(Len(s) + Len(t)) /\ i <= Len(s)
  BY <1>1
<1>3. \A j \in 1..Len(t) : /\ Len(s) + j \in 1..(Len(s) + Len(t)) /\ ~(Len(s) + j <= Len(s))
                           /\ (Len(s) + j) - Len(s) = j
  BY <1>1
<1>4. \A i \in 1..(Len(s) + Len(t)) : (s \o t)[i] = IF i <= Len(s) THEN s[i] ELSE t[i - Len(s)]
  BY ConcatProperties
<1>5. s \o t \in Seq(E) /\ Len(s \o t) = Len(s) + Len(t)
  BY ConcatProperties
<1>. QED  BY <1>2, <1>3, <1>4, <1>5

\* A header, the lines of the file's mode and names, and a hunk: line by line.
LEMMA HeaderBodyHunk ==
  ASSUME NEW E, NEW a \in E, NEW body \in Seq(E), NEW hunk \in Seq(E),
         NEW text, text = <<a>> \o (body \o hunk)
  PROVE  /\ text \in Seq(E) /\ Len(text) = 1 + Len(body) + Len(hunk) /\ text[1] = a
         /\ \A i \in 1..Len(body) : text[1 + i] = body[i]
         /\ \A j \in 1..Len(hunk) : text[1 + Len(body) + j] = hunk[j]
<1>1. PICK s : s = <<a>>
  OBVIOUS
<1>0. Len(s) = 1 /\ s[1] = a
  BY <1>1
<1>10. s \in Seq(E)
  BY <1>1
<1>2. PICK t \in Seq(E) : t = body \o hunk
  BY Concatenated
<1>3. text = s \o t
  BY <1>1, <1>2
<1>4. /\ Len(t) = Len(body) + Len(hunk)
      /\ \A i \in 1..Len(body) : t[i] = body[i]
      /\ \A j \in 1..Len(hunk) : t[Len(body) + j] = hunk[j]
  BY <1>2, Concatenated
<1>5. /\ text \in Seq(E) /\ Len(text) = 1 + Len(t)
      /\ text[1] = a
      /\ \A j \in 1..Len(t) : text[1 + j] = t[j]
  <2>1. 1 \in 1..Len(s)
    BY <1>0
  <2>2. /\ text \in Seq(E) /\ Len(text) = Len(s) + Len(t)
        /\ \A i \in 1..Len(s) : text[i] = s[i]
        /\ \A j \in 1..Len(t) : text[Len(s) + j] = t[j]
    <3>1. /\ s \o t \in Seq(E) /\ Len(s \o t) = Len(s) + Len(t)
          /\ \A i \in 1..Len(s) : (s \o t)[i] = s[i]
          /\ \A j \in 1..Len(t) : (s \o t)[Len(s) + j] = t[j]
      BY <1>10, Concatenated
    <3>. QED  BY <3>1, <1>3
  <2>. QED  BY <2>1, <2>2, <1>0
<1>6. Len(body) \in Nat /\ Len(hunk) \in Nat
  OBVIOUS
<1>7. \A i \in 1..Len(body) : i \in 1..Len(t)
  BY <1>4, <1>6
<1>8. \A j \in 1..Len(hunk) : Len(body) + j \in 1..Len(t) /\ 1 + (Len(body) + j) = 1 + Len(body) + j
  BY <1>4, <1>6
<1>9. Len(text) = 1 + Len(body) + Len(hunk)
  BY <1>4, <1>5, <1>6
<1>. QED  BY <1>4, <1>5, <1>7, <1>8, <1>9

LEMMA LineIsTyped ==
  ASSUME NEW kind \in Kinds, NEW path \in Paths, kind = "diff-git" => path # NoPath
  PROVE  /\ Line(kind, path) \in LineType
         /\ Line(kind, path).kind = kind /\ Line(kind, path).path = path
<1>1. Line(kind, path).kind = kind /\ Line(kind, path).path = path
  BY DEF Line
<1>2. Line(kind, path) \in [kind : Kinds, path : Paths]
  BY DEF Line
<1>. QED  BY <1>1, <1>2 DEF LineType

LEMMA OneLine ==
  ASSUME NEW E, NEW a \in E
  PROVE  <<a>> \in Seq(E) /\ Len(<<a>>) = 1 /\ <<a>>[1] = a
OBVIOUS

LEMMA TwoLines ==
  ASSUME NEW E, NEW a \in E, NEW b \in E
  PROVE  <<a, b>> \in Seq(E) /\ Len(<<a, b>>) = 2 /\ <<a, b>>[1] = a /\ <<a, b>>[2] = b
OBVIOUS

LEMMA ThreeLines ==
  ASSUME NEW E, NEW a \in E, NEW b \in E, NEW c \in E
  PROVE  /\ <<a, b, c>> \in Seq(E) /\ Len(<<a, b, c>>) = 3
         /\ <<a, b, c>>[1] = a /\ <<a, b, c>>[2] = b /\ <<a, b, c>>[3] = c
OBVIOUS

IsMade(s) == s.op \in {"create", "touch"}

\* What line i of what comes before the hunks may be.
Opens(line, s, i) ==
  /\ line \in LineType /\ line.kind \notin {"diff-git", "+danger"}
  /\ line.kind = "new-file" <=> i = 1 /\ IsMade(s)
  /\ line.kind = "deleted-file" <=> i = 1 /\ s.op = "delete"
  /\ line.kind \in {"---", "+++"} => line.path \in {s.path, NoPath}
  /\ line.kind = "+++" /\ s.op # "delete" => line.path = s.path
  /\ i = 1 /\ s.op \in Markers => line.kind = s.op

LEMMA PreambleLines ==
  ASSUME NEW s \in SectionType
  PROVE  /\ Preamble(s) \in Seq(LineType) /\ Len(Preamble(s)) >= 1
         /\ \A i \in 1..Len(Preamble(s)) : Opens(Preamble(s)[i], s, i)
<1>. DEFINE P == Preamble(s)
            p == s.path
<1>1. p \in Paths /\ p # NoPath /\ NoPath \in Paths
  BY DEF SectionType, NoPath, Paths
<1>2. \A k \in {"---", "+++", "new-file", "deleted-file"} \cup Markers : \A q \in {p, NoPath} :
        Line(k, q) \in LineType /\ Line(k, q).kind = k /\ Line(k, q).path = q
  <2>1. \A k \in {"---", "+++", "new-file", "deleted-file"} \cup Markers :
          k \in Kinds /\ k # "diff-git"
    BY DEF Kinds, Markers
  <2>. QED  BY <1>1, <2>1, LineIsTyped
<1>3. CASE s.op = "edit"
  <2>1. PICK a \in LineType, b \in LineType : a = Line("---", p) /\ b = Line("+++", p)
    BY <1>2
  <2>2. P = <<a, b>>
    BY <1>3, <2>1 DEF Preamble
  <2>3. P \in Seq(LineType) /\ Len(P) = 2 /\ P[1] = a /\ P[2] = b
    BY <2>2, TwoLines
  <2>4. Opens(a, s, 1)
    BY <1>2, <1>3, <2>1 DEF Opens, IsMade, Markers
  <2>5. Opens(b, s, 2)
    BY <1>2, <1>3, <2>1 DEF Opens, IsMade, Markers
  <2>6. \A i \in 1..Len(P) : i = 1 \/ i = 2
    BY <2>3
  <2>. HIDE DEF P
  <2>. QED  BY <2>3, <2>4, <2>5, <2>6 DEF P
<1>4. CASE s.op = "create"
  <2>1. PICK a \in LineType, b \in LineType, c \in LineType :
          a = Line("new-file", NoPath) /\ b = Line("---", NoPath) /\ c = Line("+++", p)
    BY <1>2
  <2>2. P = <<a, b, c>>
    BY <1>4, <2>1 DEF Preamble
  <2>3. P \in Seq(LineType) /\ Len(P) = 3 /\ P[1] = a /\ P[2] = b /\ P[3] = c
    BY <2>2, ThreeLines
  <2>4. Opens(a, s, 1)
    BY <1>2, <1>4, <2>1 DEF Opens, IsMade, Markers
  <2>5. Opens(b, s, 2)
    BY <1>2, <1>4, <2>1 DEF Opens, IsMade, Markers
  <2>6. Opens(c, s, 3)
    BY <1>2, <1>4, <2>1 DEF Opens, IsMade, Markers
  <2>7. \A i \in 1..Len(P) : i = 1 \/ i = 2 \/ i = 3
    BY <2>3
  <2>. HIDE DEF P
  <2>. QED  BY <2>3, <2>4, <2>5, <2>6, <2>7 DEF P
<1>5. CASE s.op = "delete"
  <2>1. PICK a \in LineType, b \in LineType, c \in LineType :
          a = Line("deleted-file", NoPath) /\ b = Line("---", p) /\ c = Line("+++", NoPath)
    BY <1>2
  <2>2. P = <<a, b, c>>
    BY <1>5, <2>1 DEF Preamble
  <2>3. P \in Seq(LineType) /\ Len(P) = 3 /\ P[1] = a /\ P[2] = b /\ P[3] = c
    BY <2>2, ThreeLines
  <2>4. Opens(a, s, 1)
    BY <1>2, <1>5, <2>1 DEF Opens, IsMade, Markers
  <2>5. Opens(b, s, 2)
    BY <1>2, <1>5, <2>1 DEF Opens, IsMade, Markers
  <2>6. Opens(c, s, 3)
    BY <1>2, <1>5, <2>1 DEF Opens, IsMade, Markers
  <2>7. \A i \in 1..Len(P) : i = 1 \/ i = 2 \/ i = 3
    BY <2>3
  <2>. HIDE DEF P
  <2>. QED  BY <2>3, <2>4, <2>5, <2>6, <2>7 DEF P
<1>6. CASE s.op \in Markers \cup {"touch"}
  <2>. DEFINE k == IF s.op = "touch" THEN "new-file" ELSE s.op
  <2>1. PICK a \in LineType : a = Line(k, NoPath) /\ a.kind = k
    BY <1>2, <1>6
  <2>2. P = <<a>>
    BY <1>6, <2>1 DEF Preamble, Markers
  <2>3. P \in Seq(LineType) /\ Len(P) = 1 /\ P[1] = a
    BY <2>2, OneLine
  <2>4. Opens(a, s, 1)
    BY <1>6, <2>1 DEF Opens, IsMade, Markers
  <2>5. \A i \in 1..Len(P) : i = 1
    BY <2>3
  <2>. HIDE DEF P
  <2>. QED  BY <2>3, <2>4, <2>5 DEF P
<1>7. s.op \in {"edit", "create", "delete", "touch"} \cup Markers
  BY DEF SectionType, Markers
<1>. QED  BY <1>3, <1>4, <1>5, <1>6, <1>7

\* What line j of a section's text may be, after its header.
Tells(line, s, j) ==
  /\ line \in LineType /\ line.kind # "diff-git"
  /\ line.kind = "new-file" <=> j = 2 /\ IsMade(s)
  /\ line.kind = "deleted-file" <=> j = 2 /\ s.op = "delete"
  /\ line.kind \in {"---", "+++"} => line.path \in HeaderNames(s) \cup {NoPath}

LEMMA HunkLines ==
  ASSUME NEW s \in SectionType
  PROVE  /\ s.hunk \in Seq(LineType) /\ DOMAIN s.hunk = 1..Len(s.hunk) /\ Len(s.hunk) \in Nat
         /\ \A i \in 1..Len(s.hunk) : s.hunk[i] \in LineType /\ s.hunk[i].kind \in HunkKinds
<1>1. s.hunk \in Seq(HunkLine)
  BY DEF SectionType
<1>2. \A i \in 1..Len(s.hunk) : s.hunk[i] \in HunkLine
  BY <1>1
<1>3. \A line \in HunkLine : line \in LineType /\ line.kind \in HunkKinds
  BY DEF HunkLine
<1>4. DOMAIN s.hunk = 1..Len(s.hunk) /\ Len(s.hunk) \in Nat
  BY <1>1
<1>5. s.hunk \in Seq(LineType)
  BY <1>1, <1>3 DEF HunkLine
<1>. QED  BY <1>2, <1>3, <1>4, <1>5

LEMMA RenderedLayout ==
  ASSUME NEW s \in SectionType
  PROVE  /\ Rendered(s) \in Seq(LineType)
         /\ Len(Rendered(s)) = 1 + Len(Preamble(s)) + Len(s.hunk)
         /\ Rendered(s)[1] = Header(s.path)
         /\ \A i \in 1..Len(Preamble(s)) : Rendered(s)[1 + i] = Preamble(s)[i]
         /\ \A i \in 1..Len(s.hunk) : Rendered(s)[1 + Len(Preamble(s)) + i] = s.hunk[i]
<1>1. Header(s.path) \in LineType
  <2>1. s.path \in Paths /\ s.path # NoPath
    BY DEF SectionType
  <2>2. "diff-git" \in Kinds
    BY DEF Kinds
  <2>. QED  BY <2>1, <2>2, LineIsTyped DEF Header
<1>2. PICK P \in Seq(LineType) : P = Preamble(s)
  BY PreambleLines
<1>3. PICK h \in Seq(LineType) : h = s.hunk
  BY HunkLines
<1>4. PICK R : R = Rendered(s)
  OBVIOUS
<1>5. R = <<Header(s.path)>> \o (P \o h)
  BY <1>2, <1>3, <1>4 DEF Rendered
<1>6. /\ R \in Seq(LineType) /\ Len(R) = 1 + Len(P) + Len(h) /\ R[1] = Header(s.path)
      /\ \A i \in 1..Len(P) : R[1 + i] = P[i]
      /\ \A j \in 1..Len(h) : R[1 + Len(P) + j] = h[j]
  BY <1>1, <1>5, HeaderBodyHunk
<1>. QED  BY <1>2, <1>3, <1>4, <1>6

\* Where the hunks of a section begin in its text, after line b.
LEMMA SectionLines ==
  ASSUME NEW s \in SectionType
  PROVE  \E b \in Nat :
           /\ b >= 2 /\ Len(Rendered(s)) \in Nat /\ Len(Rendered(s)) = b + Len(s.hunk)
           /\ Len(s.hunk) \in Nat /\ DOMAIN s.hunk = 1..Len(s.hunk)
           /\ Rendered(s)[1].kind = "diff-git"
           /\ \A k \in 2..b : Opens(Rendered(s)[k], s, k - 1)
           /\ \A i \in DOMAIN s.hunk :
                b + i \in 1..Len(Rendered(s)) /\ Rendered(s)[b + i] = s.hunk[i]
           /\ \A k \in 1..Len(Rendered(s)) :
                k > b => k - b \in DOMAIN s.hunk /\ Rendered(s)[k] = s.hunk[k - b]
<1>1. PICK R : R = Rendered(s)
  OBVIOUS
<1>2. PICK P : P = Preamble(s)
  OBVIOUS
<1>3. PICK h : h = s.hunk
  OBVIOUS
<1>4. /\ P \in Seq(LineType) /\ Len(P) >= 1
      /\ \A i \in 1..Len(P) : Opens(P[i], s, i)
  BY <1>2, PreambleLines
<1>5. h \in Seq(LineType) /\ DOMAIN h = 1..Len(h) /\ Len(h) \in Nat
  BY <1>3, HunkLines
<1>6. /\ R \in Seq(LineType) /\ Len(R) = 1 + Len(P) + Len(h) /\ R[1] = Header(s.path)
      /\ \A i \in 1..Len(P) : R[1 + i] = P[i]
      /\ \A i \in 1..Len(h) : R[1 + Len(P) + i] = h[i]
  BY <1>1, <1>2, <1>3, RenderedLayout
<1>7. PICK b \in Nat : b = 1 + Len(P) /\ b >= 2
  BY <1>4
<1>8. Len(R) \in Nat /\ Len(R) = b + Len(h)
  BY <1>6, <1>7
<1>9. R[1].kind = "diff-git"
  BY <1>6 DEF Header, Line
<1>10. ASSUME NEW k \in 2..b
       PROVE  Opens(R[k], s, k - 1)
  <2>1. k - 1 \in 1..Len(P) /\ 1 + (k - 1) = k
    BY <1>4, <1>7
  <2>2. R[1 + (k - 1)] = P[k - 1] /\ Opens(P[k - 1], s, k - 1)
    BY <1>4, <1>6, <2>1
  <2>. QED  BY <2>1, <2>2
<1>11. ASSUME NEW i \in DOMAIN h
       PROVE  b + i \in 1..Len(R) /\ R[b + i] = h[i]
  <2>1. i \in 1..Len(h) /\ b + i \in 1..Len(R)
    BY <1>5, <1>7, <1>8
  <2>2. R[1 + Len(P) + i] = h[i]
    BY <1>6, <2>1
  <2>. QED  BY <1>7, <2>1, <2>2
<1>12. ASSUME NEW k \in 1..Len(R), k > b
       PROVE  k - b \in DOMAIN h /\ R[k] = h[k - b]
  <2>1. k - b \in DOMAIN h /\ b + (k - b) = k
    BY <1>5, <1>7, <1>8, <1>12
  <2>. QED  BY <1>11, <2>1
<1>. QED  BY <1>1, <1>3, <1>5, <1>7, <1>8, <1>9, <1>10, <1>11, <1>12

LEMMA RenderedLines ==
  ASSUME NEW s \in SectionType
  PROVE  /\ Rendered(s) \in Seq(LineType) /\ Len(Rendered(s)) >= 2
         /\ Rendered(s)[1] = Header(s.path)
         /\ \A j \in 2..Len(Rendered(s)) : Tells(Rendered(s)[j], s, j)
<1>. DEFINE R == Rendered(s)
<1>1. R \in Seq(LineType) /\ R[1] = Header(s.path)
  BY RenderedLayout
<1>2. PICK b \in Nat :
        /\ b >= 2 /\ Len(R) \in Nat /\ Len(R) = b + Len(s.hunk) /\ Len(s.hunk) \in Nat
        /\ \A k \in 2..b : Opens(R[k], s, k - 1)
        /\ \A k \in 1..Len(R) : k > b => k - b \in DOMAIN s.hunk /\ R[k] = s.hunk[k - b]
  BY SectionLines
<1>. HIDE DEF R
<1>3. ASSUME NEW j \in 2..Len(R)
      PROVE  Tells(R[j], s, j)
  <2>1. CASE j <= b
    <3>1. Opens(R[j], s, j - 1) /\ (j = 2 <=> j - 1 = 1)
      BY <1>2, <2>1
    <3>. QED  BY <3>1 DEF Opens, Tells, HeaderNames
  <2>2. CASE j > b
    <3>1. PICK i \in DOMAIN s.hunk : R[j] = s.hunk[i]
      <4>1. j \in 1..Len(R)
        BY <1>2
      <4>. QED  BY <1>2, <2>2, <4>1
    <3>2. s.hunk[i] \in LineType /\ s.hunk[i].kind \in HunkKinds /\ j # 2
      BY <1>2, <2>2, HunkLines
    <3>3. s.hunk[i].kind \in {"---", "+++"} => s.hunk[i].path \in HeaderNames(s) \cup {NoPath}
      BY DEF HeaderNames
    <3>. QED  BY <3>1, <3>2, <3>3 DEF Tells, HunkKinds
  <2>. QED  BY <1>2, <2>1, <2>2
<1>4. Len(R) >= 2
  BY <1>2
<1>. QED  BY <1>1, <1>3, <1>4 DEF R

-----------------------------------------------------------------------------
\* The texts of the sections of a diff.
Texts(s) == [i \in DOMAIN s |-> Rendered(s[i])]

LEMMA TextsOf ==
  ASSUME NEW s \in Seq(Sections), s # <<>>
  PROVE  /\ Texts(s) \in Seq(Seq(LineType)) /\ Texts(s) # <<>> /\ Len(Texts(s)) = Len(s)
         /\ DOMAIN s = 1..Len(s) /\ Len(s) \in Nat /\ Len(s) >= 1
         /\ \A k \in 1..Len(s) : s[k] \in SectionType /\ Texts(s)[k] = Rendered(s[k])
<1>1. DOMAIN s = 1..Len(s) /\ Len(s) \in Nat /\ Len(s) >= 1
  OBVIOUS
<1>2. \A k \in 1..Len(s) : s[k] \in SectionType
  BY PatchPolicyAssumption
<1>3. \A k \in 1..Len(s) : Texts(s)[k] = Rendered(s[k]) /\ Rendered(s[k]) \in Seq(LineType)
  BY <1>1, <1>2, RenderedLines DEF Texts
<1>4. Texts(s) = [i \in 1..Len(s) |-> Rendered(s[i])]
  BY <1>1 DEF Texts
<1>5. Texts(s) \in Seq(Seq(LineType)) /\ Len(Texts(s)) = Len(s)
  BY <1>1, <1>3, <1>4, IsASeq
<1>6. Texts(s) # <<>>
  BY <1>1, <1>5
<1>. QED  BY <1>1, <1>2, <1>3, <1>5, <1>6

LEMMA InitialText ==
  ASSUME Init
  PROVE  /\ sections \in Seq(Sections) /\ lines \in Seq(LineType)
         /\ sections = <<>> => lines \in Malformed
         /\ sections # <<>> => \E start : Layout(start, lines, Texts(sections), Len(sections))
<1>1. CASE sections = <<>> /\ lines \in Malformed
  BY <1>1, PatchPolicyAssumption
<1>2. CASE sections \in SeqOf(Sections, MaxSections) \ {<<>>} /\ lines = FlattenSeq(Texts(sections))
  <2>1. sections \in Seq(Sections) /\ sections # <<>>
    <3>1. PICK m \in 0..MaxSections : sections \in [1..m -> Sections]
      BY <1>2 DEF SeqOf
    <3>2. m \in Nat
      BY PatchPolicyAssumption
    <3>. QED  BY <1>2, <3>1, <3>2, SeqDef
  <2>2. /\ Texts(sections) \in Seq(Seq(LineType)) /\ Texts(sections) # <<>>
        /\ Len(Texts(sections)) = Len(sections)
    BY <2>1, TextsOf
  <2>. QED  BY <1>2, <2>1, <2>2, FlattenLayout
<1>3. \/ sections = <<>> /\ lines \in Malformed
      \/ sections \in SeqOf(Sections, MaxSections) \ {<<>>} /\ lines = FlattenSeq(Texts(sections))
  BY DEF Init, Texts
<1>. QED  BY <1>1, <1>2, <1>3

-----------------------------------------------------------------------------
LEMMA EffectIsTyped ==
  ASSUME NEW line \in LineType, NEW c \in ChangeType
  PROVE  Effect(line, c) \in ChangeType
<1>. USE DEF ChangeType, Effect
<1>1. line.path \in Paths
  BY DEF LineType
<1>2. Either(line.path, Either(c.old, c.path)) \in Paths \ {NoPath}
  BY <1>1 DEF Either
<1>3. CASE line.kind \notin {"new-file", "deleted-file", "---", "+++", "+danger"}
  BY <1>3
<1>4. CASE line.kind \in {"new-file", "deleted-file", "+danger"}
  BY <1>4
<1>5. CASE line.kind = "---"
  BY <1>1, <1>5
<1>6. CASE line.kind = "+++"
  BY <1>1, <1>2, <1>6
<1>. QED  BY <1>3, <1>4, <1>5, <1>6

LEMMA TargetIsPath ==
  ASSUME NEW c \in ChangeType
  PROVE  Target(c) \in Paths \ {NoPath}
BY DEF Target, Either, ChangeType

ErrorKinds == Final \cup {"not-unified", "empty", "too-many", "outside"}

LEMMA PathErrorsAreTyped == \A p : PathErrors(p) \subseteq {"outside", "editing"}
BY DEF PathErrors

LEMMA ContentErrorsAreTyped ==
  \A c, p : ContentErrors(c, p) \subseteq {"danger", "new-test", "new-source", "missing", "test-edit"}
BY DEF ContentErrors

LEMMA TypeInit == Init => TypeOK
<1>. SUFFICES ASSUME Init
              PROVE  TypeOK
  OBVIOUS
<1>1. sections \in Seq(Sections) /\ lines \in Seq(LineType)
  BY InitialText
<1>2. <<>> \in Seq(ChangeType) /\ <<>> \in Seq(Paths)
  OBVIOUS
<1>3. /\ config \in Configs /\ pc = "text" /\ at = 1 /\ changes = <<>> /\ errors = {}
      /\ retry = FALSE /\ files = <<>> /\ created = <<>> /\ deleted = <<>>
  BY DEF Init
<1>4. changes \in Seq(ChangeType)
  BY <1>2, <1>3
<1>5. files \in Seq(Paths) /\ created \in Seq(Paths) /\ deleted \in Seq(Paths)
  BY <1>2, <1>3
<1>6. pc \in {"text", "parse", "judge", "done"} /\ at \in Nat \ {0}
  BY <1>3
<1>8. retry \in BOOLEAN
  BY <1>3
<1>7. errors \subseteq Final \cup {"not-unified", "empty", "too-many", "outside"}
  BY <1>3
<1>. QED  BY <1>1, <1>3, <1>4, <1>5, <1>6, <1>7, <1>8 DEF TypeOK

LEMMA TypeNext == TypeOK /\ [Next]_vars => TypeOK'
<1>. SUFFICES ASSUME TypeOK, [Next]_vars
              PROVE  TypeOK'
  OBVIOUS
<1>. USE DEF TypeOK
<1>1. CASE CheckText
  <2>1. errors' \subseteq ErrorKinds
    BY <1>1 DEF CheckText, ErrorKinds, Final
  <2>2. retry' \in BOOLEAN
    BY <1>1 DEF CheckText
  <2>. QED  BY <1>1, <2>1, <2>2 DEF CheckText, ErrorKinds
<1>2. CASE ParseLine
  <2>1. lines[at] \in LineType /\ at' \in Nat \ {0}
    BY <1>2 DEF ParseLine
  <2>2. changes' \in Seq(ChangeType)
    <3>1. CASE lines[at].kind = "diff-git"
      <4>1. lines[at].path \in Paths \ {NoPath}
        BY <2>1, <3>1 DEF LineType
      <4>2. Change(lines[at].path) \in ChangeType
        BY <4>1 DEF Change, ChangeType
      <4>3. changes' = Append(changes, Change(lines[at].path))
        BY <1>2, <3>1 DEF ParseLine
      <4>. QED  BY <4>2, <4>3, AppendProperties
    <3>2. CASE lines[at].kind # "diff-git" /\ changes = <<>>
      BY <1>2, <3>2 DEF ParseLine
    <3>3. CASE lines[at].kind # "diff-git" /\ changes # <<>>
      <4>1. changes' = [changes EXCEPT ![Len(changes)] = Effect(lines[at], @)]
        BY <1>2, <3>3 DEF ParseLine
      <4>2. Len(changes) \in 1..Len(changes) /\ changes[Len(changes)] \in ChangeType
        BY <3>3
      <4>3. Effect(lines[at], changes[Len(changes)]) \in ChangeType
        BY <2>1, <4>2, EffectIsTyped
      <4>. QED  BY <4>1, <4>2, <4>3, ExceptSeq
    <3>. QED  BY <3>1, <3>2, <3>3
  <2>. QED  BY <1>2, <2>1, <2>2 DEF ParseLine, result
<1>3. CASE CheckCount
  <2>1. errors' \subseteq ErrorKinds
    BY <1>3 DEF CheckCount, ErrorKinds
  <2>2. retry' \in BOOLEAN
    BY <1>3 DEF CheckCount
  <2>. QED  BY <1>3, <2>1, <2>2 DEF CheckCount, ErrorKinds
<1>. DEFINE Here == at \in 1..Len(changes) /\ judged \in Paths
<1>4. Judging => Here /\ at' \in Nat \ {0}
  <2>1. Judging => at \in 1..Len(changes) /\ at' \in Nat \ {0}
    BY DEF Judging
  <2>. QED  BY <2>1, TargetIsPath DEF judged
<1>5. CASE RefusePath
  <2>1. errors' \subseteq ErrorKinds
    BY <1>5, PathErrorsAreTyped DEF RefusePath, ErrorKinds, Final
  <2>. QED  BY <1>4, <1>5, <2>1 DEF RefusePath, ErrorKinds
<1>6. CASE RefuseReproduction
  <2>1. errors' \subseteq ErrorKinds
    BY <1>6 DEF RefuseReproduction, ErrorKinds, Final
  <2>. QED  BY <1>4, <1>6, <2>1 DEF RefuseReproduction, ErrorKinds
<1>7. CASE RefuseDeletion
  <2>1. errors' \subseteq ErrorKinds
    BY <1>7 DEF RefuseDeletion, ErrorKinds, Final
  <2>2. files' \in Seq(Paths) /\ deleted' \in Seq(Paths)
    BY <1>4, <1>7, AppendProperties DEF RefuseDeletion
  <2>. QED  BY <1>4, <1>7, <2>1, <2>2 DEF RefuseDeletion, ErrorKinds
<1>8. CASE Judge
  <2>1. errors' \subseteq ErrorKinds
    BY <1>8, ContentErrorsAreTyped DEF Judge, ErrorKinds, Final
  <2>2. files' \in Seq(Paths) /\ created' \in Seq(Paths)
    BY <1>4, <1>8, AppendProperties DEF Judge
  <2>. QED  BY <1>4, <1>8, <2>1, <2>2 DEF Judge, ErrorKinds
<1>9. CASE Conclude
  BY <1>9 DEF Conclude
<1>10. CASE UNCHANGED vars
  BY <1>10 DEF vars, result
<1>. QED  BY <1>1, <1>2, <1>3, <1>5, <1>6, <1>7, <1>8, <1>9, <1>10 DEF Next

\* Every change the parser records has a path, whatever the lines of the text are
\* and in whatever order they come (patch_parser.py:25-63).
THEOREM Typing == Spec => []TypeOK
<1>1. Init => TypeOK
  BY TypeInit
<1>2. TypeOK /\ [Next]_vars => TypeOK'
  BY TypeNext
<1>. QED  BY <1>1, <1>2, PTL DEF Spec

-----------------------------------------------------------------------------
\* The lines i of the first j of section s of a kind, and the last that names a file.
Lies(s, j, kind) == {i \in 1..j : Rendered(s)[i].kind = kind}
NamedBy(new, s, j) ==
  \/ Lies(s, j, "+++") = {} /\ new = s.path
  \/ \E i \in Lies(s, j, "+++") :
       new = Rendered(s)[i].path /\ \A k \in Lies(s, j, "+++") : k <= i

\* The change c is what the first j lines of section s say.
Reads(c, s, j) ==
  /\ c.path \in HeaderNames(s) \cup {NoPath} /\ c.old \in HeaderNames(s) \cup {NoPath}
  /\ NamedBy(c.new, s, j)
  /\ c.isNew <=> IsMade(s) /\ j >= 2
  /\ c.isDeleted <=> s.op = "delete" /\ j >= 2
  /\ c.danger <=> Lies(s, j, "+danger") # {}

Said(c, s) == Reads(c, s, Len(Rendered(s)))

\* Where the parser is, in a text whose sections begin at `start`: it has read all
\* of the sections before the last change it knows, and j lines of that one.
Reading(start) ==
  \/ changes = <<>> /\ at = 1
  \/ /\ Len(changes) \in 1..Len(sections)
     /\ \E j \in 1..Len(Rendered(sections[Len(changes)])) :
          /\ at = start[Len(changes)] + j + 1
          /\ Reads(changes[Len(changes)], sections[Len(changes)], j)
     /\ \A k \in 1..(Len(changes) - 1) : Said(changes[k], sections[k])

ReadInv ==
  /\ sections = <<>> => lines \in Malformed /\ changes = <<>>
  /\ sections # <<>> =>
       \E start :
         /\ Layout(start, lines, Texts(sections), Len(sections))
         /\ pc = "text" => changes = <<>> /\ at = 1
         /\ pc = "parse" => Reading(start)
         /\ pc \in {"judge", "done"} =>
              /\ Len(changes) = Len(sections)
              /\ \A k \in 1..Len(sections) : Said(changes[k], sections[k])

\* The first line of a section begins its change.
LEMMA HeaderReads ==
  ASSUME NEW s \in SectionType
  PROVE  Reads(Change(s.path), s, 1)
<1>1. Rendered(s)[1].kind = "diff-git"
  <2>1. Rendered(s)[1] = Header(s.path)
    BY RenderedLines
  <2>. QED  BY <2>1 DEF Header, Line
<1>2. Lies(s, 1, "+++") = {} /\ Lies(s, 1, "+danger") = {}
  BY <1>1 DEF Lies
<1>3. s.path \in HeaderNames(s)
  BY DEF HeaderNames
<1>. QED  BY <1>2, <1>3 DEF Reads, NamedBy, Change

\* One line more of a kind, or none.
LEMMA OneMoreLies ==
  ASSUME NEW s, NEW j \in Nat, 1 <= j, NEW kind
  PROVE  Lies(s, j + 1, kind) =
           Lies(s, j, kind) \cup (IF Rendered(s)[j + 1].kind = kind THEN {j + 1} ELSE {})
BY DEF Lies

\* Each further line adds what it tells.
LEMMA EffectReads ==
  ASSUME NEW s \in SectionType, NEW c \in ChangeType, NEW j \in Nat,
         1 <= j, j + 1 <= Len(Rendered(s)), Reads(c, s, j),
         NEW line, line = Rendered(s)[j + 1], Tells(line, s, j + 1)
  PROVE  Reads(Effect(line, c), s, j + 1)
<1>. DEFINE d == Effect(line, c)
            any == HeaderNames(s) \cup {NoPath}
<1>1. \A kind : Lies(s, j + 1, kind) = Lies(s, j, kind) \cup (IF line.kind = kind THEN {j + 1} ELSE {})
  BY OneMoreLies
<1>2. d.old \in any
  <2>1. d.old = IF line.kind = "---" THEN line.path ELSE c.old
    BY DEF Effect, ChangeType
  <2>. QED  BY <2>1 DEF Tells, Reads
<1>3. d.path \in any
  <2>1. d.path = IF line.kind = "+++" THEN Either(line.path, Either(c.old, c.path)) ELSE c.path
    BY DEF Effect, ChangeType
  <2>. QED  BY <2>1 DEF Tells, Reads, Either
<1>4. NamedBy(d.new, s, j + 1)
  <2>1. CASE line.kind = "+++"
    <3>1. d.new = line.path
      BY <2>1 DEF Effect, ChangeType
    <3>2. j + 1 \in Lies(s, j + 1, "+++")
      BY <1>1, <2>1
    <3>3. \A k \in Lies(s, j + 1, "+++") : k <= j + 1
      BY DEF Lies
    <3>. QED  BY <3>1, <3>2, <3>3 DEF NamedBy
  <2>2. CASE line.kind # "+++"
    <3>1. d.new = c.new
      BY <2>2 DEF Effect, ChangeType
    <3>2. Lies(s, j + 1, "+++") = Lies(s, j, "+++")
      BY <1>1, <2>2
    <3>. QED  BY <3>1, <3>2 DEF NamedBy, Reads
  <2>. QED  BY <2>1, <2>2
<1>5. d.isNew <=> IsMade(s) /\ j + 1 >= 2
  <2>1. d.isNew = IF line.kind = "new-file" THEN TRUE ELSE c.isNew
    BY DEF Effect, ChangeType
  <2>. QED  BY <2>1 DEF Tells, Reads
<1>6. d.isDeleted <=> s.op = "delete" /\ j + 1 >= 2
  <2>1. d.isDeleted = IF line.kind = "deleted-file" THEN TRUE ELSE c.isDeleted
    BY DEF Effect, ChangeType
  <2>. QED  BY <2>1 DEF Tells, Reads
<1>7. d.danger <=> Lies(s, j + 1, "+danger") # {}
  <2>1. d.danger = IF line.kind = "+danger" THEN TRUE ELSE c.danger
    BY DEF Effect, ChangeType
  <2>. QED  BY <1>1, <2>1 DEF Reads
<1>. HIDE DEF d
<1>8. Reads(d, s, j + 1)
  BY <1>2, <1>3, <1>4, <1>5, <1>6, <1>7 DEF Reads
<1>. QED  BY <1>8 DEF d

\* What the loop that judges reads off a change.
LEMMA SaidFields ==
  ASSUME NEW s \in SectionType, NEW c, Said(c, s)
  PROVE  /\ c.isNew <=> IsMade(s)
         /\ c.isDeleted <=> s.op = "delete"
         /\ c.danger <=> \E i \in DOMAIN s.hunk : s.hunk[i].kind = "+danger"
<1>1. PICK n \in Nat, b \in Nat :
        /\ b >= 2 /\ n = Len(Rendered(s)) /\ n = b + Len(s.hunk) /\ Len(s.hunk) \in Nat
        /\ Rendered(s)[1].kind = "diff-git"
        /\ \A k \in 2..b : Opens(Rendered(s)[k], s, k - 1)
        /\ \A i \in DOMAIN s.hunk : b + i \in 1..n /\ Rendered(s)[b + i] = s.hunk[i]
        /\ \A k \in 1..n : k > b => k - b \in DOMAIN s.hunk /\ Rendered(s)[k] = s.hunk[k - b]
  BY SectionLines
<1>2. Reads(c, s, n)
  BY <1>1 DEF Said
<1>3. (c.isNew <=> IsMade(s)) /\ (c.isDeleted <=> s.op = "delete")
  BY <1>1, <1>2 DEF Reads
<1>4. c.danger <=> Lies(s, n, "+danger") # {}
  BY <1>2 DEF Reads
<1>5. ASSUME NEW i \in DOMAIN s.hunk, s.hunk[i].kind = "+danger"
      PROVE  Lies(s, n, "+danger") # {}
  <2>1. b + i \in Lies(s, n, "+danger")
    BY <1>1, <1>5 DEF Lies
  <2>. QED  BY <2>1
<1>6. ASSUME NEW k \in Lies(s, n, "+danger")
      PROVE  \E i \in DOMAIN s.hunk : s.hunk[i].kind = "+danger"
  <2>1. k \in 1..n /\ Rendered(s)[k].kind = "+danger"
    BY DEF Lies
  <2>2. k > b
    <3>1. k # 1
      BY <1>1, <2>1
    <3>2. k \notin 2..b
      BY <1>1, <2>1 DEF Opens
    <3>. QED  BY <2>1, <3>1, <3>2
  <2>. QED  BY <1>1, <2>1, <2>2
<1>. QED  BY <1>3, <1>4, <1>5, <1>6

\* The file a change is judged by is one that its section names.
LEMMA TargetIsNamed ==
  ASSUME NEW s \in SectionType, NEW c \in ChangeType, Said(c, s)
  PROVE  \E p \in Names(s) : s.op # "delete" => p = Target(c)
<1>1. PICK n \in Nat, b \in Nat :
        /\ b >= 2 /\ n = Len(Rendered(s)) /\ n = b + Len(s.hunk) /\ Len(s.hunk) \in Nat
        /\ DOMAIN s.hunk = 1..Len(s.hunk)
        /\ Rendered(s)[1].kind = "diff-git"
        /\ \A k \in 2..b : Opens(Rendered(s)[k], s, k - 1)
        /\ \A i \in DOMAIN s.hunk : b + i \in 1..n /\ Rendered(s)[b + i] = s.hunk[i]
        /\ \A k \in 1..n : k > b => k - b \in DOMAIN s.hunk /\ Rendered(s)[k] = s.hunk[k - b]
  BY SectionLines
<1>. DEFINE L == Lies(s, n, "+++")
<1>2. s.path # NoPath /\ s.path \in HeaderNames(s) /\ c.path # NoPath /\ NoPath \notin HeaderNames(s)
  BY DEF SectionType, ChangeType, HeaderNames
<1>3. /\ NamedBy(c.new, s, n)
      /\ c.path \in HeaderNames(s) \cup {NoPath} /\ c.old \in HeaderNames(s) \cup {NoPath}
  BY <1>1 DEF Said, Reads
<1>4. \A k \in L : k \in 1..n /\ Rendered(s)[k].kind = "+++"
  BY DEF Lies
<1>5. \A i \in DOMAIN s.hunk : NamesAFile(s, i) => b + i \in L
  BY <1>1 DEF Lies, NamesAFile
<1>6. \A k \in L : k > b => k - b \in DOMAIN s.hunk /\ NamesAFile(s, k - b)
  BY <1>1, <1>4 DEF NamesAFile
<1>7. ASSUME NEW k \in L, k <= b
      PROVE  s.op # "delete" => Rendered(s)[k].path = s.path
  <2>1. k \in 1..n /\ Rendered(s)[k].kind = "+++"
    BY <1>4
  <2>2. k # 1
    BY <1>1, <2>1
  <2>3. k \in 2..b
    BY <1>7, <2>1, <2>2
  <2>4. Opens(Rendered(s)[k], s, k - 1)
    BY <1>1, <2>3
  <2>. QED  BY <2>1, <2>4 DEF Opens
<1>. HIDE DEF L
<1>8. CASE \A i \in DOMAIN s.hunk : ~NamesAFile(s, i)
  <2>1. \A k \in L : k <= b
    BY <1>1, <1>4, <1>6, <1>8
  <2>2. s.op # "delete" => c.new = s.path
    BY <1>3, <1>7, <2>1 DEF NamedBy, L
  <2>3. s.path \in Names(s)
    BY <1>2, <1>8 DEF Names, NamesItLast
  <2>4. s.op # "delete" => Target(c) = s.path
    BY <1>2, <2>2 DEF Target, Either
  <2>. QED  BY <2>3, <2>4
<1>9. CASE \E i \in DOMAIN s.hunk : NamesAFile(s, i)
  <2>1. PICK k \in L : c.new = Rendered(s)[k].path /\ \A m \in L : m <= k
    BY <1>3, <1>5, <1>9 DEF NamedBy, L
  <2>2. PICK i \in DOMAIN s.hunk : k = b + i /\ NamesAFile(s, i) /\ c.new = s.hunk[i].path
    <3>1. PICK m \in DOMAIN s.hunk : NamesAFile(s, m)
      BY <1>9
    <3>2. b + m <= k /\ k \in 1..n /\ m \in 1..Len(s.hunk)
      BY <1>1, <1>4, <1>5, <2>1, <3>1
    <3>3. k > b
      BY <1>1, <3>2
    <3>4. k - b \in DOMAIN s.hunk /\ NamesAFile(s, k - b) /\ c.new = s.hunk[k - b].path
      BY <1>1, <1>6, <2>1, <3>2, <3>3
    <3>5. k = b + (k - b)
      BY <3>2
    <3>. QED  BY <3>4, <3>5
  <2>3. \A j \in DOMAIN s.hunk : NamesAFile(s, j) => j <= i
    <3>1. \A j \in DOMAIN s.hunk : NamesAFile(s, j) => b + j <= b + i
      BY <1>5, <2>1, <2>2
    <3>. QED  BY <1>1, <3>1
  <2>4. \A j \in DOMAIN s.hunk : NamesItLast(s, j) => j = i
    <3>1. \A j \in DOMAIN s.hunk : NamesItLast(s, j) => j <= i /\ ~(i > j)
      BY <2>2, <2>3 DEF NamesItLast
    <3>2. \A j \in DOMAIN s.hunk : j <= i /\ ~(i > j) => j = i
      BY <1>1
    <3>. QED  BY <3>1, <3>2
  <2>5. CASE c.new # NoPath
    <3>1. Target(c) = c.new
      BY <2>5 DEF Target, Either
    <3>2. c.new \in HeaderNames(s)
      BY <2>2, <2>5 DEF HeaderNames, NamesAFile
    <3>3. c.new \in Names(s)
      BY <1>9, <2>2, <2>4, <3>2 DEF Names
    <3>. QED  BY <3>1, <3>3
  <2>6. CASE c.new = NoPath
    <3>1. Target(c) \in HeaderNames(s)
      BY <1>2, <1>3, <2>6 DEF Target, Either
    <3>2. Target(c) \in Names(s)
      BY <1>9, <2>2, <2>4, <2>6, <3>1 DEF Names
    <3>. QED  BY <3>2
  <2>. QED  BY <2>5, <2>6
<1>. QED  BY <1>8, <1>9

LEMMA ReadInit == Init => ReadInv
<1>. SUFFICES ASSUME Init
              PROVE  ReadInv
  OBVIOUS
<1>1. changes = <<>> /\ at = 1 /\ pc = "text"
  BY DEF Init
<1>. QED  BY <1>1, InitialText DEF ReadInv

\* Where the lines of each section stand in the text, and what they may be.
LEMMA LinesOfSections ==
  ASSUME sections \in Seq(Sections), sections # <<>>,
         NEW start, Layout(start, lines, Texts(sections), Len(sections))
  PROVE  /\ Len(sections) \in Nat /\ Len(sections) >= 1
         /\ \A k \in 1..Len(sections) :
              /\ sections[k] \in SectionType
              /\ Len(Rendered(sections[k])) \in Nat /\ Len(Rendered(sections[k])) >= 2
              /\ Rendered(sections[k])[1] = Header(sections[k].path)
              /\ \A j \in 2..Len(Rendered(sections[k])) :
                   Tells(Rendered(sections[k])[j], sections[k], j)
         /\ start \in [1..(Len(sections) + 1) -> Nat] /\ start[1] = 0
         /\ Len(lines) = start[Len(sections) + 1]
         /\ \A k \in 1..Len(sections) : start[k + 1] = start[k] + Len(Rendered(sections[k]))
         /\ \A k \in 1..Len(sections) : \A j \in 1..Len(Rendered(sections[k])) :
              /\ start[k] + j \in 1..Len(lines)
              /\ lines[start[k] + j] = Rendered(sections[k])[j]
         /\ \A p \in 1..Len(lines) : \E k \in 1..Len(sections) :
              \E j \in 1..Len(Rendered(sections[k])) : p = start[k] + j
<1>. DEFINE N == Len(sections)
<1>1. /\ Len(Texts(sections)) = N /\ N \in Nat /\ N >= 1
      /\ \A k \in 1..N : sections[k] \in SectionType /\ Texts(sections)[k] = Rendered(sections[k])
  BY TextsOf
<1>2. PICK T : T = Texts(sections)
  OBVIOUS
<1>3. /\ start \in [1..(N + 1) -> Nat] /\ start[1] = 0 /\ Len(lines) = start[N + 1]
      /\ \A k \in 1..N : start[k + 1] = start[k] + Len(T[k])
      /\ \A k \in 1..N : \A j \in 1..Len(T[k]) :
           start[k] + j \in 1..Len(lines) /\ lines[start[k] + j] = T[k][j]
      /\ \A p \in 1..Len(lines) : \E k \in 1..N : \E j \in 1..Len(T[k]) : p = start[k] + j
  BY <1>2 DEF Layout
<1>4. \A k \in 1..N : T[k] = Rendered(sections[k])
  BY <1>1, <1>2
<1>5. ASSUME NEW k \in 1..N
      PROVE  /\ start[k + 1] = start[k] + Len(Rendered(sections[k]))
             /\ \A j \in 1..Len(Rendered(sections[k])) :
                  /\ start[k] + j \in 1..Len(lines)
                  /\ lines[start[k] + j] = Rendered(sections[k])[j]
  <2>1. T[k] = Rendered(sections[k])
    BY <1>4
  <2>2. /\ start[k + 1] = start[k] + Len(T[k])
        /\ \A j \in 1..Len(T[k]) :
             start[k] + j \in 1..Len(lines) /\ lines[start[k] + j] = T[k][j]
    BY <1>3
  <2>. QED  BY <2>1, <2>2
<1>6. ASSUME NEW p \in 1..Len(lines)
      PROVE  \E k \in 1..N : \E j \in 1..Len(Rendered(sections[k])) : p = start[k] + j
  <2>1. PICK k \in 1..N : \E j \in 1..Len(T[k]) : p = start[k] + j
    BY <1>3
  <2>2. T[k] = Rendered(sections[k])
    BY <1>4
  <2>. QED  BY <2>1, <2>2
<1>7. ASSUME NEW k \in 1..N
      PROVE  /\ sections[k] \in SectionType
             /\ Len(Rendered(sections[k])) \in Nat /\ Len(Rendered(sections[k])) >= 2
             /\ Rendered(sections[k])[1] = Header(sections[k].path)
             /\ \A j \in 2..Len(Rendered(sections[k])) :
                  Tells(Rendered(sections[k])[j], sections[k], j)
  <2>1. sections[k] \in SectionType
    BY <1>1
  <2>2. PICK R : R = Rendered(sections[k])
    OBVIOUS
  <2>3. /\ R \in Seq(LineType) /\ Len(R) >= 2 /\ R[1] = Header(sections[k].path)
        /\ \A j \in 2..Len(R) : Tells(R[j], sections[k], j)
    BY <2>1, <2>2, RenderedLines
  <2>4. Len(R) \in Nat
    BY <2>3
  <2>. QED  BY <2>1, <2>2, <2>3, <2>4
<1>. QED  BY <1>1, <1>3, <1>5, <1>6, <1>7, Zenon

LEMMA Regrouped == \A a, b \in Nat : a + b + 1 = a + (b + 1)
OBVIOUS

\* One line read.
LEMMA LineIsRead ==
  ASSUME TypeOK, ReadInv, ParseLine
  PROVE  ReadInv'
<1>. USE DEF TypeOK
<1>1. /\ pc = "parse" /\ at <= Len(lines) /\ at' = at + 1 /\ at \in 1..Len(lines)
      /\ UNCHANGED <<sections, lines, pc>> /\ Len(lines) \in Nat /\ at \in Nat
  BY DEF ParseLine
<1>2. changes' = IF lines[at].kind = "diff-git" THEN Append(changes, Change(lines[at].path))
                 ELSE IF changes = <<>> THEN changes
                 ELSE [changes EXCEPT ![Len(changes)] = Effect(lines[at], @)]
  BY DEF ParseLine
<1>3. CASE sections = <<>>
  <2>1. lines \in Malformed /\ changes = <<>>
    BY <1>3 DEF ReadInv
  <2>2. at \in DOMAIN lines /\ lines[at].kind # "diff-git"
    BY <1>1, <2>1, PatchPolicyAssumption
  <2>. QED  BY <1>1, <1>2, <1>3, <2>1, <2>2 DEF ReadInv
<1>4. CASE sections # <<>>
  <2>1. PICK start : Layout(start, lines, Texts(sections), Len(sections)) /\ Reading(start)
    BY <1>1, <1>4 DEF ReadInv
  <2>. DEFINE N == Len(sections)
              n == Len(changes)
  <2>2. /\ N \in Nat /\ N >= 1
        /\ \A k \in 1..N : sections[k] \in SectionType
    BY <1>4, <2>1, LinesOfSections
  <2>3. /\ start \in [1..(N + 1) -> Nat] /\ start[1] = 0 /\ Len(lines) = start[N + 1]
        /\ \A k \in 1..N : start[k + 1] = start[k] + Len(Rendered(sections[k]))
        /\ \A k \in 1..N : \A j \in 1..Len(Rendered(sections[k])) :
             /\ start[k] + j \in 1..Len(lines)
             /\ lines[start[k] + j] = Rendered(sections[k])[j]
    BY <1>4, <2>1, LinesOfSections
  <2>4. \A k \in 1..N : Len(Rendered(sections[k])) \in Nat /\ Len(Rendered(sections[k])) >= 2
    BY <2>2, RenderedLines
  <2>5. n \in Nat /\ changes \in Seq(ChangeType)
    OBVIOUS
  \* The next section begins.
  <2>6. ASSUME NEW m \in 1..N, n = m - 1, at = start[m] + 1,
               \A k \in 1..n : Said(changes[k], sections[k])
        PROVE  Reading(start)'
    <3>1. lines[at] = Header(sections[m].path)
      <4>1. 1 \in 1..Len(Rendered(sections[m]))
        BY <2>4
      <4>2. lines[start[m] + 1] = Rendered(sections[m])[1]
        BY <2>3, <4>1
      <4>3. Rendered(sections[m])[1] = Header(sections[m].path)
        BY <2>2, RenderedLines
      <4>. QED  BY <2>6, <4>2, <4>3
    <3>2. lines[at].kind = "diff-git" /\ lines[at].path = sections[m].path
      BY <3>1 DEF Header, Line
    <3>3. changes' = Append(changes, Change(sections[m].path))
      BY <1>2, <3>2
    <3>4. /\ Len(changes') = m /\ changes'[m] = Change(sections[m].path)
          /\ \A k \in 1..n : changes'[k] = changes[k]
      BY <2>5, <2>6, <3>3
    <3>5. Reads(changes'[m], sections[m], 1)
      BY <2>2, <3>4, HeaderReads
    <3>6. at' = start[m] + 1 + 1 /\ 1 \in 1..Len(Rendered(sections[m]))
      BY <1>1, <2>4, <2>6
    <3>7. \A k \in 1..(m - 1) : Said(changes'[k], sections[k])
      BY <2>6, <3>4
    <3>. QED  BY <1>1, <3>4, <3>5, <3>6, <3>7 DEF Reading
  \* The section goes on.
  <2>7. ASSUME n \in 1..N, NEW j \in 1..Len(Rendered(sections[n])),
               at = start[n] + j + 1, j + 1 <= Len(Rendered(sections[n])),
               Reads(changes[n], sections[n], j),
               \A k \in 1..(n - 1) : Said(changes[k], sections[k])
        PROVE  Reading(start)'
    <3>. DEFINE R == Rendered(sections[n])
    <3>1. Len(R) \in Nat /\ j \in Nat /\ 1 <= j /\ j + 1 \in 2..Len(R) /\ j + 1 \in 1..Len(R)
      BY <2>4, <2>7
    <3>2. start[n] \in Nat
      BY <2>3, <2>7
    <3>3. lines[at] = R[j + 1]
      <4>1. start[n] + j + 1 = start[n] + (j + 1)
        BY <3>1, <3>2, Regrouped
      <4>2. lines[start[n] + (j + 1)] = R[j + 1]
        BY <2>3, <2>7, <3>1
      <4>. QED  BY <2>7, <4>1, <4>2
    <3>4. Tells(lines[at], sections[n], j + 1)
      BY <2>2, <2>7, <3>1, <3>3, RenderedLines
    <3>5. lines[at].kind # "diff-git" /\ changes # <<>> /\ n \in 1..Len(changes)
          /\ changes[n] \in ChangeType
      BY <2>5, <2>7, <3>4 DEF Tells
    <3>6. changes' = [changes EXCEPT ![n] = Effect(lines[at], changes[n])]
      BY <1>2, <3>5
    <3>7. /\ Len(changes') = n /\ changes'[n] = Effect(lines[at], changes[n])
          /\ \A k \in 1..(n - 1) : changes'[k] = changes[k]
      BY <2>5, <3>5, <3>6
    <3>8. Reads(changes'[n], sections[n], j + 1)
      BY <2>2, <2>7, <3>1, <3>3, <3>4, <3>5, <3>7, EffectReads
    <3>9. at' = start[n] + (j + 1) + 1
      <4>1. start[n] + j + 1 = start[n] + (j + 1)
        BY <3>1, <3>2, Regrouped
      <4>. QED  BY <1>1, <2>7, <4>1
    <3>10. \A k \in 1..(n - 1) : Said(changes'[k], sections[k])
      BY <2>7, <3>7
    <3>. QED  BY <1>1, <2>7, <3>1, <3>7, <3>8, <3>9, <3>10 DEF Reading
  <2>8. Reading(start)'
    <3>1. CASE changes = <<>> /\ at = 1
      <4>1. n = 0 /\ 1 \in 1..N /\ start[1] + 1 = 1
        BY <2>2, <2>3, <3>1
      <4>. QED  BY <2>6, <3>1, <4>1
    <3>2. ASSUME n \in 1..N, NEW j \in 1..Len(Rendered(sections[n])),
                 at = start[n] + j + 1,
                 Reads(changes[n], sections[n], j),
                 \A k \in 1..(n - 1) : Said(changes[k], sections[k])
          PROVE  Reading(start)'
      <4>1. CASE j + 1 <= Len(Rendered(sections[n]))
        BY <2>7, <3>2, <4>1
      <4>2. CASE ~(j + 1 <= Len(Rendered(sections[n])))
        <5>1. j = Len(Rendered(sections[n])) /\ start[n] \in Nat /\ j \in Nat
          BY <2>3, <2>4, <3>2, <4>2
        <5>2. at = start[n + 1] + 1
          BY <2>3, <3>2, <5>1
        <5>3. n # N
          BY <1>1, <2>3, <5>2
        <5>4. n + 1 \in 1..N /\ n = (n + 1) - 1
          BY <2>2, <3>2, <5>3
        <5>5. Said(changes[n], sections[n])
          BY <3>2, <5>1 DEF Said
        <5>6. \A k \in 1..n : Said(changes[k], sections[k])
          <6>1. \A k \in 1..n : k = n \/ k \in 1..(n - 1)
            BY <2>5
          <6>. QED  BY <3>2, <5>5, <6>1
        <5>. QED  BY <2>6, <5>2, <5>4, <5>6
      <4>. QED  BY <4>1, <4>2
    <3>. QED  BY <2>1, <3>1, <3>2 DEF Reading
  <2>. QED  BY <1>1, <1>4, <2>1, <2>8 DEF ReadInv
<1>. QED  BY <1>3, <1>4

\* After the last line every section has been read.
LEMMA AllIsRead ==
  ASSUME TypeOK, ReadInv, CheckCount
  PROVE  ReadInv'
<1>. USE DEF TypeOK
<1>1. /\ pc = "parse" /\ at > Len(lines) /\ pc' = "judge" /\ Len(lines) \in Nat
      /\ UNCHANGED <<sections, lines, changes>>
  BY DEF CheckCount
<1>2. CASE sections = <<>>
  BY <1>1, <1>2 DEF ReadInv
<1>3. CASE sections # <<>>
  <2>1. PICK start : Layout(start, lines, Texts(sections), Len(sections)) /\ Reading(start)
    BY <1>1, <1>3 DEF ReadInv
  <2>. DEFINE N == Len(sections)
              n == Len(changes)
  <2>2. /\ N \in Nat /\ N >= 1
        /\ \A k \in 1..N : sections[k] \in SectionType
    BY <1>3, <2>1, LinesOfSections
  <2>3. /\ start \in [1..(N + 1) -> Nat] /\ start[1] = 0 /\ Len(lines) = start[N + 1]
        /\ \A k \in 1..N : start[k + 1] = start[k] + Len(Rendered(sections[k]))
        /\ \A k \in 1..N : \A j \in 1..Len(Rendered(sections[k])) :
             /\ start[k] + j \in 1..Len(lines)
             /\ lines[start[k] + j] = Rendered(sections[k])[j]
    BY <1>3, <2>1, LinesOfSections
  <2>4. \A k \in 1..N : Len(Rendered(sections[k])) \in Nat /\ Len(Rendered(sections[k])) >= 2
    BY <2>2, RenderedLines
  <2>5. n \in Nat
    OBVIOUS
  <2>6. ~(changes = <<>> /\ at = 1)
    <3>1. 1 \in 1..N /\ 1 \in 1..Len(Rendered(sections[1]))
      BY <2>2, <2>4
    <3>2. start[1] + 1 \in 1..Len(lines)
      BY <2>3, <3>1
    <3>. QED  BY <1>1, <2>3, <3>2
  <2>7. n \in 1..N
    BY <2>1, <2>6 DEF Reading
  <2>8. PICK j \in 1..Len(Rendered(sections[n])) :
          /\ at = start[n] + j + 1
          /\ Reads(changes[n], sections[n], j)
          /\ \A k \in 1..(n - 1) : Said(changes[k], sections[k])
    BY <2>1, <2>6 DEF Reading
  <2>9. start[n] \in Nat /\ j \in Nat
    BY <2>3, <2>4, <2>7
  <2>10. j = Len(Rendered(sections[n]))
    <3>. SUFFICES ASSUME j + 1 \in 1..Len(Rendered(sections[n]))
                  PROVE  FALSE
      BY <2>4, <2>7, <2>8, <2>9
    <3>1. start[n] + (j + 1) \in 1..Len(lines)
      BY <2>3, <2>7
    <3>. QED  BY <1>1, <2>8, <2>9, <3>1
  <2>11. n = N
    <3>. SUFFICES ASSUME n + 1 \in 1..N
                  PROVE  FALSE
      BY <2>2, <2>7
    <3>1. 1 \in 1..Len(Rendered(sections[n + 1]))
      BY <2>4
    <3>2. start[n + 1] + 1 \in 1..Len(lines)
      BY <2>3, <3>1
    <3>3. start[n + 1] + 1 = at
      BY <2>3, <2>7, <2>8, <2>9, <2>10
    <3>. QED  BY <1>1, <3>2, <3>3
  <2>12. \A k \in 1..N : Said(changes[k], sections[k])
    <3>1. Said(changes[n], sections[n])
      BY <2>8, <2>10 DEF Said
    <3>2. \A k \in 1..N : k = n \/ k \in 1..(n - 1)
      BY <2>5, <2>11
    <3>. QED  BY <2>8, <3>1, <3>2
  <2>. QED  BY <1>1, <1>3, <2>1, <2>11, <2>12 DEF ReadInv
<1>. QED  BY <1>2, <1>3

LEMMA ReadNext == TypeOK /\ ReadInv /\ [Next]_vars => ReadInv'
<1>. SUFFICES ASSUME TypeOK, ReadInv, [Next]_vars
              PROVE  ReadInv'
  OBVIOUS
<1>1. CASE CheckText
  BY <1>1 DEF CheckText, ReadInv, Reading
<1>2. CASE ParseLine
  BY <1>2, LineIsRead
<1>3. CASE CheckCount
  BY <1>3, AllIsRead
<1>4. CASE RefusePath \/ RefuseReproduction \/ RefuseDeletion \/ Judge
  <2>1. pc = "judge" /\ UNCHANGED <<sections, lines, pc, changes>>
    BY <1>4 DEF RefusePath, RefuseReproduction, RefuseDeletion, Judge, Judging
  <2>. QED  BY <2>1 DEF ReadInv
<1>5. CASE Conclude
  BY <1>5 DEF Conclude, ReadInv
<1>6. CASE UNCHANGED vars
  BY <1>6 DEF vars, ReadInv, Reading
<1>. QED  BY <1>1, <1>2, <1>3, <1>4, <1>5, <1>6 DEF Next

-----------------------------------------------------------------------------
\* What is refused of the text as a whole.
Marked == {m \in Markers : TextHas({m})}

\* Nothing is found fault with in a change.
FaultFree(c) ==
  /\ PathErrors(Target(c)) = {} /\ ~IsReproduction(Target(c))
  /\ ~c.isDeleted /\ ContentErrors(c, Target(c)) = {}

VerdictInv ==
  /\ pc = "text" => errors = {} /\ ~retry
  /\ pc = "parse" => errors \cap Markers = Marked /\ errors \subseteq Markers \cup {"not-unified"}
  /\ pc = "parse" /\ sections # <<>> => errors = Marked /\ ~retry
  /\ pc = "judge" => at <= Len(changes) + 1 /\ (retry <=> sections = <<>>)
  /\ pc \in {"judge", "done"} /\ sections = <<>> => "empty" \in errors /\ errors \cap Final = Marked
  /\ pc \in {"judge", "done"} /\ sections # <<>> =>
       (errors = {} <=> /\ Marked = {} /\ Len(sections) <= config.maxFiles
                        /\ \A i \in 1..(at - 1) : FaultFree(changes[i]))
  /\ pc = "done" => at = Len(changes) + 1 /\ (retry <=> sections = <<>> /\ Marked = {})

\* The path rules, as the policy puts them and as the code runs them.
LEMMA OpenPaths == \A p : PathIsOpen(p) <=> PathErrors(p) = {} /\ ~IsReproduction(p)
BY DEF PathIsOpen, PathErrors, MatchesPrefix

LEMMA PermittedIsFaultFree ==
  ASSUME NEW s \in SectionType, NEW c, Said(c, s), s.op \notin Markers
  PROVE  IsPermitted(s, Target(c)) <=> FaultFree(c)
<1>. DEFINE p == Target(c)
<1>1. /\ c.isNew <=> IsMade(s)
      /\ c.isDeleted <=> s.op = "delete"
      /\ c.danger <=> \E i \in DOMAIN s.hunk : s.hunk[i].kind = "+danger"
  BY SaidFields
<1>2. s.op \in {"edit", "create", "touch", "delete"}
  BY DEF SectionType, Markers
<1>. HIDE DEF p
<1>3. PathIsOpen(p) <=> PathErrors(p) = {} /\ ~IsReproduction(p)
  BY OpenPaths
<1>4. CASE s.op = "delete"
  <2>1. ~IsPermitted(s, p) /\ ~FaultFree(c)
    BY <1>1, <1>4 DEF IsPermitted, FaultFree
  <2>. QED  BY <2>1 DEF p
<1>5. CASE s.op = "edit"
  <2>1. ContentErrors(c, p) = {} <=>
          /\ ~c.danger /\ Resolve(p) \in Existing /\ (IsTest(p) => ~config.blockTests)
    BY <1>1, <1>5 DEF ContentErrors, IsMade
  <2>2. IsPermitted(s, p) <=>
          /\ PathIsOpen(p) /\ Resolve(p) \in Existing /\ (IsTest(p) => ~config.blockTests)
          /\ ~c.danger
    BY <1>1, <1>5 DEF IsPermitted
  <2>3. IsPermitted(s, p) <=> FaultFree(c)
    BY <1>1, <1>3, <1>5, <2>1, <2>2 DEF FaultFree, p
  <2>. QED  BY <2>3 DEF p
<1>6. CASE s.op \in {"create", "touch"}
  <2>1. ContentErrors(c, p) = {} <=>
          ~c.danger /\ (IF IsTest(p) THEN config.newTests ELSE config.newSource)
    BY <1>1, <1>6 DEF ContentErrors, IsMade
  <2>2. IsPermitted(s, p) <=>
          /\ PathIsOpen(p) /\ (IF IsTest(p) THEN config.newTests ELSE config.newSource)
          /\ ~c.danger
    BY <1>1, <1>6 DEF IsPermitted
  <2>3. IsPermitted(s, p) <=> FaultFree(c)
    BY <1>1, <1>3, <1>6, <2>1, <2>2 DEF FaultFree, p
  <2>. QED  BY <2>3 DEF p
<1>. QED  BY <1>2, <1>4, <1>5, <1>6

\* The text of a diff has a header, and holds what its sections are refused for.
LEMMA TextOfSections ==
  ASSUME TypeOK, ReadInv, sections # <<>>
  PROVE  /\ TextHas({"diff-git", "bad-header"})
         /\ \A k \in 1..Len(sections) : sections[k].op \in Markers => Marked # {}
<1>. USE DEF TypeOK
<1>1. PICK start : Layout(start, lines, Texts(sections), Len(sections))
  BY DEF ReadInv
<1>. DEFINE N == Len(sections)
<1>2. /\ \A k \in 1..N : \A j \in 1..Len(Rendered(sections[k])) :
           /\ start[k] + j \in 1..Len(lines)
           /\ lines[start[k] + j] = Rendered(sections[k])[j]
      /\ \A p \in 1..Len(lines) : \E k \in 1..N :
           \E j \in 1..Len(Rendered(sections[k])) : p = start[k] + j
      /\ \A k \in 1..N : /\ Len(Rendered(sections[k])) \in Nat /\ Len(Rendered(sections[k])) >= 2
                         /\ Rendered(sections[k])[1] = Header(sections[k].path)
                         /\ \A j \in 2..Len(Rendered(sections[k])) :
                              Tells(Rendered(sections[k])[j], sections[k], j)
      /\ N \in Nat /\ N >= 1
  BY <1>1, LinesOfSections
<1>3. TextHas({"diff-git", "bad-header"})
  <2>1. 1 \in 1..N /\ 1 \in 1..Len(Rendered(sections[1]))
    <3>1. N \in Nat /\ N >= 1
      BY <1>2
    <3>2. 1 \in 1..N
      BY <3>1
    <3>3. Len(Rendered(sections[1])) \in Nat /\ Len(Rendered(sections[1])) >= 2
      BY <1>2, <3>2
    <3>. QED  BY <3>2, <3>3
  <2>2. start[1] + 1 \in 1..Len(lines) /\ lines[start[1] + 1] = Rendered(sections[1])[1]
    BY <1>2, <2>1
  <2>3. Rendered(sections[1])[1].kind = "diff-git"
    <3>1. Rendered(sections[1])[1] = Header(sections[1].path)
      BY <1>2, <2>1
    <3>. QED  BY <3>1 DEF Header, Line
  <2>. QED  BY <2>2, <2>3 DEF TextHas
<1>4. ASSUME NEW k \in 1..N, sections[k].op \in Markers
      PROVE  Marked # {}
  <2>1. sections[k] \in SectionType /\ 2 \in 1..Len(Rendered(sections[k]))
    BY <1>1, <1>2, LinesOfSections
  <2>2. PICK b \in Nat : b >= 2 /\ \A j \in 2..b : Opens(Rendered(sections[k])[j], sections[k], j - 1)
    BY <2>1, SectionLines
  <2>3. Opens(Rendered(sections[k])[2], sections[k], 1)
    <3>1. 2 \in 2..b /\ 2 - 1 = 1
      BY <2>2
    <3>. QED  BY <2>2, <3>1
  <2>4. Rendered(sections[k])[2].kind = sections[k].op
    BY <1>4, <2>3 DEF Opens
  <2>5. start[k] + 2 \in 1..Len(lines) /\ lines[start[k] + 2] = Rendered(sections[k])[2]
    BY <1>2, <2>1
  <2>. QED  BY <1>4, <2>4, <2>5 DEF Marked, TextHas
<1>. QED  BY <1>3, <1>4

LEMMA SamePolicy ==
  ASSUME UNCHANGED <<config, sections, lines>>
  PROVE  /\ Marked' = Marked
         /\ \A c : FaultFree(c)' <=> FaultFree(c)
<1>1. Marked' = Marked
  BY DEF Marked, TextHas
<1>. QED  BY <1>1 DEF FaultFree, ContentErrors

\* Whichever of the four answers a change gets, it adds an error exactly when
\* there is fault with it.
LEMMA FaultsAreErrors ==
  ASSUME RefusePath \/ RefuseReproduction \/ RefuseDeletion \/ Judge
  PROVE  errors' = {} <=> errors = {} /\ FaultFree(changes[at])
<1>1. CASE RefusePath
  BY <1>1 DEF RefusePath, FaultFree, judged
<1>2. CASE RefuseReproduction
  BY <1>2 DEF RefuseReproduction, FaultFree, judged
<1>3. CASE RefuseDeletion
  BY <1>3 DEF RefuseDeletion, FaultFree
<1>4. CASE Judge
  BY <1>4 DEF Judge, Editable, FaultFree, judged
<1>. QED  BY <1>1, <1>2, <1>3, <1>4

\* The section that the next change is of, and what the loop finds of it.
LEMMA ChangeAt ==
  ASSUME TypeOK, ReadInv, Judging
  PROVE  /\ sections # <<>> /\ Len(changes) = Len(sections) /\ Len(sections) \in Nat
         /\ at \in 1..Len(sections) /\ at' = at + 1
         /\ sections[at] \in SectionType /\ changes[at] \in ChangeType
         /\ Said(changes[at], sections[at])
         /\ Marked = {} => sections[at].op \notin Markers
<1>. USE DEF TypeOK
<1>1. pc = "judge" /\ at \in 1..Len(changes) /\ at' = at + 1
  BY DEF Judging
<1>2. sections # <<>>
  BY <1>1 DEF ReadInv
<1>3. /\ Len(changes) = Len(sections) /\ Len(sections) \in Nat
      /\ Said(changes[at], sections[at])
  BY <1>1, <1>2 DEF ReadInv
<1>4. sections[at] \in SectionType /\ changes[at] \in ChangeType
  BY <1>1, <1>3, PatchPolicyAssumption
<1>5. ASSUME Marked = {}
      PROVE  sections[at].op \notin Markers
  BY <1>1, <1>2, <1>3, <1>5, TextOfSections
<1>. QED  BY <1>1, <1>2, <1>3, <1>4, <1>5

LEMMA VerdictInit == Init => VerdictInv
BY DEF Init, VerdictInv

LEMMA VerdictNext == TypeOK /\ ReadInv /\ VerdictInv /\ [Next]_vars => VerdictInv'
<1>. SUFFICES ASSUME TypeOK, ReadInv, VerdictInv, [Next]_vars
              PROVE  VerdictInv'
  OBVIOUS
<1>1. UNCHANGED <<config, sections, lines>>
  BY DEF Next, vars, CheckText, ParseLine, CheckCount, RefusePath, RefuseReproduction,
         RefuseDeletion, Judge, Conclude
<1>2. Marked' = Marked /\ \A c : FaultFree(c)' <=> FaultFree(c)
  BY <1>1, SamePolicy
<1>3. CASE CheckText
  <2>1. pc' = "parse" /\ errors' \cap Markers = Marked /\ errors' \subseteq Markers \cup {"not-unified"}
    BY <1>3 DEF CheckText, Marked, Markers
  <2>2. sections # <<>> => errors' = Marked /\ ~retry'
    BY <1>3, TextOfSections DEF CheckText, Marked
  <2>. QED  BY <1>1, <1>2, <2>1, <2>2 DEF VerdictInv
<1>4. CASE ParseLine
  <2>1. pc = "parse" /\ UNCHANGED <<pc, errors, retry>>
    BY <1>4 DEF ParseLine, result
  <2>. QED  BY <1>1, <1>2, <2>1 DEF VerdictInv
<1>5. CASE CheckCount
  <2>1. pc = "parse" /\ pc' = "judge" /\ at' = 1 /\ UNCHANGED changes
    BY <1>5 DEF CheckCount
  <2>2. ReadInv'
    BY <1>5, AllIsRead
  <2>3. changes = <<>> <=> sections = <<>>
    BY <1>1, <2>1, <2>2 DEF ReadInv, TypeOK
  <2>4. sections # <<>> => Len(changes) = Len(sections)
    BY <1>1, <2>1, <2>2 DEF ReadInv
  <2>5. retry' <=> sections = <<>>
    BY <1>5, <2>1, <2>3 DEF CheckCount, VerdictInv
  <2>6. Len(changes) \in Nat /\ 1..(at' - 1) = {}
    BY <2>1 DEF TypeOK
  <2>7. sections = <<>> => "empty" \in errors' /\ errors' \cap Final = Marked
    <3>1. errors \cap Markers = Marked /\ errors \subseteq Markers \cup {"not-unified"}
      BY <2>1 DEF VerdictInv
    <3>. QED  BY <1>5, <2>3, <3>1 DEF CheckCount, Final, Markers
  <2>8. sections # <<>> => (errors' = {} <=> Marked = {} /\ Len(sections) <= config.maxFiles)
    <3>1. sections # <<>> => errors = Marked
      BY <2>1 DEF VerdictInv
    <3>2. config.maxFiles \in Nat
      BY PatchPolicyAssumption DEF TypeOK, ConfigType
    <3>3. sections # <<>> => (Len(changes) > config.maxFiles <=> ~(Len(sections) <= config.maxFiles))
      BY <2>4, <2>6, <3>2
    <3>. QED  BY <1>5, <2>3, <3>1, <3>3 DEF CheckCount
  <2>9. at' <= Len(changes') + 1
    BY <2>1, <2>6
  <2>. QED  BY <1>1, <1>2, <2>1, <2>5, <2>6, <2>7, <2>8, <2>9 DEF VerdictInv
<1>6. CASE RefusePath \/ RefuseReproduction \/ RefuseDeletion \/ Judge
  <2>1. Judging /\ pc = "judge" /\ UNCHANGED <<pc, changes, retry>>
    BY <1>6 DEF RefusePath, RefuseReproduction, RefuseDeletion, Judge, Judging
  <2>2. /\ sections # <<>> /\ Len(changes) = Len(sections) /\ Len(sections) \in Nat
        /\ at \in 1..Len(sections) /\ at' = at + 1
    BY <2>1, ChangeAt
  <2>3. errors' = {} <=> errors = {} /\ FaultFree(changes[at])
    BY <1>6, FaultsAreErrors
  <2>4. errors = {} <=> /\ Marked = {} /\ Len(sections) <= config.maxFiles
                        /\ \A i \in 1..(at - 1) : FaultFree(changes[i])
    BY <2>1, <2>2 DEF VerdictInv
  <2>5. \A i : i \in 1..(at' - 1) <=> i \in 1..(at - 1) \/ i = at
    BY <2>2
  <2>6. errors' = {} <=> /\ Marked = {} /\ Len(sections) <= config.maxFiles
                         /\ \A i \in 1..(at' - 1) : FaultFree(changes[i])
    BY <2>2, <2>3, <2>4, <2>5
  <2>7. at' <= Len(changes') + 1 /\ (retry' <=> sections = <<>>)
    BY <2>1, <2>2 DEF VerdictInv
  <2>. QED  BY <1>1, <1>2, <2>1, <2>2, <2>6, <2>7 DEF VerdictInv
<1>7. CASE Conclude
  <2>1. /\ pc = "judge" /\ pc' = "done" /\ at > Len(changes) /\ UNCHANGED <<at, changes, errors>>
        /\ (retry' <=> retry /\ errors \cap Final = {})
    BY <1>7 DEF Conclude, TypeOK
  <2>2. at' = Len(changes') + 1
    BY <2>1 DEF VerdictInv, TypeOK
  <2>3. retry' <=> sections = <<>> /\ Marked = {}
    BY <2>1 DEF VerdictInv
  <2>. QED  BY <1>1, <1>2, <2>1, <2>2, <2>3 DEF VerdictInv
<1>8. CASE UNCHANGED vars
  BY <1>1, <1>2, <1>8 DEF vars, result, VerdictInv
<1>. QED  BY <1>3, <1>4, <1>5, <1>6, <1>7, <1>8 DEF Next

-----------------------------------------------------------------------------
\* The files the changes are judged by, and the sections judged so far that do not
\* edit one.
Targets == [i \in DOMAIN changes |-> Target(changes[i])]
Chosen == {i \in 1..(at - 1) : sections[i].op # "edit"}

SummaryInv ==
  /\ pc \in {"text", "parse"} => files = <<>> /\ created = <<>> /\ deleted = <<>>
  /\ pc \in {"judge", "done"} /\ errors = {} =>
       /\ files = [i \in 1..(at - 1) |-> Target(changes[i])]
       /\ ListsInOrder(created, Targets, Chosen)
       /\ deleted = <<>>

\* A list of the chosen ones of all, and one more after them.
LEMMA ListsOneMore ==
  ASSUME NEW E, NEW list \in Seq(E), NEW all, NEW chosen \in SUBSET Nat,
         ListsInOrder(list, all, chosen),
         NEW k \in Nat, \A i \in chosen : i < k,
         NEW path \in E, path = all[k]
  PROVE  ListsInOrder(Append(list, path), all, chosen \cup {k})
<1>. DEFINE n == Len(list)
            more == Append(list, path)
<1>1. PICK place \in [DOMAIN list -> chosen] :
        /\ \A i, j \in DOMAIN list : i < j => place[i] < place[j]
        /\ \A c \in chosen : \E i \in DOMAIN list : place[i] = c
        /\ \A i \in DOMAIN list : list[i] = all[place[i]]
  BY DEF ListsInOrder
<1>2. n \in Nat /\ DOMAIN list = 1..n /\ DOMAIN more = 1..(n + 1)
  BY AppendProperties
<1>3. more[n + 1] = path /\ \A i \in 1..n : more[i] = list[i]
  BY AppendProperties
<1>. DEFINE placed == [i \in 1..(n + 1) |-> IF i = n + 1 THEN k ELSE place[i]]
<1>4. \A i \in 1..n : i \in 1..(n + 1) /\ placed[i] = place[i] /\ place[i] \in chosen
  BY <1>1, <1>2
<1>5. n + 1 \in 1..(n + 1) /\ placed[n + 1] = k
  BY <1>2
<1>6. \A i \in 1..(n + 1) : i = n + 1 \/ i \in 1..n
  BY <1>2
<1>. HIDE DEF more
<1>7. placed \in [1..(n + 1) -> chosen \cup {k}]
  BY <1>1, <1>2
<1>. HIDE DEF placed
<1>8. ASSUME NEW i \in 1..(n + 1), NEW j \in 1..(n + 1), i < j
      PROVE  placed[i] < placed[j]
  <2>1. i \in 1..n
    BY <1>2, <1>8
  <2>2. CASE j = n + 1
    <3>1. placed[j] = k /\ placed[i] \in chosen
      BY <1>4, <1>5, <2>1, <2>2
    <3>. QED  BY <3>1
  <2>3. CASE j \in 1..n
    <3>1. place[i] < place[j]
      BY <1>1, <1>2, <1>8, <2>1, <2>3
    <3>. QED  BY <1>4, <2>1, <2>3, <3>1
  <2>. QED  BY <1>6, <2>2, <2>3
<1>9. ASSUME NEW c \in chosen \cup {k}
      PROVE  \E i \in 1..(n + 1) : placed[i] = c
  <2>1. CASE c = k
    BY <1>5, <2>1
  <2>2. CASE c \in chosen
    <3>1. PICK i \in 1..n : place[i] = c
      BY <1>1, <1>2, <2>2
    <3>. QED  BY <1>4, <3>1
  <2>. QED  BY <2>1, <2>2
<1>10. ASSUME NEW i \in 1..(n + 1)
       PROVE  more[i] = all[placed[i]]
  <2>1. CASE i = n + 1
    BY <1>3, <1>5, <2>1
  <2>2. CASE i \in 1..n
    <3>1. more[i] = list[i] /\ placed[i] = place[i]
      BY <1>3, <1>4, <2>2
    <3>2. list[i] = all[place[i]]
      BY <1>1, <1>2, <2>2
    <3>. QED  BY <3>1, <3>2
  <2>. QED  BY <1>6, <2>1, <2>2
<1>11. placed \in [DOMAIN more -> chosen \cup {k}]
  BY <1>2, <1>7 DEF more
<1>12. ListsInOrder(more, all, chosen \cup {k})
  <2>1. \A i, j \in DOMAIN more : i < j => placed[i] < placed[j]
    BY <1>2, <1>8 DEF more
  <2>2. \A c \in chosen \cup {k} : \E i \in DOMAIN more : placed[i] = c
    BY <1>2, <1>9 DEF more
  <2>3. \A i \in DOMAIN more : more[i] = all[placed[i]]
    BY <1>2, <1>10 DEF more
  <2>. QED  BY <2>1, <2>2, <2>3, <1>11, Zenon DEF ListsInOrder
<1>. QED  BY <1>12 DEF more

LEMMA SummaryInit == Init => SummaryInv
BY DEF Init, SummaryInv

\* What a change without fault adds to the lists.
LEMMA SummaryGrows ==
  ASSUME TypeOK, ReadInv, VerdictInv, SummaryInv,
         RefusePath \/ RefuseReproduction \/ RefuseDeletion \/ Judge, errors' = {}
  PROVE  /\ files' = [i \in 1..(at' - 1) |-> Target(changes[i])]
         /\ ListsInOrder(created', Targets, {i \in 1..(at' - 1) : sections[i].op # "edit"})
         /\ deleted' = <<>>
<1>1. Judging /\ pc = "judge"
  BY DEF RefusePath, RefuseReproduction, RefuseDeletion, Judge, Judging
<1>2. errors = {} /\ FaultFree(changes[at])
  BY FaultsAreErrors
<1>3. Judge
  BY <1>2 DEF RefusePath, RefuseReproduction, RefuseDeletion, FaultFree, judged
<1>4. /\ sections # <<>> /\ Len(sections) \in Nat /\ at \in 1..Len(sections) /\ at' = at + 1
      /\ sections[at] \in SectionType /\ changes[at] \in ChangeType
      /\ Said(changes[at], sections[at]) /\ (Marked = {} => sections[at].op \notin Markers)
      /\ Len(changes) = Len(sections)
  BY <1>1, ChangeAt
<1>5. Marked = {}
  BY <1>1, <1>2, <1>4 DEF VerdictInv
<1>6. changes[at].isNew <=> sections[at].op # "edit"
  <2>1. /\ changes[at].isNew <=> IsMade(sections[at])
        /\ changes[at].isDeleted <=> sections[at].op = "delete"
    BY <1>4, SaidFields
  <2>2. sections[at].op \in {"edit", "create", "touch", "delete"}
    BY <1>4, <1>5 DEF SectionType, Markers
  <2>. QED  BY <1>2, <2>1, <2>2 DEF FaultFree, IsMade
<1>7. /\ files' = Append(files, judged) /\ deleted' = deleted
      /\ created' = IF sections[at].op # "edit" THEN Append(created, judged) ELSE created
  BY <1>3, <1>6 DEF Judge
<1>8. /\ files = [i \in 1..(at - 1) |-> Target(changes[i])] /\ deleted = <<>>
      /\ ListsInOrder(created, Targets, Chosen)
  BY <1>1, <1>2 DEF SummaryInv
<1>9. PICK n \in Nat : n = at - 1 /\ at = n + 1 /\ at' - 1 = n + 1
  BY <1>4
<1>10. files' = [i \in 1..(n + 1) |-> Target(changes[i])]
  <2>1. files = [i \in 1..n |-> Target(changes[i])]
    BY <1>8, <1>9
  <2>2. files' = Append(files, Target(changes[n + 1]))
    BY <1>7, <1>9 DEF judged
  <2>. QED  BY <2>1, <2>2
<1>11. ListsInOrder(created', Targets, {i \in 1..(n + 1) : sections[i].op # "edit"})
  <2>1. Chosen = {i \in 1..n : sections[i].op # "edit"} /\ Chosen \in SUBSET Nat
    BY <1>9 DEF Chosen
  <2>2. CASE sections[at].op # "edit"
    <3>1. {i \in 1..(n + 1) : sections[i].op # "edit"} = Chosen \cup {at}
      BY <1>9, <2>1, <2>2
    <3>2. at \in Nat /\ \A i \in Chosen : i < at
      <4>1. at \in Nat /\ \A i \in 1..n : i < at
        BY <1>9
      <4>. QED  BY <2>1, <4>1, Zenon
    <3>3. created \in Seq(Paths) /\ judged \in Paths
      BY <1>4, TargetIsPath DEF TypeOK, judged
    <3>4. judged = Targets[at]
      <4>1. at \in DOMAIN changes
        BY <1>4 DEF TypeOK
      <4>. QED  BY <4>1 DEF Targets, judged
    <3>5. ListsInOrder(Append(created, judged), Targets, Chosen \cup {at})
      BY <1>8, <2>1, <3>2, <3>3, <3>4, ListsOneMore
    <3>. QED  BY <1>7, <2>2, <3>1, <3>5
  <2>3. CASE sections[at].op = "edit"
    <3>1. {i \in 1..(n + 1) : sections[i].op # "edit"} = Chosen
      BY <1>9, <2>1, <2>3
    <3>. QED  BY <1>7, <1>8, <2>3, <3>1
  <2>. QED  BY <2>2, <2>3
<1>. QED  BY <1>7, <1>8, <1>9, <1>10, <1>11

LEMMA SummaryNext ==
  TypeOK /\ ReadInv /\ VerdictInv /\ SummaryInv /\ [Next]_vars => SummaryInv'
<1>. SUFFICES ASSUME TypeOK, ReadInv, VerdictInv, SummaryInv, [Next]_vars
              PROVE  SummaryInv'
  OBVIOUS
<1>1. CASE CheckText
  BY <1>1 DEF CheckText, SummaryInv
<1>2. CASE ParseLine
  BY <1>2 DEF ParseLine, result, SummaryInv
<1>3. CASE CheckCount
  <2>1. /\ pc = "parse" /\ pc' = "judge" /\ at' = 1
        /\ UNCHANGED <<sections, changes, files, created, deleted>>
    BY <1>3 DEF CheckCount
  <2>2. files = <<>> /\ created = <<>> /\ deleted = <<>>
    BY <2>1 DEF SummaryInv
  <2>3. 1..(at' - 1) = {}
    BY <2>1
  <2>4. files' = [i \in 1..(at' - 1) |-> Target(changes'[i])]
    BY <2>1, <2>2, <2>3
  <2>5. Chosen' = {} /\ DOMAIN created' = {}
    BY <2>1, <2>2, <2>3 DEF Chosen
  <2>6. ListsInOrder(created, Targets, Chosen)'
    <3>1. [i \in {} |-> i] \in [DOMAIN created' -> Chosen']
      BY <2>5
    <3>. QED  BY <2>5, <3>1 DEF ListsInOrder
  <2>. QED  BY <2>1, <2>2, <2>4, <2>6 DEF SummaryInv
<1>4. CASE RefusePath \/ RefuseReproduction \/ RefuseDeletion \/ Judge
  <2>1. pc = "judge" /\ UNCHANGED <<sections, changes, pc>>
    BY <1>4 DEF RefusePath, RefuseReproduction, RefuseDeletion, Judge, Judging
  <2>. SUFFICES ASSUME errors' = {}
                PROVE  /\ files' = [i \in 1..(at' - 1) |-> Target(changes'[i])]
                       /\ ListsInOrder(created, Targets, Chosen)' /\ deleted' = <<>>
    BY <2>1 DEF SummaryInv
  <2>2. /\ files' = [i \in 1..(at' - 1) |-> Target(changes[i])] /\ deleted' = <<>>
        /\ ListsInOrder(created', Targets, {i \in 1..(at' - 1) : sections[i].op # "edit"})
    BY <1>4, SummaryGrows
  <2>3. Chosen' = {i \in 1..(at' - 1) : sections[i].op # "edit"} /\ Targets' = Targets
    BY <2>1 DEF Chosen, Targets
  <2>4. ListsInOrder(created, Targets, Chosen)'
    BY <2>1, <2>2, <2>3 DEF ListsInOrder
  <2>. QED  BY <2>1, <2>2, <2>4
<1>5. CASE Conclude
  <2>1. /\ pc = "judge" /\ pc' = "done"
        /\ UNCHANGED <<sections, changes, at, errors, files, created, deleted>>
    BY <1>5 DEF Conclude
  <2>. QED  BY <2>1 DEF SummaryInv, Chosen, Targets, ListsInOrder
<1>6. CASE UNCHANGED vars
  <2>1. UNCHANGED <<sections, changes, pc, at, errors, files, created, deleted>>
    BY <1>6 DEF vars, result
  <2>. QED  BY <2>1 DEF SummaryInv, Chosen, Targets, ListsInOrder
<1>. QED  BY <1>1, <1>2, <1>3, <1>4, <1>5, <1>6 DEF Next

-----------------------------------------------------------------------------
PolicyInv == TypeOK /\ ReadInv /\ VerdictInv /\ SummaryInv

LEMMA PolicyInductive == Spec => []PolicyInv
<1>1. Init => PolicyInv
  BY TypeInit, ReadInit, VerdictInit, SummaryInit DEF PolicyInv
<1>2. PolicyInv /\ [Next]_vars => PolicyInv'
  BY TypeNext, ReadNext, VerdictNext, SummaryNext DEF PolicyInv
<1>. QED  BY <1>1, <1>2, PTL DEF Spec

\* At the end every change of the diff has been judged.
LEMMA AllJudged ==
  ASSUME PolicyInv, pc = "done", sections # <<>>
  PROVE  Len(sections) \in Nat /\ Len(sections) >= 1 /\ at - 1 = Len(sections)
         /\ DOMAIN sections = 1..Len(sections)
<1>1. Len(changes) = Len(sections)
  BY DEF PolicyInv, ReadInv
<1>2. Len(sections) \in Nat /\ Len(sections) >= 1 /\ DOMAIN sections = 1..Len(sections)
  BY DEF PolicyInv, TypeOK
<1>. QED  BY <1>1, <1>2 DEF PolicyInv, VerdictInv

\* What is said of the change of each section, when all have been judged.
LEMMA EachIsJudged ==
  ASSUME PolicyInv, pc = "done", sections # <<>>, ~TextHas(Markers), NEW i \in DOMAIN sections
  PROVE  /\ FaultFree(changes[i]) <=> IsPermitted(sections[i], Target(changes[i]))
         /\ \E p \in Names(sections[i]) :
              IsPermitted(sections[i], p) => p = Target(changes[i])
         /\ FaultFree(changes[i]) => Target(changes[i]) \in Names(sections[i])
<1>1. /\ Len(changes) = Len(sections) /\ \A k \in 1..Len(sections) : Said(changes[k], sections[k])
      /\ DOMAIN sections = 1..Len(sections)
  BY AllJudged DEF PolicyInv, ReadInv
<1>2. sections[i] \in SectionType /\ changes[i] \in ChangeType /\ Said(changes[i], sections[i])
  BY <1>1, PatchPolicyAssumption DEF PolicyInv, TypeOK
<1>3. sections[i].op \notin Markers
  <2>1. sections[i].op \in Markers => Marked # {}
    BY <1>1, TextOfSections DEF PolicyInv
  <2>. QED  BY <2>1 DEF Marked, TextHas
<1>4. FaultFree(changes[i]) <=> IsPermitted(sections[i], Target(changes[i]))
  BY <1>2, <1>3, PermittedIsFaultFree
<1>5. PICK p \in Names(sections[i]) : sections[i].op # "delete" => p = Target(changes[i])
  BY <1>2, TargetIsNamed
<1>6. \A q : IsPermitted(sections[i], q) => sections[i].op # "delete"
  BY DEF IsPermitted
<1>. QED  BY <1>4, <1>5, <1>6

\* For every diff, of any length, with its sections in any order and any lines in
\* its hunks: it is valid exactly when it fits and the policy permits each section
\* for the file that its lines name (patch_parser.py:29-61, 106-130, 132-179).
THEOREM VerdictHolds == Spec => []VerdictIsThePolicy
<1>1. PolicyInv => VerdictIsThePolicy
  <2>. SUFFICES ASSUME PolicyInv, pc = "done"
                PROVE  /\ errors = {} =>
                            Fits /\ \A i \in DOMAIN sections : \E p \in Names(sections[i]) :
                                      IsPermitted(sections[i], p)
                       /\ Fits /\ (\A i \in DOMAIN sections : \A p \in Names(sections[i]) :
                                     IsPermitted(sections[i], p))
                            => errors = {}
    BY DEF VerdictIsThePolicy
  <2>1. config.maxFiles \in Nat
    BY PatchPolicyAssumption DEF PolicyInv, TypeOK, ConfigType
  <2>2. CASE sections = <<>>
    <3>1. errors # {}
      BY <2>2 DEF PolicyInv, VerdictInv
    <3>2. Len(sections) = 0
      BY <2>2
    <3>. QED  BY <2>1, <3>1, <3>2 DEF Fits
  <2>3. CASE sections # <<>>
    <3>1. Len(sections) \in Nat /\ Len(sections) >= 1 /\ at - 1 = Len(sections)
          /\ DOMAIN sections = 1..Len(sections)
      BY <2>3, AllJudged
    <3>2. errors = {} <=> /\ Marked = {} /\ Len(sections) <= config.maxFiles
                          /\ \A i \in DOMAIN sections : FaultFree(changes[i])
      BY <2>3, <3>1 DEF PolicyInv, VerdictInv
    <3>3. Fits <=> Marked = {} /\ Len(sections) <= config.maxFiles
      <4>1. Marked = {} <=> ~TextHas(Markers)
        BY DEF Marked, TextHas
      <4>. QED  BY <2>1, <3>1, <4>1 DEF Fits
    <3>4. Fits => ~TextHas(Markers)
      BY DEF Fits
    <3>5. ASSUME Fits, NEW i \in DOMAIN sections
          PROVE  /\ FaultFree(changes[i]) =>
                      \E p \in Names(sections[i]) : IsPermitted(sections[i], p)
                 /\ (\A p \in Names(sections[i]) : IsPermitted(sections[i], p)) =>
                      FaultFree(changes[i])
      BY <2>3, <3>4, <3>5, EachIsJudged
    <3>. QED  BY <3>2, <3>3, <3>5
  <2>. QED  BY <2>2, <2>3
<1>. QED  BY <1>1, PolicyInductive, PTL

\* For every answer: the agent is asked again exactly when the answer held no
\* diff and nothing that is refused outright (patch_parser.py:181-196).
THEOREM RetryHolds == Spec => []OnlyMalformedIsRetried
<1>1. PolicyInv => OnlyMalformedIsRetried
  BY DEF PolicyInv, VerdictInv, OnlyMalformedIsRetried, Marked, TextHas
<1>. QED  BY <1>1, PolicyInductive, PTL

\* For every valid diff, whatever lines its hunks hold: the run reports one file
\* for each section, in their order, under a name that section gives it
\* (patch_parser.py:52-54, 152-161).
THEOREM SummaryHolds == Spec => []SummaryIsTheDiff
<1>1. PolicyInv => SummaryIsTheDiff
  <2>. SUFFICES ASSUME PolicyInv, pc = "done", errors = {}
                PROVE  /\ DOMAIN files = DOMAIN sections
                       /\ \A i \in DOMAIN sections : files[i] \in Names(sections[i])
                       /\ ListsInOrder(created, files,
                                       {i \in DOMAIN sections : sections[i].op # "edit"})
                       /\ deleted = <<>>
    BY DEF SummaryIsTheDiff
  <2>1. sections # <<>>
    BY DEF PolicyInv, VerdictInv
  <2>2. at - 1 = Len(sections) /\ DOMAIN sections = 1..Len(sections)
        /\ Len(changes) = Len(sections) /\ DOMAIN changes = 1..Len(sections)
    BY <2>1, AllJudged DEF PolicyInv, ReadInv, TypeOK
  <2>3. files = Targets /\ ListsInOrder(created, Targets, Chosen) /\ deleted = <<>>
    BY <2>2 DEF PolicyInv, SummaryInv, Targets
  <2>4. Marked = {} /\ \A i \in DOMAIN sections : FaultFree(changes[i])
    BY <2>1, <2>2 DEF PolicyInv, VerdictInv
  <2>5. ~TextHas(Markers)
    BY <2>4 DEF Marked, TextHas
  <2>6. \A i \in DOMAIN sections : Target(changes[i]) \in Names(sections[i])
    BY <2>1, <2>4, <2>5, EachIsJudged
  <2>7. \A i \in DOMAIN sections : files[i] = Target(changes[i])
    BY <2>2, <2>3 DEF Targets
  <2>8. DOMAIN files = DOMAIN sections
    BY <2>2, <2>3 DEF Targets
  <2>. QED  BY <2>2, <2>3, <2>6, <2>7, <2>8 DEF Chosen
<1>. QED  BY <1>1, PolicyInductive, PTL
=============================================================================
