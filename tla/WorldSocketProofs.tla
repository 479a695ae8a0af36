------------------------- MODULE WorldSocketProofs --------------------------
(***************************************************************************)
(* For any number of threads and packets: what the lock-free queue still   *)
(* links has not been deleted, the network thread never tells a deleted    *)
(* session of a packet, and the peer gets the bytes of the packets in the  *)
(* order in which they were sent.                                          *)
(***************************************************************************)
EXTENDS WorldSocket, SequenceTheorems, FiniteSetTheorems, NaturalsInduction, WellFoundedInduction,
        TLAPS

-----------------------------------------------------------------------------
(* Where the bytes of a sequence are in a stream.                          *)

Occurs(s, S, a) == a + Len(s) <= Len(S) /\ \A j \in 1 .. Len(s) : s[j] = S[a + j]

LEMMA OccursAlso ==
  ASSUME NEW X, NEW s \in Seq(X), NEW S \in Seq(X), NEW t \in Seq(X), NEW a \in Nat, Occurs(s, S, a)
  PROVE  Occurs(s, S \o t, a)
<1>1. Len(S \o t) = Len(S) + Len(t) /\ \A i \in 1 .. Len(S) : (S \o t)[i] = S[i]
  BY ConcatProperties
<1>2. Len(s) \in Nat /\ Len(t) \in Nat /\ Len(S) \in Nat
  OBVIOUS
<1>3. \A j \in 1 .. Len(s) : a + j \in 1 .. Len(S)
  BY <1>2 DEF Occurs
<1> HIDE DEF Occurs
<1>4. \A j \in 1 .. Len(s) : s[j] = (S \o t)[a + j]
  BY <1>1, <1>3 DEF Occurs
<1> QED BY <1>1, <1>2, <1>4 DEF Occurs

LEMMA OccursLast ==
  ASSUME NEW X, NEW S \in Seq(X), NEW t \in Seq(X)
  PROVE  Occurs(t, S \o t, Len(S))
<1>1. Len(S \o t) = Len(S) + Len(t) /\ Len(t) \in Nat /\ Len(S) \in Nat
  BY ConcatProperties
<1>2. \A j \in 1 .. Len(t) : (S \o t)[Len(S) + j] = t[j]
  BY <1>1
<1> QED BY <1>1, <1>2 DEF Occurs

LEMMA OccursBoth ==
  ASSUME NEW X, NEW s \in Seq(X), NEW t \in Seq(X), NEW S \in Seq(X), NEW a \in Nat,
         Occurs(s, S, a), Occurs(t, S, a + Len(s))
  PROVE  Occurs(s \o t, S, a)
<1>1. Len(s \o t) = Len(s) + Len(t) /\ Len(s) \in Nat /\ Len(t) \in Nat /\ Len(S) \in Nat
  BY ConcatProperties
<1>2. ASSUME NEW j \in 1 .. Len(s) + Len(t) PROVE (s \o t)[j] = S[a + j]
  <2>1. CASE j <= Len(s)
    BY <1>1, <2>1 DEF Occurs
  <2>2. CASE j > Len(s)
    <3>1. j - Len(s) \in 1 .. Len(t) /\ a + Len(s) + (j - Len(s)) = a + j
      BY <1>1, <2>2
    <3>2. (s \o t)[j] = t[j - Len(s)]
      BY <1>1, <2>2
    <3> QED BY <3>1, <3>2 DEF Occurs
  <2> QED BY <1>1, <2>1, <2>2
<1> QED BY <1>1, <1>2 DEF Occurs

LEMMA Parts ==
  ASSUME NEW X, NEW s \in Seq(X), NEW n \in 0 .. Len(s)
  PROVE  /\ SubSeq(s, 1, n) \in Seq(X) /\ Len(SubSeq(s, 1, n)) = n
         /\ \A j \in 1 .. n : SubSeq(s, 1, n)[j] = s[j]
         /\ SubSeq(s, n + 1, Len(s)) \in Seq(X) /\ Len(SubSeq(s, n + 1, Len(s))) = Len(s) - n
         /\ \A j \in 1 .. Len(s) - n : SubSeq(s, n + 1, Len(s))[j] = s[n + j]
<1>0. Len(s) \in Nat /\ n \in Nat /\ n <= Len(s)
  OBVIOUS
<1>1. \A i \in 1 .. Len(s) : s[i] \in X
  BY ElementOfSeq
<1>2. /\ SubSeq(s, 1, n) \in Seq(X) /\ Len(SubSeq(s, 1, n)) = n
      /\ \A j \in 1 .. n : SubSeq(s, 1, n)[j] = s[j]
  BY <1>0, <1>1, SubSeqProperties
<1>3. /\ SubSeq(s, n + 1, Len(s)) \in Seq(X) /\ Len(SubSeq(s, n + 1, Len(s))) = Len(s) - n
      /\ \A j \in 1 .. Len(s) - n : SubSeq(s, n + 1, Len(s))[j] = s[n + j]
  BY <1>0, <1>1, SubSeqProperties
<1> QED BY <1>2, <1>3

LEMMA OccursFront ==
  ASSUME NEW X, NEW s \in Seq(X), NEW S \in Seq(X), NEW a \in Nat, NEW n \in 0 .. Len(s),
         Occurs(s, S, a)
  PROVE  Occurs(SubSeq(s, 1, n), S, a)
<1> DEFINE front == SubSeq(s, 1, n)
<1>1. Len(s) \in Nat /\ Len(S) \in Nat /\ n \in Nat /\ n <= Len(s) /\ a + Len(s) <= Len(S)
  BY DEF Occurs
<1>2. Len(front) = n /\ \A j \in 1 .. n : front[j] = s[j]
  BY Parts
<1> HIDE DEF front
<1>3. \A j \in 1 .. n : j \in 1 .. Len(s)
  BY <1>1
<1>4. \A j \in 1 .. n : front[j] = S[a + j]
  BY <1>2, <1>3 DEF Occurs
<1>5. a + n <= Len(S)
  BY <1>1
<1>6. Occurs(front, S, a)
  BY <1>2, <1>4, <1>5 DEF Occurs
<1> QED BY <1>6 DEF front

LEMMA OccursRest ==
  ASSUME NEW X, NEW s \in Seq(X), NEW S \in Seq(X), NEW a \in Nat, NEW n \in 0 .. Len(s),
         Occurs(s, S, a)
  PROVE  Occurs(SubSeq(s, n + 1, Len(s)), S, a + n)
<1> DEFINE rest == SubSeq(s, n + 1, Len(s))
<1>1. Len(s) \in Nat /\ Len(S) \in Nat /\ n \in Nat /\ n <= Len(s) /\ a + Len(s) <= Len(S)
  BY DEF Occurs
<1>2. Len(rest) = Len(s) - n /\ \A j \in 1 .. Len(s) - n : rest[j] = s[n + j]
  BY Parts
<1> HIDE DEF rest
<1>3. ASSUME NEW j \in 1 .. Len(s) - n PROVE rest[j] = S[a + n + j]
  <2>1. n + j \in 1 .. Len(s) /\ a + (n + j) = a + n + j
    BY <1>1
  <2>2. s[n + j] = S[a + (n + j)]
    BY <2>1 DEF Occurs
  <2> QED BY <1>2, <2>1, <2>2
<1>4. a + n + (Len(s) - n) <= Len(S)
  BY <1>1
<1>5. Occurs(rest, S, a + n)
  BY <1>2, <1>3, <1>4 DEF Occurs
<1> QED BY <1>5 DEF rest

-----------------------------------------------------------------------------
(* A stream on its way: what is written, what is queued, what is buffered. *)

Flies(w, q, b, S, pos) ==
  /\ pos[0] = Len(w) /\ Occurs(w, S, 0)
  /\ \A i \in 1 .. Len(q) :
       Occurs(q[i], S, pos[i - 1]) /\ pos[i] = pos[i - 1] + Len(q[i])
  /\ Occurs(b, S, pos[Len(q)]) /\ Len(S) = pos[Len(q)] + Len(b)

InFlight(w, q, b, S) == \E pos \in [Nat -> Nat] : Flies(w, q, b, S, pos)

\* A sequence with one more element in front, or behind.
LEMMA ConsParts ==
  ASSUME NEW Y, NEW q \in Seq(Y), NEW e \in Y
  PROVE  /\ Len(<<e>> \o q) = Len(q) + 1
         /\ (<<e>> \o q)[1] = e
         /\ \A i \in 1 .. Len(q) : (<<e>> \o q)[i + 1] = q[i]
<1>1. <<e>> \in Seq(Y) /\ Len(<<e>>) = 1 /\ <<e>>[1] = e /\ Len(q) \in Nat
  OBVIOUS
<1>2. /\ Len(<<e>> \o q) = 1 + Len(q)
      /\ \A i \in 1 .. 1 + Len(q) : (<<e>> \o q)[i] = IF i <= 1 THEN <<e>>[i] ELSE q[i - 1]
  BY <1>1, ConcatProperties
<1>3. ASSUME NEW i \in 1 .. Len(q) PROVE (<<e>> \o q)[i + 1] = q[i]
  <2>1. i + 1 \in 1 .. 1 + Len(q) /\ ~(i + 1 <= 1) /\ i + 1 - 1 = i
    BY <1>1
  <2> QED BY <1>2, <2>1
<1>4. 1 \in 1 .. 1 + Len(q) /\ 1 <= 1
  BY <1>1
<1>5. (<<e>> \o q)[1] = e
  BY <1>1, <1>2, <1>4
<1> QED BY <1>1, <1>2, <1>3, <1>5

LEMMA SnocParts ==
  ASSUME NEW Y, NEW q \in Seq(Y), NEW e \in Y
  PROVE  /\ Len(q \o <<e>>) = Len(q) + 1
         /\ (q \o <<e>>)[Len(q) + 1] = e
         /\ \A i \in 1 .. Len(q) : (q \o <<e>>)[i] = q[i]
<1>1. <<e>> \in Seq(Y) /\ Len(<<e>>) = 1 /\ <<e>>[1] = e /\ Len(q) \in Nat
  OBVIOUS
<1>2. /\ Len(q \o <<e>>) = Len(q) + 1
      /\ \A i \in 1 .. Len(q) + 1 : (q \o <<e>>)[i] = IF i <= Len(q) THEN q[i] ELSE <<e>>[i - Len(q)]
  BY <1>1, ConcatProperties
<1>3. ASSUME NEW i \in 1 .. Len(q) PROVE (q \o <<e>>)[i] = q[i]
  <2>1. i \in 1 .. Len(q) + 1 /\ i <= Len(q)
    BY <1>1
  <2> QED BY <1>2, <2>1
<1>4. Len(q) + 1 \in 1 .. Len(q) + 1 /\ ~(Len(q) + 1 <= Len(q)) /\ Len(q) + 1 - Len(q) = 1
  BY <1>1
<1>5. (q \o <<e>>)[Len(q) + 1] = e
  BY <1>1, <1>2, <1>4
<1> QED BY <1>2, <1>3, <1>5

\* More is buffered.
LEMMA BufferMore ==
  ASSUME NEW X, NEW w \in Seq(X), NEW q \in Seq(Seq(X)), NEW b \in Seq(X), NEW S \in Seq(X),
         NEW t \in Seq(X), InFlight(w, q, b, S)
  PROVE  InFlight(w, q, b \o t, S \o t)
<1>1. PICK pos \in [Nat -> Nat] : Flies(w, q, b, S, pos)
  BY DEF InFlight
<1>2. Len(S \o t) = Len(S) + Len(t) /\ Len(b \o t) = Len(b) + Len(t) /\ S \o t \in Seq(X)
      /\ Len(S) \in Nat /\ Len(b) \in Nat /\ Len(t) \in Nat /\ Len(q) \in Nat
  <2>1. Len(S) \in Nat /\ Len(b) \in Nat /\ Len(t) \in Nat /\ Len(q) \in Nat
    BY LenProperties
  <2>2. Len(S \o t) = Len(S) + Len(t) /\ S \o t \in Seq(X)
    BY ConcatProperties
  <2>3. Len(b \o t) = Len(b) + Len(t)
    BY ConcatProperties
  <2> QED BY <2>1, <2>2, <2>3
<1>3. pos[Len(q)] \in Nat /\ Len(S) = pos[Len(q)] + Len(b) /\ pos[0] = Len(w)
  BY <1>1, <1>2 DEF Flies
<1>4. Occurs(w, S \o t, 0)
  <2>1. Occurs(w, S, 0)
    BY <1>1 DEF Flies
  <2> QED BY <2>1, OccursAlso
<1>5. ASSUME NEW i \in 1 .. Len(q)
      PROVE  Occurs(q[i], S \o t, pos[i - 1]) /\ pos[i] = pos[i - 1] + Len(q[i])
  <2>1. q[i] \in Seq(X) /\ i - 1 \in Nat
    BY ElementOfSeq
  <2>2. Occurs(q[i], S, pos[i - 1]) /\ pos[i] = pos[i - 1] + Len(q[i])
    BY <1>1 DEF Flies
  <2>3. pos[i - 1] \in Nat
    BY <2>1
  <2> QED BY <2>1, <2>2, <2>3, OccursAlso
<1>6. Occurs(b \o t, S \o t, pos[Len(q)])
  <2>1. Occurs(b, S, pos[Len(q)])
    BY <1>1 DEF Flies
  <2>2. Occurs(b, S \o t, pos[Len(q)])
    BY <1>3, <2>1, OccursAlso
  <2>3. Occurs(t, S \o t, Len(S))
    BY OccursLast
  <2> QED BY <1>2, <1>3, <2>2, <2>3, OccursBoth
<1>7. Len(S \o t) = pos[Len(q)] + Len(b \o t)
  BY <1>2, <1>3
<1>8. Flies(w, q, b \o t, S \o t, pos)
  BY <1>3, <1>4, <1>5, <1>6, <1>7 DEF Flies
<1> QED BY <1>8 DEF InFlight

\* The buffer is queued.
LEMMA QueueBuffer ==
  ASSUME NEW X, NEW w \in Seq(X), NEW q \in Seq(Seq(X)), NEW b \in Seq(X), NEW S \in Seq(X),
         InFlight(w, q, b, S)
  PROVE  InFlight(w, q \o <<b>>, << >>, S)
<1>1. PICK pos \in [Nat -> Nat] : Flies(w, q, b, S, pos)
  BY DEF InFlight
<1> DEFINE n == Len(q)
           r == q \o <<b>>
           new == [i \in Nat |-> IF i = n + 1 THEN Len(S) ELSE pos[i]]
<1>2. n \in Nat /\ Len(S) \in Nat /\ Len(r) = n + 1 /\ (\A i \in 1 .. n : r[i] = q[i]) /\ r[n + 1] = b
  <2>1. n \in Nat /\ Len(S) \in Nat
    BY LenProperties
  <2>2. Len(r) = n + 1 /\ (\A i \in 1 .. n : r[i] = q[i]) /\ r[n + 1] = b
    BY SnocParts
  <2> QED BY <2>1, <2>2
<1>3. /\ new \in [Nat -> Nat] /\ new[n + 1] = Len(S)
      /\ \A i \in Nat : i # n + 1 => new[i] = pos[i]
  <2> HIDE DEF n, r
  <2>1. n + 1 \in Nat
    BY <1>2
  <2> QED BY <1>2, <2>1
<1>4. Len(S) = pos[n] + Len(b) /\ pos[0] = Len(w) /\ Occurs(w, S, 0) /\ Occurs(b, S, pos[n])
  BY <1>1 DEF Flies
<1> HIDE DEF n, r, new
<1>5. new[0] = Len(w)
  <2>1. 0 # n + 1 /\ 0 \in Nat
    BY <1>2
  <2> QED BY <1>3, <1>4, <2>1
<1>6. ASSUME NEW i \in 1 .. n + 1
      PROVE  Occurs(r[i], S, new[i - 1]) /\ new[i] = new[i - 1] + Len(r[i])
  <2>1. CASE i = n + 1
    <3>1. new[i - 1] = pos[n]
      BY <1>2, <1>3, <2>1
    <3> QED BY <1>2, <1>3, <1>4, <2>1, <3>1
  <2>2. CASE i # n + 1
    <3>1. i \in 1 .. n /\ i - 1 \in Nat /\ i - 1 # n + 1 /\ i \in Nat
      BY <1>2, <2>2
    <3>2. new[i] = pos[i] /\ new[i - 1] = pos[i - 1] /\ r[i] = q[i]
      BY <1>2, <1>3, <2>2, <3>1
    <3>3. Occurs(q[i], S, pos[i - 1]) /\ pos[i] = pos[i - 1] + Len(q[i])
      BY <1>1, <3>1 DEF Flies, n
    <3> QED BY <3>2, <3>3
  <2> QED BY <2>1, <2>2
<1>7. Occurs(<< >>, S, Len(S)) /\ Len(S) = Len(S) + Len(<< >>)
  BY <1>2 DEF Occurs
<1>8. Flies(w, r, << >>, S, new)
  BY <1>2, <1>3, <1>4, <1>5, <1>6, <1>7 DEF Flies
<1> QED BY <1>3, <1>8 DEF InFlight, r

\* A write takes the front of what is queued.
LEMMA WriteFront ==
  ASSUME NEW X, NEW w \in Seq(X), NEW q \in Seq(Seq(X)), NEW b \in Seq(X), NEW S \in Seq(X),
         NEW f \in Seq(X), NEW n \in 0 .. Len(f), InFlight(w, <<f>> \o q, b, S)
  PROVE  InFlight(w \o SubSeq(f, 1, n), <<SubSeq(f, n + 1, Len(f))>> \o q, b, S)
<1> DEFINE sent == SubSeq(f, 1, n)
           rest == SubSeq(f, n + 1, Len(f))
           old == <<f>> \o q
           r == <<rest>> \o q
<1>1. PICK pos \in [Nat -> Nat] : Flies(w, old, b, S, pos)
  BY DEF InFlight
<1>2. Len(f) \in Nat /\ Len(q) \in Nat /\ Len(w) \in Nat /\ n \in Nat /\ n <= Len(f)
  <2>1. Len(f) \in Nat /\ Len(q) \in Nat /\ Len(w) \in Nat
    BY LenProperties
  <2> QED BY <2>1
<1>3. Len(old) = Len(q) + 1 /\ old[1] = f /\ \A i \in 1 .. Len(q) : old[i + 1] = q[i]
  BY ConsParts
<1> HIDE DEF old
<1>4. Occurs(f, S, pos[0]) /\ pos[1] = pos[0] + Len(f) /\ Occurs(w, S, 0) /\ pos[0] = Len(w)
  <2>1. 1 - 1 = 0 /\ 1 \in 1 .. Len(old)
    BY <1>2, <1>3
  <2>2. Occurs(old[1], S, pos[1 - 1]) /\ pos[1] = pos[1 - 1] + Len(old[1])
    BY <1>1, <2>1 DEF Flies
  <2> QED BY <1>1, <1>3, <2>1, <2>2 DEF Flies
<1>5. /\ sent \in Seq(X) /\ Len(sent) = n /\ Occurs(sent, S, pos[0])
      /\ rest \in Seq(X) /\ Len(rest) = Len(f) - n /\ Occurs(rest, S, pos[0] + n)
  <2>1. PICK a \in Nat : a = pos[0] /\ Occurs(f, S, a)
    BY <1>2, <1>4
  <2>2. /\ sent \in Seq(X) /\ Len(sent) = n
        /\ rest \in Seq(X) /\ Len(rest) = Len(f) - n
    BY Parts
  <2>3. Occurs(sent, S, a)
    BY <2>1, OccursFront
  <2>4. Occurs(rest, S, a + n)
    BY <2>1, OccursRest
  <2> QED BY <2>1, <2>2, <2>3, <2>4
<1> HIDE DEF sent, rest
<1>6. Len(w \o sent) = pos[0] + n /\ Occurs(w \o sent, S, 0)
  <2>1. Occurs(sent, S, 0 + Len(w))
    BY <1>2, <1>4, <1>5
  <2>2. Len(w \o sent) = Len(w) + Len(sent)
    BY <1>5, ConcatProperties
  <2>3. Occurs(w, S, 0) /\ 0 \in Nat /\ sent \in Seq(X)
    BY <1>4, <1>5
  <2>4. Occurs(w \o sent, S, 0)
    BY <2>1, <2>3, OccursBoth
  <2> QED BY <1>4, <1>5, <2>2, <2>4
<1>7. Len(r) = Len(q) + 1 /\ r[1] = rest /\ \A i \in 1 .. Len(q) : r[i + 1] = q[i]
  BY <1>5, ConsParts
<1> DEFINE new == [i \in Nat |-> IF i = 0 THEN pos[0] + n ELSE pos[i]]
<1>8. new \in [Nat -> Nat] /\ new[0] = pos[0] + n /\ \A i \in Nat : i # 0 => new[i] = pos[i]
  <2>1. pos[0] + n \in Nat
    BY <1>2, <1>4
  <2> QED BY <2>1
<1> HIDE DEF r, new
<1>9. ASSUME NEW i \in 1 .. Len(r)
      PROVE  Occurs(r[i], S, new[i - 1]) /\ new[i] = new[i - 1] + Len(r[i])
  <2>1. CASE i = 1
    <3>1. i - 1 = 0 /\ i \in Nat /\ i # 0
      BY <2>1
    <3>2. new[i - 1] = pos[0] + n /\ new[i] = pos[1] /\ r[i] = rest
      BY <1>7, <1>8, <2>1, <3>1
    <3>3. pos[1] = pos[0] + n + Len(rest)
      BY <1>2, <1>4, <1>5
    <3> QED BY <1>5, <3>2, <3>3
  <2>2. CASE i # 1
    <3>0. i \in 1 .. Len(q) + 1 /\ i \in 1 .. Len(old)
      BY <1>3, <1>7
    <3>1. i - 1 \in 1 .. Len(q) /\ i - 1 \in Nat /\ i - 1 # 0 /\ i \in Nat /\ i # 0 /\ i - 1 + 1 = i
      BY <1>2, <2>2, <3>0
    <3>2. new[i] = pos[i] /\ new[i - 1] = pos[i - 1]
      BY <1>8, <3>1
    <3>3. r[i - 1 + 1] = q[i - 1] /\ old[i - 1 + 1] = q[i - 1]
      BY <1>3, <1>7, <3>1
    <3>4. Occurs(old[i], S, pos[i - 1]) /\ pos[i] = pos[i - 1] + Len(old[i])
      BY <1>1, <3>0 DEF Flies
    <3> QED BY <3>0, <3>1, <3>2, <3>3, <3>4
  <2> QED BY <2>1, <2>2
<1>10. new[Len(r)] = pos[Len(old)]
  <2>1. Len(r) = Len(old) /\ Len(r) \in Nat /\ Len(r) # 0
    BY <1>2, <1>3, <1>7
  <2> QED BY <1>8, <2>1
<1>11. Occurs(b, S, new[Len(r)]) /\ Len(S) = new[Len(r)] + Len(b)
  BY <1>1, <1>10 DEF Flies
<1>12. Flies(w \o sent, r, b, S, new)
  BY <1>6, <1>8, <1>9, <1>11 DEF Flies
<1> QED BY <1>8, <1>12 DEF InFlight, sent, rest, r

\* The front has been written whole.
LEMMA DropFront ==
  ASSUME NEW X, NEW w \in Seq(X), NEW q \in Seq(Seq(X)), NEW b \in Seq(X), NEW S \in Seq(X),
         InFlight(w, <<<< >>>> \o q, b, S)
  PROVE  InFlight(w, q, b, S)
<1> DEFINE r == <<<< >>>> \o q
<1>1. PICK pos \in [Nat -> Nat] : Flies(w, r, b, S, pos)
  BY DEF InFlight
<1> DEFINE new == [i \in Nat |-> pos[i + 1]]
<1>2. new \in [Nat -> Nat] /\ \A i \in Nat : new[i] = pos[i + 1]
  <2>1. ASSUME NEW i \in Nat PROVE pos[i + 1] \in Nat
    <3>1. i + 1 \in Nat
      OBVIOUS
    <3> QED BY <3>1
  <2> QED BY <2>1
<1>3. Len(q) \in Nat /\ Len(r) = Len(q) + 1 /\ r[1] = << >> /\ \A i \in 1 .. Len(q) : r[i + 1] = q[i]
  <2>1. << >> \in Seq(X) /\ Len(q) \in Nat
    BY EmptySeq, LenProperties
  <2>2. /\ Len(r) = Len(q) + 1 /\ r[1] = << >>
        /\ \A i \in 1 .. Len(q) : r[i + 1] = q[i]
    BY <2>1, ConsParts
  <2> QED BY <2>1, <2>2
<1> HIDE DEF r, new
<1>4. ASSUME NEW i \in 1 .. Len(r)
      PROVE  Occurs(r[i], S, pos[i - 1]) /\ pos[i] = pos[i - 1] + Len(r[i])
  BY <1>1 DEF Flies
<1>5. pos[1] = pos[0] /\ pos[0] = Len(w) /\ Occurs(w, S, 0)
  <2>1. 1 \in 1 .. Len(r) /\ 1 - 1 = 0 /\ Len(<< >>) = 0 /\ pos[0] \in Nat
    BY <1>3
  <2>2. pos[1] = pos[0] + 0
    BY <1>3, <1>4, <2>1
  <2>3. pos[1] = pos[0]
    BY <2>1, <2>2
  <2> QED BY <1>1, <2>1, <2>2 DEF Flies
<1>6. new[0] = Len(w)
  BY <1>2, <1>5
<1>7. ASSUME NEW i \in 1 .. Len(q)
      PROVE  Occurs(q[i], S, new[i - 1]) /\ new[i] = new[i - 1] + Len(q[i])
  <2>1. i + 1 \in 1 .. Len(r) /\ i + 1 - 1 = i /\ i - 1 \in Nat /\ i \in Nat /\ i - 1 + 1 = i
    BY <1>3
  <2>2. new[i] = pos[i + 1] /\ new[i - 1] = pos[i] /\ r[i + 1] = q[i]
    BY <1>2, <1>3, <2>1
  <2>3. Occurs(r[i + 1], S, pos[i + 1 - 1]) /\ pos[i + 1] = pos[i + 1 - 1] + Len(r[i + 1])
    <3>1. PICK m \in 1 .. Len(r) : m = i + 1
      BY <2>1
    <3> QED BY <1>4, <3>1
  <2> QED BY <2>1, <2>2, <2>3
<1>8. Occurs(b, S, new[Len(q)]) /\ Len(S) = new[Len(q)] + Len(b)
  BY <1>1, <1>2, <1>3 DEF Flies
<1>9. Flies(w, q, b, S, new)
  BY <1>5, <1>6, <1>7, <1>8 DEF Flies
<1> QED BY <1>2, <1>9 DEF InFlight

-----------------------------------------------------------------------------
(* FlattenSeq, one sequence at a time.                                     *)

LEMMA NaturalsWellFounded ==
  IsWellFoundedOn({r \in Nat \X Nat : r[1] < r[2]}, Nat)
  BY NatLessThanWellFounded, Zenon DEF OpToRel

LEMMA SetInduction ==
  ASSUME NEW T \in SUBSET Nat, 0 \in T, \A n \in T : n + 1 \in T
  PROVE  T = Nat
<1> DEFINE R == {r \in Nat \X Nat : r[1] < r[2]}
<1> SUFFICES ASSUME Nat \ T # {} PROVE FALSE
  OBVIOUS
<1>1. PICK x \in Nat \ T : \A y \in Nat \ T : <<y, x>> \notin R
  <2> HIDE DEF R
  <2> QED BY WFMin, NaturalsWellFounded DEF R
<1>2. x - 1 \in Nat /\ x - 1 < x /\ x - 1 + 1 = x
  BY SMT
<1>3. <<x - 1, x>> \in R
  BY <1>2, SMT
<1>4. x - 1 \in T
  <2> HIDE DEF R
  <2> QED BY <1>1, <1>2, <1>3
<1> QED BY <1>2, <1>4

IsFlat(s, f, n) == f = [i \in 1 .. n |-> IF i = 1 THEN s[i] ELSE f[i - 1] \o s[i]]

LEMMA FlatStep ==
  ASSUME NEW s, NEW f, NEW n, IsFlat(s, f, n), NEW i \in 1 .. n
  PROVE  f[i] = IF i = 1 THEN s[i] ELSE f[i - 1] \o s[i]
BY Zenon DEF IsFlat

LEMMA FlatExists ==
  ASSUME NEW s
  PROVE  \A n \in Nat : \E f : IsFlat(s, f, n)
<1> DEFINE T == {n \in Nat : \E f : IsFlat(s, f, n)}
<1>1. 0 \in T
  <2>1. IsFlat(s, [i \in 1 .. 0 |-> s[1]], 0)
    BY SMT DEF IsFlat
  <2> QED BY <2>1
<1>2. ASSUME NEW n \in T PROVE n + 1 \in T
  <2>1. PICK f : IsFlat(s, f, n)
    OBVIOUS
  <2> DEFINE last == IF n + 1 = 1 THEN s[n + 1] ELSE f[n] \o s[n + 1]
             g == [i \in 1 .. n + 1 |-> IF i = n + 1 THEN last ELSE f[i]]
  <2>2. ASSUME NEW i \in 1 .. n + 1
        PROVE  g[i] = IF i = 1 THEN s[i] ELSE g[i - 1] \o s[i]
    <3> HIDE DEF last
    <3>1. n \in Nat
      OBVIOUS
    <3>2. CASE i = n + 1
      <4>1. g[i] = last
        BY <3>2
      <4>2. i # 1 => g[i - 1] = f[n]
        BY <3>1, <3>2
      <4> QED BY <3>2, <4>1, <4>2, Zenon DEF last
    <3>3. CASE i # n + 1
      <4>1. i \in 1 .. n
        BY <3>1, <3>3
      <4>2. g[i] = f[i] /\ (i # 1 => g[i - 1] = f[i - 1])
        BY <3>1, <4>1
      <4>3. f[i] = IF i = 1 THEN s[i] ELSE f[i - 1] \o s[i]
        BY <2>1, <4>1, FlatStep
      <4> QED BY <4>2, <4>3
    <3> QED BY <3>2, <3>3
  <2>3. IsFlat(s, g, n + 1)
    <3> HIDE DEF last
    <3>1. g = [i \in 1 .. n + 1 |-> g[i]]
      OBVIOUS
    <3> HIDE DEF g
    <3> QED BY <2>2, <3>1, Zenon DEF IsFlat
  <2> HIDE DEF g
  <2> QED BY <2>3
<1>3. T = Nat
  <2> HIDE DEF T
  <2>1. T \in SUBSET Nat
    BY DEF T
  <2> QED BY <1>1, <1>2, <2>1, SetInduction
<1> QED BY <1>3

LEMMA FlatsAgree ==
  ASSUME NEW s, NEW t, NEW f, NEW g, NEW n \in Nat, NEW m \in Nat, n <= m,
         IsFlat(s, f, n), IsFlat(t, g, m), \A i \in 1 .. n : s[i] = t[i]
  PROVE  \A i \in 1 .. n : f[i] = g[i]
<1> DEFINE T == {k \in Nat : k \in 1 .. n => f[k] = g[k]}
<1>1. 0 \in T
  OBVIOUS
<1>2. ASSUME NEW k \in T PROVE k + 1 \in T
  <2> SUFFICES ASSUME k + 1 \in 1 .. n PROVE f[k + 1] = g[k + 1]
    OBVIOUS
  <2>1. k \in Nat /\ k + 1 \in 1 .. m /\ k + 1 - 1 = k
    OBVIOUS
  <2>2. f[k + 1] = IF k + 1 = 1 THEN s[k + 1] ELSE f[k + 1 - 1] \o s[k + 1]
    BY FlatStep
  <2>3. g[k + 1] = IF k + 1 = 1 THEN t[k + 1] ELSE g[k + 1 - 1] \o t[k + 1]
    BY <2>1, FlatStep
  <2>4. k + 1 # 1 => f[k] = g[k]
    BY <2>1
  <2>5. s[k + 1] = t[k + 1]
    OBVIOUS
  <2> QED BY <2>1, <2>2, <2>3, <2>4, <2>5
<1>3. T = Nat
  <2> HIDE DEF T
  <2>1. T \in SUBSET Nat
    BY DEF T
  <2> QED BY <1>1, <1>2, <2>1, SetInduction
<1> QED BY <1>3

LEMMA FlattenFlat ==
  ASSUME NEW Y, NEW s \in Seq(Y), s # << >>, NEW f, IsFlat(s, f, Len(s))
  PROVE  FlattenSeq(s) = f[Len(s)]
<1> DEFINE flatten == CHOOSE g : IsFlat(s, g, Len(s))
<1>1. Len(s) \in Nat /\ Len(s) # 0 /\ Len(s) <= Len(s) /\ Len(s) \in 1 .. Len(s)
  BY EmptySeq
<1>2. IsFlat(s, flatten, Len(s))
  OBVIOUS
<1>3. flatten[Len(s)] = f[Len(s)]
  <2> HIDE DEF flatten
  <2> QED BY <1>1, <1>2, FlatsAgree
<1>4. FlattenSeq(s) = flatten[Len(s)]
  BY <1>1, Zenon DEF FlattenSeq, IsFlat
<1> QED BY <1>3, <1>4

LEMMA FlattenAppend ==
  ASSUME NEW X, NEW s \in Seq(Seq(X)), NEW e \in Seq(X)
  PROVE  FlattenSeq(Append(s, e)) = FlattenSeq(s) \o e
<1> DEFINE r == Append(s, e)
           n == Len(s)
<1>1. /\ r \in Seq(Seq(X)) /\ Len(r) = n + 1 /\ n \in Nat /\ r # << >>
      /\ r[n + 1] = e /\ \A i \in 1 .. n : s[i] = r[i]
  BY AppendProperties, LenProperties
<1> HIDE DEF r
<1>2. PICK g : IsFlat(r, g, n + 1)
  <2>1. n + 1 \in Nat
    BY <1>1
  <2> QED BY <2>1, FlatExists
<1>3. FlattenSeq(r) = g[n + 1]
  BY <1>1, <1>2, FlattenFlat
<1>4. g[n + 1] = IF n + 1 = 1 THEN r[n + 1] ELSE g[n + 1 - 1] \o r[n + 1]
  <2>1. n + 1 \in 1 .. n + 1
    BY <1>1
  <2> QED BY <1>2, <2>1, FlatStep
<1>5. CASE s = << >>
  <2>1. n = 0 /\ FlattenSeq(s) = << >> /\ << >> \o e = e
    BY <1>5, ConcatEmptySeq DEF FlattenSeq
  <2> QED BY <1>1, <1>3, <1>4, <2>1 DEF r
<1>6. CASE s # << >>
  <2>1. n # 0 /\ n <= n + 1 /\ n + 1 # 1 /\ n + 1 - 1 = n /\ n \in 1 .. n
    BY <1>1, <1>6, EmptySeq
  <2>2. PICK f : IsFlat(s, f, n)
    BY <1>1, FlatExists
  <2>3. FlattenSeq(s) = f[n]
    BY <1>6, <2>2, FlattenFlat
  <2>4. f[n] = g[n]
    <3> HIDE DEF n
    <3>0. n + 1 \in Nat
      BY <1>1
    <3>2. n \in Nat /\ n <= n + 1 /\ IsFlat(s, f, n) /\ IsFlat(r, g, n + 1)
          /\ \A i \in 1 .. n : s[i] = r[i]
      BY <1>1, <1>2, <2>1, <2>2
    <3>1. \A i \in 1 .. n : f[i] = g[i]
      BY <3>0, <3>2, FlatsAgree
    <3> QED BY <2>1, <3>1
  <2> QED BY <1>1, <1>3, <1>4, <2>1, <2>3, <2>4 DEF r
<1> QED BY <1>5, <1>6

-----------------------------------------------------------------------------
(* The channel.  The stream is made of the packets in the order of their   *)
(* exchanges, which is the order of their numbers.                         *)

Numbered == \A k \in 1 .. Len(order) : order[k] = k

Bytes == Nodes \X Nat

\* The bytes of the first n packets.
First(n) == FlattenSeq([k \in 1 .. n |-> Channel!Bytes(k)])

LEMMA PacketType ==
  ASSUME NEW p \in Nodes
  PROVE  Channel!Bytes(p) \in Seq(Bytes)
<1>1. Size[p] \in Nat /\ \A k \in 1 .. Size[p] : <<p, k>> \in Bytes
  BY SocketAssumption DEF Bytes
<1> QED BY <1>1 DEF Channel!Bytes

LEMMA FirstSeq ==
  ASSUME NEW n \in Nat, 1 .. n \subseteq Nodes
  PROVE  [k \in 1 .. n |-> Channel!Bytes(k)] \in Seq(Seq(Bytes))
<1>1. \A k \in 1 .. n : Channel!Bytes(k) \in Seq(Bytes)
  BY PacketType
<1> QED BY <1>1

LEMMA FirstNone == First(0) = << >>
<1>1. [k \in 1 .. 0 |-> Channel!Bytes(k)] = << >>
  OBVIOUS
<1> QED BY <1>1, Zenon DEF First, FlattenSeq

LEMMA FirstNext ==
  ASSUME NEW n \in Nat, 1 .. n + 1 \subseteq Nodes
  PROVE  First(n + 1) = First(n) \o Channel!Bytes(n + 1)
<1> DEFINE s == [k \in 1 .. n |-> Channel!Bytes(k)]
           e == Channel!Bytes(n + 1)
           r == [k \in 1 .. n + 1 |-> Channel!Bytes(k)]
<1>1. 1 .. n \subseteq 1 .. n + 1 /\ n + 1 \in 1 .. n + 1 /\ n + 1 \in Nat
  OBVIOUS
<1>2. s \in Seq(Seq(Bytes)) /\ r \in Seq(Seq(Bytes)) /\ e \in Seq(Bytes)
  BY <1>1, FirstSeq, PacketType
<1>3. Len(s) = n /\ Len(r) = n + 1 /\ r[n + 1] = e /\ \A k \in 1 .. n : s[k] = r[k]
  BY <1>1
<1> HIDE DEF s, r, e
<1>4. Append(s, e) = r
  <2>1. /\ Append(s, e) \in Seq(Seq(Bytes)) /\ Len(Append(s, e)) = n + 1
        /\ Append(s, e)[n + 1] = e /\ \A k \in 1 .. n : Append(s, e)[k] = s[k]
    BY <1>2, <1>3, AppendProperties
  <2>2. \A k \in 1 .. n + 1 : Append(s, e)[k] = r[k]
    BY <1>3, <2>1
  <2> QED BY <1>2, <1>3, <2>1, <2>2, SeqEqual
<1>5. FlattenSeq(Append(s, e)) = FlattenSeq(s) \o e
  BY <1>2, FlattenAppend
<1> QED BY <1>4, <1>5 DEF First, s, r, e

LEMMA FirstType ==
  \A n \in Nat : 1 .. n \subseteq Nodes => First(n) \in Seq(Bytes)
<1> DEFINE T == {n \in Nat : 1 .. n \subseteq Nodes => First(n) \in Seq(Bytes)}
<1>1. 0 \in T
  BY FirstNone, EmptySeq
<1>2. ASSUME NEW n \in T PROVE n + 1 \in T
  <2> SUFFICES ASSUME 1 .. n + 1 \subseteq Nodes PROVE First(n + 1) \in Seq(Bytes)
    OBVIOUS
  <2>1. n \in Nat /\ 1 .. n \subseteq 1 .. n + 1 /\ n + 1 \in 1 .. n + 1
    OBVIOUS
  <2>2. First(n) \in Seq(Bytes) /\ Channel!Bytes(n + 1) \in Seq(Bytes)
    BY <2>1, PacketType
  <2>3. First(n + 1) = First(n) \o Channel!Bytes(n + 1)
    BY <2>1, FirstNext
  <2> QED BY <2>2, <2>3, ConcatProperties
<1>3. T = Nat
  <2> HIDE DEF T
  <2>1. T \in SUBSET Nat
    BY DEF T
  <2> QED BY <1>1, <1>2, <2>1, SetInduction
<1> QED BY <1>3

\* What has been written of the first packets is there when more are accepted.
LEMMA FirstStays ==
  ASSUME NEW w \in Seq(Bytes), NEW k \in Nat, Occurs(w, First(k), 0)
  PROVE  \A n \in Nat : k <= n /\ 1 .. n \subseteq Nodes => Occurs(w, First(n), 0)
<1> DEFINE T == {n \in Nat : k <= n /\ 1 .. n \subseteq Nodes => Occurs(w, First(n), 0)}
<1>1. 0 \in T
  OBVIOUS
<1>2. ASSUME NEW n \in T PROVE n + 1 \in T
  <2> SUFFICES ASSUME k <= n + 1, 1 .. n + 1 \subseteq Nodes PROVE Occurs(w, First(n + 1), 0)
    OBVIOUS
  <2>1. n \in Nat /\ 1 .. n \subseteq 1 .. n + 1 /\ n + 1 \in 1 .. n + 1
    OBVIOUS
  <2>2. CASE k = n + 1
    BY <2>2
  <2>3. CASE k # n + 1
    <3>1. Occurs(w, First(n), 0)
      BY <2>1, <2>3
    <3>2. First(n) \in Seq(Bytes) /\ Channel!Bytes(n + 1) \in Seq(Bytes)
      BY <2>1, FirstType, PacketType
    <3>3. First(n + 1) = First(n) \o Channel!Bytes(n + 1)
      BY <2>1, FirstNext
    <3> QED BY <3>1, <3>2, <3>3, OccursAlso
  <2> QED BY <2>2, <2>3
<1>3. T = Nat
  <2> HIDE DEF T
  <2>1. T \in SUBSET Nat
    BY DEF T
  <2> QED BY <1>1, <1>2, <2>1, SetInduction
<1> QED BY <1>3

LEMMA StreamIsFirst ==
  ASSUME order \in Seq(Nodes), Numbered
  PROVE  Channel!Stream = First(Len(order))
<1>1. DOMAIN order = 1 .. Len(order)
  BY LenProperties
<1>2. [k \in DOMAIN order |-> Channel!Bytes(order[k])] = [k \in 1 .. Len(order) |-> Channel!Bytes(k)]
  BY <1>1 DEF Numbered
<1>3. Channel!Stream = FlattenSeq([k \in DOMAIN order |-> Channel!Bytes(order[k])])
  BY Zenon DEF Channel!Stream, Channel!FlattenSeq, FlattenSeq
<1> QED BY <1>2, <1>3 DEF First

-----------------------------------------------------------------------------
USE MPSCAssumption, SocketAssumption

-----------------------------------------------------------------------------
(* The queue: from the tail to the head its cells form a chain, in which   *)
(* a link is missing only where a thread is about to set it.               *)

Waits(t, L, k) == push[t] = [node |-> L[k + 1], prevHead |-> L[k]]

Chain(L, lo, hi) ==
  /\ lo <= hi
  /\ L[lo] = tail /\ L[hi] = head /\ link[head] = Null
  /\ \A j, k \in lo .. hi : L[j] = L[k] => j = k
  /\ \A k \in lo .. hi - 1 :
       link[L[k]] = L[k + 1] \/ (link[L[k]] = Null /\ \E t \in Threads : Waits(t, L, k))
  /\ \A t \in Threads : Pushing(t) =>
       \E k \in lo .. hi - 1 : Waits(t, L, k) /\ link[L[k]] = Null
  /\ \A t, u \in Threads : Pushing(t) /\ push[t] = push[u] => t = u

\* A node that is appended to the chain is its new end, not linked yet.
LEMMA ExchangeChain ==
  ASSUME MPSCTypeOK, NEW lo \in Nat, NEW hi \in Nat, NEW L \in [Nat -> Cells],
         Chain(L, lo, hi), NEW t \in Threads, NEW n \in Cells,
         \A k \in lo .. hi : L[k] # n, Exchange(t, n), tail' = tail
  PROVE  Chain([L EXCEPT ![hi + 1] = n], lo, hi + 1)'
<1> DEFINE M == [L EXCEPT ![hi + 1] = n]
<1> hi + 1 \in Nat
  OBVIOUS
<1>1. M \in [Nat -> Cells] /\ M[hi + 1] = n /\ \A k \in lo .. hi : M[k] = L[k] /\ M[k] # n
  BY DEF Chain
<1>2. /\ head' = n /\ link'[n] = Null /\ link' = [link EXCEPT ![n] = Null]
      /\ push' = [push EXCEPT ![t] = [node |-> n, prevHead |-> head]]
      /\ ~Pushing(t)
  BY DEF Exchange, MPSCTypeOK
<1> HIDE DEF M
<1>3. M[lo] = tail' /\ lo <= hi + 1
  BY <1>1 DEF Chain
<1>4. ASSUME NEW j \in lo .. hi + 1, NEW k \in lo .. hi + 1, M[j] = M[k] PROVE j = k
  <2>1. \A i \in lo .. hi + 1 : i = hi + 1 \/ i \in lo .. hi
    OBVIOUS
  <2> QED BY <1>1, <1>4, <2>1 DEF Chain
<1>5. \A r \in Threads : r # t => push'[r] = push[r] /\ Pushing(r)' = Pushing(r)
  BY <1>2 DEF Pushing, MPSCTypeOK
<1>6. push'[t] = [node |-> M[hi + 1], prevHead |-> M[hi]] /\ Pushing(t)'
  <2>1. M[hi] = head
    BY <1>1 DEF Chain
  <2>2. push'[t] = [node |-> n, prevHead |-> head]
    BY <1>2 DEF MPSCTypeOK
  <2>3. [node |-> n, prevHead |-> head] # NoPush
    BY DEF NoPush, Cells
  <2> QED BY <1>1, <2>1, <2>2, <2>3 DEF Pushing
<1>7. link'[M[hi]] = Null
  BY <1>1, <1>2 DEF Chain, MPSCTypeOK
<1>8. \A k \in lo .. hi - 1 : k \in lo .. hi /\ k + 1 \in lo .. hi
                              /\ M[k] = L[k] /\ M[k + 1] = L[k + 1] /\ link'[M[k]] = link[L[k]]
  BY <1>1, <1>2 DEF MPSCTypeOK
<1>9. ASSUME NEW k \in lo .. hi
      PROVE  \/ link'[M[k]] = M[k + 1]
             \/ link'[M[k]] = Null /\ \E r \in Threads : Waits(r, M, k)'
  <2>1. CASE k = hi
    BY <1>6, <1>7, <2>1 DEF Waits
  <2>2. CASE k \in lo .. hi - 1
    <3>1. CASE link[L[k]] = L[k + 1]
      BY <1>8, <2>2, <3>1
    <3>2. CASE link[L[k]] = Null /\ \E r \in Threads : Waits(r, L, k)
      <4>1. PICK r \in Threads : Waits(r, L, k)
        BY <3>2
      <4>2. r # t
        <5>1. L[k] \in Cells /\ L[k + 1] \in Cells
          BY <2>2
        <5>2. Pushing(r)
          BY <4>1, <5>1 DEF Waits, Pushing, NoPush, Cells
        <5> QED BY <1>2, <5>2
      <4>3. Waits(r, M, k)'
        BY <1>5, <1>8, <2>2, <4>1, <4>2 DEF Waits
      <4> QED BY <1>8, <2>2, <3>2, <4>3
    <3> QED BY <2>2, <3>1, <3>2 DEF Chain
  <2> QED BY <2>1, <2>2
<1>10. ASSUME NEW r \in Threads, Pushing(r)'
       PROVE  \E k \in lo .. hi : Waits(r, M, k)' /\ link'[M[k]] = Null
  <2>1. CASE r = t
    BY <1>6, <1>7, <2>1 DEF Waits, Chain
  <2>2. CASE r # t
    <3>1. PICK k \in lo .. hi - 1 : Waits(r, L, k) /\ link[L[k]] = Null
      BY <1>5, <1>10, <2>2 DEF Chain
    <3> QED BY <1>5, <1>8, <2>2, <3>1 DEF Waits
  <2> QED BY <2>1, <2>2
<1>11. ASSUME NEW r \in Threads, NEW u \in Threads, Pushing(r)', push'[r] = push'[u]
       PROVE  r = u
  <2>1. ASSUME NEW v \in Threads, v # t PROVE push'[v] # push'[t]
    <3>1. CASE Pushing(v)
      <4>1. PICK k \in lo .. hi - 1 : push[v] = [node |-> L[k + 1], prevHead |-> L[k]]
        BY <3>1 DEF Chain, Waits
      <4>2. push[v].node # n
        BY <1>1, <1>8, <4>1
      <4> QED BY <1>1, <1>5, <1>6, <2>1, <4>2
    <3>2. CASE ~Pushing(v)
      BY <1>5, <1>6, <2>1, <3>2 DEF Pushing
    <3> QED BY <3>1, <3>2
  <2> QED BY <1>5, <1>11, <2>1 DEF Chain
<1> QED
  <2>1. (hi + 1) - 1 = hi
    OBVIOUS
  <2>2. Chain(M, lo, hi + 1)'
    BY <1>1, <1>2, <1>3, <1>4, <1>9, <1>10, <1>11, <2>1 DEF Chain
  <2> QED BY <2>2 DEF M

\* The link that is set is the one of the chain that was missing.
LEMMA LinkChain ==
  ASSUME MPSCTypeOK, NEW lo \in Nat, NEW hi \in Nat, NEW L \in [Nat -> Cells],
         Chain(L, lo, hi), NEW t \in Threads, Link(t)
  PROVE  Chain(L, lo, hi)'
<1>1. PICK i \in lo .. hi - 1 : Waits(t, L, i) /\ link[L[i]] = Null
  BY DEF Link, Chain
<1>2. push[t].prevHead = L[i] /\ push[t].node = L[i + 1]
  BY <1>1 DEF Waits
<1>3. link' = [link EXCEPT ![L[i]] = L[i + 1]] /\ push' = [push EXCEPT ![t] = NoPush]
      /\ head' = head /\ tail' = tail
  BY <1>2 DEF Link
<1>4. \A k \in lo .. hi : k # i => L[k] # L[i] /\ link'[L[k]] = link[L[k]]
  BY <1>1, <1>3 DEF Chain, MPSCTypeOK
<1>5. link'[L[i]] = L[i + 1]
  BY <1>1, <1>3 DEF MPSCTypeOK
<1>6. ~Pushing(t)' /\ \A u \in Threads : u # t => push'[u] = push[u] /\ Pushing(u)' = Pushing(u)
  BY <1>3 DEF Pushing, MPSCTypeOK
<1>7. \A u \in Threads, k \in lo .. hi - 1 : Waits(u, L, k) /\ k # i => u # t
  BY <1>1, <1>2, <1>4 DEF Waits
<1>8. \A k \in lo .. hi - 1 : k \in lo .. hi
  OBVIOUS
<1>9. ASSUME NEW k \in lo .. hi - 1
      PROVE  \/ link'[L[k]] = L[k + 1]
             \/ link'[L[k]] = Null /\ \E u \in Threads : Waits(u, L, k)'
  <2>1. CASE k = i
    BY <1>5, <2>1
  <2>2. CASE k # i
    <3>1. CASE link[L[k]] = L[k + 1]
      BY <1>4, <1>8, <2>2, <3>1
    <3>2. CASE link[L[k]] = Null /\ \E u \in Threads : Waits(u, L, k)
      <4>1. PICK u \in Threads : Waits(u, L, k)
        BY <3>2
      <4>2. Waits(u, L, k)'
        BY <1>6, <1>7, <2>2, <4>1 DEF Waits
      <4> QED BY <1>4, <1>8, <2>2, <3>2, <4>2
    <3> QED BY <3>1, <3>2 DEF Chain
  <2> QED BY <2>1, <2>2
<1>10. ASSUME NEW u \in Threads, Pushing(u)'
       PROVE  \E k \in lo .. hi - 1 : Waits(u, L, k)' /\ link'[L[k]] = Null
  <2>1. u # t /\ Pushing(u)
    BY <1>6, <1>10
  <2>2. PICK k \in lo .. hi - 1 : Waits(u, L, k) /\ link[L[k]] = Null
    BY <2>1 DEF Chain
  <2>3. k # i
    <3>1. SUFFICES ASSUME k = i PROVE FALSE
      OBVIOUS
    <3>2. push[u] = push[t]
      BY <1>1, <2>2, <3>1 DEF Waits
    <3> QED BY <2>1, <3>2 DEF Chain
  <2> QED BY <1>4, <1>6, <1>8, <2>1, <2>2, <2>3 DEF Waits
<1>11. \A u, v \in Threads : Pushing(u)' /\ push'[u] = push'[v] => u = v
  <2>1. \A u \in Threads : Pushing(u)' => push'[u] # push'[t]
    BY <1>6 DEF Pushing
  <2> QED BY <1>6, <2>1 DEF Chain
<1>12. link'[head] = Null
  <2>1. hi \in lo .. hi /\ hi # i
    BY <1>1 DEF Chain
  <2> QED BY <1>4, <2>1 DEF Chain
<1> QED BY <1>3, <1>9, <1>10, <1>11, <1>12 DEF Chain

\* The consumer goes on to the next node when it sees the link to it.
LEMMA AdvanceChain ==
  ASSUME MPSCTypeOK, NEW lo \in Nat, NEW hi \in Nat, NEW L \in [Nat -> Cells],
         Chain(L, lo, hi), link[tail] # Null, tail' = link[tail],
         UNCHANGED <<link, head, push>>
  PROVE  lo < hi /\ Chain(L, lo + 1, hi)'
<1>1. lo < hi
  BY DEF Chain
<1>2. L[lo + 1] = link[tail]
  BY <1>1 DEF Chain
<1>3. \A t \in Threads, k \in lo .. hi - 1 : Waits(t, L, k) /\ link[L[k]] = Null =>
        k \in lo + 1 .. hi - 1
  BY DEF Chain
<1>4. \A t \in Threads : Pushing(t)' = Pushing(t) /\ \A k \in Nat : Waits(t, L, k)' = Waits(t, L, k)
  BY DEF Pushing, Waits
<1>5. \A k \in lo + 1 .. hi - 1 : k \in lo .. hi - 1 /\ k \in Nat
  OBVIOUS
<1>6. \A k \in lo + 1 .. hi : k \in lo .. hi
  OBVIOUS
<1>7. \A k \in lo + 1 .. hi - 1 :
        link'[L[k]] = L[k + 1] \/ (link'[L[k]] = Null /\ \E t \in Threads : Waits(t, L, k)')
  BY <1>4, <1>5 DEF Chain
<1>8. \A t \in Threads : Pushing(t)' =>
        \E k \in lo + 1 .. hi - 1 : Waits(t, L, k)' /\ link'[L[k]] = Null
  BY <1>3, <1>4, <1>5 DEF Chain
<1>9. \A t, u \in Threads : Pushing(t)' /\ push'[t] = push'[u] => t = u
  BY <1>4 DEF Chain
<1>10. \A j, k \in lo + 1 .. hi : L[j] = L[k] => j = k
  BY <1>6 DEF Chain
<1> QED BY <1>1, <1>2, <1>7, <1>8, <1>9, <1>10 DEF Chain

-----------------------------------------------------------------------------
(* The packets in it: those that were accepted and not deleted, in order,  *)
(* and perhaps the dummy.                                                  *)

Accepted == 1 .. Len(order)

Placed(L, lo, hi) ==
  /\ \A k \in lo .. hi : L[k] # Dummy => L[k] \in Accepted \ freed
  /\ \A n \in Accepted \ freed : \E k \in lo .. hi : L[k] = n
  /\ \A j, k \in lo .. hi : j < k /\ L[j] # Dummy /\ L[k] # Dummy => L[j] < L[k]
  /\ \A n \in freed, k \in lo .. hi : L[k] # Dummy => n < L[k]
  /\ deqAt = "dummy" => \A k \in lo .. hi : L[k] # Dummy

QueueInv ==
  /\ freed \subseteq Accepted
  /\ deqAt = "head" => tail # Dummy
  /\ \E L \in [Nat -> Cells], lo, hi \in Nat : Chain(L, lo, hi) /\ Placed(L, lo, hi)

LEMMA QueueInit ==
  ASSUME Init
  PROVE  QueueInv
<1> DEFINE L == [k \in Nat |-> Dummy]
<1>1. L \in [Nat -> Cells] /\ L[0] = Dummy
  BY DEF Cells
<1>2. head = Dummy /\ tail = Dummy /\ link[Dummy] = Null /\ deqAt = "load"
      /\ freed = {} /\ order = << >> /\ \A t \in Threads : ~Pushing(t)
  BY DEF Init, MPSCInit, Pushing, Cells
<1>3. \A k \in 0 .. 0 : k = 0
  OBVIOUS
<1>4. 0 .. 0 - 1 = {} /\ Accepted = {}
  BY <1>2 DEF Accepted
<1> HIDE DEF L
<1>5. Chain(L, 0, 0)
  BY <1>1, <1>2, <1>3, <1>4 DEF Chain
<1>6. Placed(L, 0, 0)
  BY <1>1, <1>2, <1>3, <1>4 DEF Placed
<1> QED BY <1>1, <1>2, <1>5, <1>6 DEF QueueInv

\* Steps that have nothing to do with the queue.
LEMMA QueueQuiet ==
  ASSUME QueueInv, UNCHANGED <<queueVars, freed>>
  PROVE  QueueInv'
<1>1. UNCHANGED <<link, head, tail, push, deqAt, order, freed>>
  BY DEF queueVars, mpscVars
<1>2. \A L \in [Nat -> Cells], lo, hi \in Nat :
        Chain(L, lo, hi)' = Chain(L, lo, hi) /\ Placed(L, lo, hi)' = Placed(L, lo, hi)
  BY <1>1 DEF Chain, Placed, Waits, Pushing, Accepted
<1> QED BY <1>1, <1>2 DEF QueueInv, Accepted

\* The chain is as it was and nothing is accepted or deleted.
LEMMA QueueStays ==
  ASSUME QueueInv, UNCHANGED <<link, head, tail, push, order, freed>>,
         deqAt' = "head" => tail # Dummy, deqAt' = "dummy" => deqAt = "dummy"
  PROVE  QueueInv'
<1>1. \A L \in [Nat -> Cells], lo, hi \in Nat : Chain(L, lo, hi)' = Chain(L, lo, hi)
  BY DEF Chain, Waits, Pushing
<1>2. \A L \in [Nat -> Cells], lo, hi \in Nat : Placed(L, lo, hi) => Placed(L, lo, hi)'
  BY DEF Placed, Accepted
<1> QED BY <1>1, <1>2 DEF QueueInv, Accepted

\* A packet is accepted: it is behind all the others.
LEMMA EnqueueStep ==
  ASSUME MPSCTypeOK, order \in Seq(Nodes), QueueInv, NEW t \in Threads,
         Accepted \subseteq Nodes, Len(order) + 1 \in Nodes, EnqueuePacket(t),
         UNCHANGED <<tail, deqAt, freed>>
  PROVE  QueueInv'
<1>0. PICK n \in Nodes : n = Len(order) + 1
  OBVIOUS
<1>1. PICK L \in [Nat -> Cells], lo \in Nat, hi \in Nat : Chain(L, lo, hi) /\ Placed(L, lo, hi)
  BY DEF QueueInv
<1>2. Len(order') = n /\ Accepted' = Accepted \cup {n} /\ n \notin Accepted
      /\ \A k \in Accepted : k < n
  BY <1>0, AppendProperties DEF EnqueuePacket, Accepted
<1>3. n \in Cells /\ n # Dummy /\ Exchange(t, n) /\ Dummy \notin Accepted
  BY <1>0 DEF Cells, EnqueuePacket
<1>4. \A k \in lo .. hi : L[k] # n
  BY <1>1, <1>2, <1>3 DEF Placed
<1> DEFINE M == [L EXCEPT ![hi + 1] = n]
<1>5. M \in [Nat -> Cells] /\ M[hi + 1] = n /\ \A k \in lo .. hi : M[k] = L[k]
  BY <1>3
<1>6. Chain(M, lo, hi + 1)'
  BY <1>1, <1>3, <1>4, ExchangeChain
<1> HIDE DEF M
<1>7. \A k \in lo .. hi + 1 : k = hi + 1 \/ k \in lo .. hi
  OBVIOUS
<1>8. freed \subseteq Accepted
  BY DEF QueueInv
<1>9. Placed(M, lo, hi + 1)'
  <2>1. \A k \in lo .. hi + 1 : M[k] # Dummy => M[k] \in Accepted' \ freed'
    BY <1>1, <1>2, <1>5, <1>7, <1>8 DEF Placed
  <2>2. \A k \in Accepted' \ freed' : \E j \in lo .. hi + 1 : M[j] = k
    <3>1. hi + 1 \in lo .. hi + 1 /\ \A j \in lo .. hi : j \in lo .. hi + 1
      BY <1>1 DEF Chain
    <3> QED BY <1>1, <1>2, <1>5, <3>1 DEF Placed
  <2>3. ASSUME NEW j \in lo .. hi + 1, NEW k \in lo .. hi + 1, j < k, M[j] # Dummy, M[k] # Dummy
        PROVE  M[j] < M[k]
    <3>1. j \in lo .. hi
      BY <2>3
    <3>2. M[j] = L[j] /\ L[j] \in Accepted
      BY <1>1, <1>5, <2>3, <3>1 DEF Placed
    <3>3. CASE k = hi + 1
      BY <1>2, <1>5, <3>2, <3>3
    <3>4. CASE k \in lo .. hi
      BY <1>1, <1>5, <2>3, <3>1, <3>2, <3>4 DEF Placed
    <3> QED BY <1>7, <3>3, <3>4
  <2>4. ASSUME NEW k \in freed', NEW j \in lo .. hi + 1, M[j] # Dummy PROVE k < M[j]
    <3>1. CASE j = hi + 1
      BY <1>2, <1>5, <1>8, <3>1
    <3>2. CASE j \in lo .. hi
      BY <1>1, <1>5, <2>4, <3>2 DEF Placed
    <3> QED BY <1>7, <3>1, <3>2
  <2>5. deqAt' = "dummy" => \A k \in lo .. hi + 1 : M[k] # Dummy
    BY <1>1, <1>3, <1>5, <1>7 DEF Placed
  <2> QED BY <2>1, <2>2, <2>3, <2>4, <2>5 DEF Placed
<1>10. hi + 1 \in Nat
  OBVIOUS
<1>11. freed' \subseteq Accepted' /\ (deqAt' = "head" => tail' # Dummy)
  BY <1>2, <1>8 DEF QueueInv
<1> QED BY <1>5, <1>6, <1>9, <1>10, <1>11 DEF QueueInv

LEMMA LinkStep ==
  ASSUME MPSCTypeOK, QueueInv, NEW t \in Threads, Link(t), UNCHANGED <<order, freed>>
  PROVE  QueueInv'
<1>1. PICK L \in [Nat -> Cells], lo \in Nat, hi \in Nat : Chain(L, lo, hi) /\ Placed(L, lo, hi)
  BY DEF QueueInv
<1>2. Chain(L, lo, hi)'
  BY <1>1, LinkChain
<1>3. deqAt' = deqAt /\ tail' = tail
  BY DEF Link
<1>4. Placed(L, lo, hi)'
  BY <1>1, <1>3 DEF Placed, Accepted
<1> QED BY <1>2, <1>3, <1>4 DEF QueueInv, Accepted

\* The tail goes on: past the dummy, or past a packet that is deleted.
LEMMA AdvanceStep ==
  ASSUME MPSCTypeOK, order \in Seq(Nodes), QueueInv, Accepted \subseteq Nodes,
         link[tail] # Null, tail' = link[tail], UNCHANGED <<link, head, push, order>>,
         freed' = freed \cup ({tail} \ {Dummy}), deqAt' = "load"
  PROVE  QueueInv'
<1>1. PICK L \in [Nat -> Cells], lo \in Nat, hi \in Nat : Chain(L, lo, hi) /\ Placed(L, lo, hi)
  BY DEF QueueInv
<1>2. lo < hi /\ Chain(L, lo + 1, hi)'
  BY <1>1, AdvanceChain
<1>3. L[lo] = tail /\ lo \in lo .. hi /\ Accepted' = Accepted
      /\ Accepted \subseteq Nat /\ Dummy \notin Accepted
  BY <1>1, <1>2 DEF Chain, Accepted
<1>4. \A k \in lo + 1 .. hi : k \in lo .. hi /\ lo < k /\ L[k] # tail
  BY <1>1, <1>2, <1>3 DEF Chain
<1>5. \A k \in lo .. hi : k = lo \/ k \in lo + 1 .. hi
  OBVIOUS
<1>6. tail # Dummy => tail \in Accepted
  BY <1>1, <1>3 DEF Placed
<1>7. Placed(L, lo + 1, hi)'
  <2>1. \A k \in lo + 1 .. hi : L[k] # Dummy => L[k] \in Accepted' \ freed'
    BY <1>1, <1>3, <1>4 DEF Placed
  <2>2. ASSUME NEW n \in Accepted' \ freed' PROVE \E k \in lo + 1 .. hi : L[k] = n
    <3>1. n \in Accepted \ freed /\ n # Dummy /\ n # tail
      BY <1>3
    <3> QED BY <1>1, <1>3, <1>5, <3>1 DEF Placed
  <2>3. \A j, k \in lo + 1 .. hi : j < k /\ L[j] # Dummy /\ L[k] # Dummy => L[j] < L[k]
    BY <1>1, <1>4 DEF Placed
  <2>4. \A n \in freed', k \in lo + 1 .. hi : L[k] # Dummy => n < L[k]
    BY <1>1, <1>3, <1>4 DEF Placed
  <2> QED BY <2>1, <2>2, <2>3, <2>4 DEF Placed
<1>8. freed \subseteq Accepted
  BY DEF QueueInv
<1>9. freed' \subseteq Accepted' /\ lo + 1 \in Nat
  <2>1. freed' \subseteq Accepted
    BY <1>6, <1>8
  <2> QED BY <1>3, <2>1
<1> QED BY <1>2, <1>7, <1>9 DEF QueueInv

\* A packet without a successor that is the head is all there is: the dummy is not
\* in the chain, and may be appended.
LEMMA IsHeadStep ==
  ASSUME MPSCTypeOK, QueueInv, IsHead, UNCHANGED <<order, freed>>
  PROVE  QueueInv'
<1>1. PICK L \in [Nat -> Cells], lo \in Nat, hi \in Nat : Chain(L, lo, hi) /\ Placed(L, lo, hi)
  BY DEF QueueInv
<1>2. /\ tail = head /\ tail # Dummy /\ deqAt' = "dummy"
      /\ UNCHANGED <<link, head, tail, push>>
  BY DEF IsHead, QueueInv
<1>3. lo = hi /\ L[lo] = tail
  BY <1>1, <1>2 DEF Chain
<1>4. Chain(L, lo, hi)'
  BY <1>1, <1>2 DEF Chain, Waits, Pushing
<1>5. \A k \in lo .. hi : L[k] # Dummy
  BY <1>2, <1>3
<1>6. Placed(L, lo, hi)'
  BY <1>1, <1>5 DEF Placed, Accepted
<1> QED BY <1>2, <1>4, <1>6 DEF QueueInv, Accepted

LEMMA EnqueueDummyStep ==
  ASSUME MPSCTypeOK, QueueInv, EnqueueDummy, UNCHANGED <<order, freed>>
  PROVE  QueueInv'
<1>1. PICK L \in [Nat -> Cells], lo \in Nat, hi \in Nat : Chain(L, lo, hi) /\ Placed(L, lo, hi)
  BY DEF QueueInv
<1>2. Exchange(Consumer, Dummy) /\ tail' = tail /\ deqAt = "dummy" /\ deqAt' = "again"
  BY DEF EnqueueDummy
<1>3. Dummy \in Cells /\ \A k \in lo .. hi : L[k] # Dummy
  BY <1>1, <1>2 DEF Placed, Cells
<1> DEFINE M == [L EXCEPT ![hi + 1] = Dummy]
<1>4. M \in [Nat -> Cells] /\ M[hi + 1] = Dummy /\ \A k \in lo .. hi : M[k] = L[k]
  BY <1>3
<1>5. Chain(M, lo, hi + 1)'
  BY <1>1, <1>2, <1>3, ExchangeChain
<1> HIDE DEF M
<1>6. \A k \in lo .. hi + 1 : k = hi + 1 \/ k \in lo .. hi
  OBVIOUS
<1>7. \A k \in lo .. hi : k \in lo .. hi + 1
  OBVIOUS
<1>8. Accepted' = Accepted
  BY DEF Accepted
<1>9. Placed(M, lo, hi + 1)'
  BY <1>1, <1>2, <1>4, <1>6, <1>7, <1>8 DEF Placed
<1>10. hi + 1 \in Nat
  OBVIOUS
<1> QED BY <1>2, <1>4, <1>5, <1>8, <1>9, <1>10 DEF QueueInv

-----------------------------------------------------------------------------
(* The names of the packets: those in the making are counted, so that they *)
(* have names when they are enqueued.                                      *)

NameInv ==
  /\ IsFiniteSet(sending)
  /\ Len(order) + Cardinality(sending) \in Nodes \cup {0}
  /\ auth # "in" => sending = {}
  /\ auth = "ip" => Len(order) = 0
  /\ auth \in {"challenged", "account"} => Len(order) = 1

LEMMA Named ==
  ASSUME TypeOK, NameInv
  PROVE  /\ Accepted \subseteq Nodes
         /\ sending # {} \/ auth \in {"ip", "account"} => Len(order) + 1 \in Nodes
         /\ MayMakePacket => Len(order) + 1 \in Nodes
<1>1. Len(order) \in Nat /\ Cardinality(sending) \in Nat
  <2>1. order \in Seq(Nodes) /\ IsFiniteSet(sending)
    BY DEF TypeOK, NameInv
  <2> QED BY <2>1, FS_CardinalityType, LenProperties
<1>2. sending # {} => Cardinality(sending) > 0
  BY <1>1, FS_EmptySet DEF NameInv
<1>3. \A n \in Nodes : \A k \in Nat : 1 <= k /\ k <= n => k \in Nodes
  OBVIOUS
<1>4. Accepted \subseteq Nodes
  BY <1>1, <1>3 DEF NameInv, Accepted
<1>5. sending # {} => Len(order) + 1 \in Nodes
  BY <1>1, <1>2, <1>3 DEF NameInv
<1>6. auth \in {"ip", "account"} => Len(order) + 1 \in Nodes
  <2>1. 0 + 1 \in Nodes /\ 1 + 1 \in Nodes
    OBVIOUS
  <2> QED BY <2>1 DEF NameInv
<1>7. MayMakePacket => Len(order) + 1 \in Nodes
  <2>1. SUFFICES ASSUME MayMakePacket PROVE Len(order) + 1 \in Nodes
    OBVIOUS
  <2>2. Len(order) + Cardinality(sending) + 1 \in Nodes
    BY <2>1 DEF MayMakePacket
  <2> QED BY <1>1, <1>3, <2>2
<1> QED BY <1>4, <1>5, <1>6, <1>7

-----------------------------------------------------------------------------
(* Types.                                                                  *)

LEMMA TypeInit ==
  ASSUME Init
  PROVE  TypeOK
<1>1. << >> \in Seq(Nodes) /\ << >> \in Seq(Nodes \X Nat) /\ << >> \in Seq(Seq(Nodes \X Nat))
  BY EmptySeq
<1>2. MPSCTypeOK
  BY DEF Init, MPSCInit, MPSCTypeOK, Cells
<1>3. unread \in 0 .. MaxRead /\ freed \subseteq Nodes /\ order \in Seq(Nodes)
      /\ buffer \in Seq(Nodes \X Nat) /\ writeQueue \in Seq(Seq(Nodes \X Nat))
      /\ wire \in Seq(Nodes \X Nat)
  BY <1>1 DEF Init
<1> QED BY <1>2, <1>3 DEF Init, TypeOK

LEMMA ExchangeType ==
  ASSUME TypeOK, NEW t \in Threads, NEW n \in Cells, Exchange(t, n), tail' = tail,
         deqAt' \in {"load", "head", "dummy", "again"}
  PROVE  MPSCTypeOK'
<1>1. link' \in [Cells -> Cells \cup {Null}] /\ head' \in Cells /\ tail' \in Cells
  BY DEF Exchange, TypeOK, MPSCTypeOK
<1>2. [node |-> n, prevHead |-> head] \in [node : Cells, prevHead : Cells]
  BY DEF TypeOK, MPSCTypeOK
<1>3. push' \in [Threads -> [node : Cells, prevHead : Cells] \cup {NoPush}]
  BY <1>2 DEF Exchange, TypeOK, MPSCTypeOK
<1> QED BY <1>1, <1>3 DEF MPSCTypeOK

LEMMA EnqueueType ==
  ASSUME TypeOK, NEW t \in Threads, EnqueuePacket(t), Len(order) + 1 \in Nodes,
         UNCHANGED <<tail, deqAt>>
  PROVE  MPSCTypeOK' /\ order' \in Seq(Nodes)
<1>1. Len(order) + 1 \in Cells /\ Exchange(t, Len(order) + 1)
  BY DEF Cells, EnqueuePacket
<1>2. MPSCTypeOK'
  BY <1>1, ExchangeType DEF TypeOK, MPSCTypeOK
<1> QED BY <1>2, AppendProperties DEF EnqueuePacket, TypeOK

LEMMA LinkType ==
  ASSUME TypeOK, NEW t \in Threads, Link(t)
  PROVE  MPSCTypeOK'
<1>1. push[t] \in [node : Cells, prevHead : Cells]
  BY DEF Link, Pushing, TypeOK, MPSCTypeOK
<1> QED BY <1>1 DEF Link, TypeOK, MPSCTypeOK

LEMMA BufferedType ==
  ASSUME TypeOK, NEW p \in Nodes, Buffered(p)
  PROVE  buffer' \in Seq(Bytes) /\ writeQueue' \in Seq(Seq(Bytes))
<1> DEFINE bytes == Channel!Bytes(p)
           fits == Len(buffer) + Len(bytes) <= SendBufferSize
           big == Len(bytes) > SendBufferSize
           first == IF fits THEN << >> ELSE <<buffer>>
           second == IF big THEN <<bytes>> ELSE << >>
<1>1. bytes \in Seq(Bytes)
  <2>1. Size[p] \in Nat /\ \A k \in 1 .. Size[p] : <<p, k>> \in Bytes
    BY DEF Bytes
  <2> QED BY <2>1 DEF Channel!Bytes
<1>2. buffer \in Seq(Bytes) /\ writeQueue \in Seq(Seq(Bytes)) /\ << >> \in Seq(Bytes)
      /\ << >> \in Seq(Seq(Bytes))
  BY EmptySeq DEF TypeOK, Bytes
<1>3. <<buffer>> \in Seq(Seq(Bytes)) /\ <<bytes>> \in Seq(Seq(Bytes))
  BY <1>1, <1>2
<1>4. first \in Seq(Seq(Bytes)) /\ second \in Seq(Seq(Bytes))
  BY <1>2, <1>3
<1>5. writeQueue' = writeQueue \o first \o second
      /\ buffer' = IF fits THEN buffer \o bytes ELSE IF big THEN << >> ELSE bytes
  BY DEF Buffered
<1> HIDE DEF bytes, first, second
<1>6. writeQueue' \in Seq(Seq(Bytes))
  BY <1>2, <1>4, <1>5, ConcatProperties
<1> QED BY <1>1, <1>2, <1>5, <1>6, ConcatProperties

\* A write closes the socket only if that was asked for.
LEMMA HandleQueueType ==
  ASSUME TypeOK, NEW sent \in Nat, HandleQueue(sent)
  PROVE  /\ isWritingAsync' \in BOOLEAN
         /\ writeQueue' \in Seq(Seq(Bytes)) /\ wire' \in Seq(Bytes)
         /\ \/ UNCHANGED <<closed, closers>>
            \/ closing /\ CloseSocket(Net)
<1> DEFINE front == Head(writeQueue)
<1>1. writeQueue \in Seq(Seq(Bytes)) /\ wire \in Seq(Bytes)
  BY DEF TypeOK, Bytes
<1>2. CASE writeQueue = << >>
  BY <1>1, <1>2 DEF HandleQueue
<1>3. CASE writeQueue # << >>
  <2>1. front \in Seq(Bytes) /\ Tail(writeQueue) \in Seq(Seq(Bytes))
    BY <1>1, <1>3, HeadTailProperties
  <2>2. Len(front) \in Nat
    BY <2>1
  <2>3. ASSUME sent <= Len(front)
        PROVE  /\ wire \o SubSeq(front, 1, sent) \in Seq(Bytes)
               /\ <<SubSeq(front, sent + 1, Len(front))>> \o Tail(writeQueue) \in Seq(Seq(Bytes))
    <3>1. \A i \in 1 .. Len(front) : front[i] \in Bytes
      BY <2>1, ElementOfSeq
    <3>2. SubSeq(front, 1, sent) \in Seq(Bytes)
      BY <2>2, <2>3, <3>1, SubSeqProperties
    <3>3. SubSeq(front, sent + 1, Len(front)) \in Seq(Bytes)
      BY <2>2, <3>1, SubSeqProperties
    <3>4. <<SubSeq(front, sent + 1, Len(front))>> \in Seq(Seq(Bytes))
      BY <3>3
    <3> QED BY <1>1, <2>1, <3>2, <3>4, ConcatProperties
  <2> HIDE DEF front
  <2>4. CASE network # "up" \/ sent = Len(front)
    <3>1. sent <= Len(front) /\ Pop(sent) /\ isWritingAsync' = FALSE
          /\ wire' = wire \o SubSeq(front, 1, sent)
      BY <1>3, <2>2, <2>4 DEF HandleQueue, front
    <3> QED BY <2>1, <2>3, <3>1 DEF Pop
  <2>5. CASE ~(network # "up" \/ sent = Len(front))
    <3>1. /\ sent < Len(front) /\ isWritingAsync' = TRUE /\ UNCHANGED <<closed, closers>>
          /\ writeQueue' = <<SubSeq(front, sent + 1, Len(front))>> \o Tail(writeQueue)
          /\ wire' = wire \o SubSeq(front, 1, sent)
      BY <1>3, <2>5 DEF HandleQueue, front
    <3> QED BY <2>2, <2>3, <3>1
  <2> QED BY <2>4, <2>5
<1> QED BY <1>2, <1>3

\* The parts of TypeOK.
QueueTypeOK == MPSCTypeOK /\ order \in Seq(Nodes)

CloseTypeOK ==
  /\ closed \in BOOLEAN /\ closing \in BOOLEAN
  /\ closers \subseteq Threads /\ network \in {"up", "failed", "shut down"}

DataTypeOK ==
  /\ isWritingAsync \in BOOLEAN /\ freed \subseteq Nodes
  /\ buffer \in Seq(Bytes) /\ writeQueue \in Seq(Seq(Bytes)) /\ wire \in Seq(Bytes)

ReadTypeOK ==
  /\ auth \in {"ip", "challenged", "account", "refusing", "in"}
  /\ reading \in BOOLEAN /\ inSockets \in BOOLEAN /\ unread \in 0 .. MaxRead
  /\ netAt \in {"idle", "dequeue", "write", "callbacks", "read"}

SessionTypeOK ==
  /\ worldSession \in BOOLEAN /\ hasSocket \in BOOLEAN /\ inMaps \in BOOLEAN
  /\ session \in {"none", "queued", "exists", "deleting", "deleted"}
  /\ sending \subseteq Threads

LEMMA TypeParts ==
  TypeOK <=> QueueTypeOK /\ CloseTypeOK /\ DataTypeOK /\ ReadTypeOK /\ SessionTypeOK
BY Zenon DEF TypeOK, QueueTypeOK, CloseTypeOK, DataTypeOK, ReadTypeOK, SessionTypeOK, Bytes

LEMMA QueueTypeStep ==
  ASSUME TypeOK, NameInv, [Next]_vars
  PROVE  QueueTypeOK'
<1> USE DEF queueVars, mpscVars
<1>0. /\ QueueTypeOK /\ MPSCTypeOK
      /\ sending # {} \/ auth \in {"ip", "account"} \/ MayMakePacket => Len(order) + 1 \in Nodes
  BY Named, TypeParts DEF QueueTypeOK
<1>1. CASE UNCHANGED queueVars
  BY <1>0, <1>1 DEF QueueTypeOK, MPSCTypeOK
<1>2. CASE DequeueStep
  <2>1. CASE SkipDummy
    BY <1>0, <1>2, <2>1 DEF DequeueStep, SkipDummy, QueueTypeOK, MPSCTypeOK
  <2>2. CASE NoSuccessor \/ IsHead
    BY <1>0, <1>2, <2>2 DEF DequeueStep, NoSuccessor, IsHead, QueueTypeOK, MPSCTypeOK
  <2>3. CASE EnqueueDummy
    BY <1>0, <1>2, <2>3, ExchangeType DEF DequeueStep, EnqueueDummy, Cells, QueueTypeOK
  <2> QED BY <1>2, <2>1, <2>2, <2>3 DEF DequeueStep
<1>3. CASE TakePacket
  BY <1>0, <1>3 DEF TakePacket, Pops, QueueTypeOK, MPSCTypeOK
<1>4. CASE Flush
  BY <1>0, <1>4 DEF Flush, GiveUp, QueueTypeOK, MPSCTypeOK
<1>5. ASSUME NEW t \in Threads, EnqueuePacket(t), Len(order) + 1 \in Nodes, UNCHANGED <<tail, deqAt>>
      PROVE  QueueTypeOK'
  BY <1>5, EnqueueType DEF QueueTypeOK
<1>6. CASE SendChallenge \/ Refuse \/ HandlePing
  BY <1>0, <1>5, <1>6 DEF SendChallenge, Refuse, HandlePing
<1>7. ASSUME NEW t \in Threads, Enqueue(t) PROVE QueueTypeOK'
  BY <1>0, <1>5, <1>7 DEF Enqueue
<1>8. ASSUME NEW t \in Threads, LinkPacket(t) PROVE QueueTypeOK'
  BY <1>0, <1>8, LinkType DEF LinkPacket, QueueTypeOK
<1>9. StartUpdate \/ WriteHandler \/ ReadFails \/ ReadHandler \/ WriteLoop \/ NothingReady =>
        UNCHANGED queueVars
  BY Zenon DEF StartUpdate, WriteHandler, ReadFails, ReadHandler, WriteLoop, NothingReady
<1>10. DelayedCloseSocket \/ Authenticate \/ AsyncRead \/ HandleAuthSession \/ QueuePacket
         \/ RefusePacket => UNCHANGED queueVars
  BY Zenon DEF DelayedCloseSocket, Authenticate, AsyncRead, HandleAuthSession, QueuePacket, RefusePacket
<1>11. \A t \in Threads : StartSending(t) \/ OnClose(t) \/ Kick(t) => UNCHANGED queueVars
  BY Zenon DEF StartSending, OnClose, Kick
<1>12. AddSession \/ ReleaseSocket \/ BeginDelete \/ EndDelete \/ EnterMaps \/ LeaveMaps \/ Fail =>
         UNCHANGED queueVars
  BY Zenon DEF AddSession, ReleaseSocket, BeginDelete, EndDelete, EnterMaps, LeaveMaps, Fail
<1>13. UNCHANGED vars => UNCHANGED queueVars
  BY Zenon DEF vars
<1> QED BY <1>1, <1>2, <1>3, <1>4, <1>6, <1>7, <1>8, <1>9, <1>10, <1>11, <1>12, <1>13 DEF Next, NetStep

LEMMA DataTypeStep ==
  ASSUME TypeOK, [Next]_vars
  PROVE  DataTypeOK'
<1> USE DEF writeVars
<1> DEFINE dataVars == <<isWritingAsync, freed, buffer, writeQueue, wire>>
<1>0. DataTypeOK
  BY TypeParts
<1>1. CASE UNCHANGED dataVars
  BY <1>0, <1>1 DEF DataTypeOK
<1>2. ASSUME NEW sent \in Nat, HandleQueue(sent), UNCHANGED <<buffer, freed>>
      PROVE  DataTypeOK'
  BY <1>0, <1>2, HandleQueueType DEF DataTypeOK
<1>3. CASE WriteLoop
  <2>1. PICK sent \in Nat : HandleQueue(sent)
    BY <1>3 DEF WriteLoop
  <2> QED BY <1>2, <1>3, <2>1 DEF WriteLoop
<1>4. CASE WriteHandler
  <2>1. PICK sent \in Nat : HandleQueue(sent)
    BY <1>4 DEF WriteHandler
  <2> QED BY <1>2, <1>4, <2>1 DEF WriteHandler
<1>5. CASE TakePacket
  <2>1. tail \in Nodes /\ Buffered(tail)
    BY <1>5 DEF TakePacket, Pops, TypeOK, MPSCTypeOK, Cells
  <2> QED BY <1>0, <1>5, <2>1, BufferedType DEF TakePacket, DataTypeOK
<1>6. CASE Flush
  <2>1. NotEmpty(buffer) \in Seq(Seq(Bytes)) /\ << >> \in Seq(Bytes)
    <3>1. << >> \in Seq(Bytes) /\ << >> \in Seq(Seq(Bytes)) /\ <<buffer>> \in Seq(Seq(Bytes))
      BY <1>0 DEF DataTypeOK
    <3> QED BY <3>1 DEF NotEmpty
  <2> QED BY <1>0, <1>6, <2>1, ConcatProperties DEF Flush, DataTypeOK
<1>7. StartUpdate \/ ReadFails \/ ReadHandler \/ NothingReady \/ DequeueStep \/ SendChallenge
        \/ Refuse \/ HandlePing => UNCHANGED dataVars
  BY Zenon DEF StartUpdate, ReadFails, ReadHandler, NothingReady, DequeueStep, SendChallenge, Refuse,
               HandlePing
<1>8. DelayedCloseSocket \/ Authenticate \/ AsyncRead \/ HandleAuthSession \/ QueuePacket
        \/ RefusePacket => UNCHANGED dataVars
  BY Zenon DEF DelayedCloseSocket, Authenticate, AsyncRead, HandleAuthSession, QueuePacket, RefusePacket
<1>9. \A t \in Threads : StartSending(t) \/ OnClose(t) \/ Kick(t) \/ Enqueue(t) \/ LinkPacket(t) =>
        UNCHANGED dataVars
  BY Zenon DEF StartSending, OnClose, Kick, Enqueue, LinkPacket
<1>10. AddSession \/ ReleaseSocket \/ BeginDelete \/ EndDelete \/ EnterMaps \/ LeaveMaps \/ Fail =>
         UNCHANGED dataVars
  BY Zenon DEF AddSession, ReleaseSocket, BeginDelete, EndDelete, EnterMaps, LeaveMaps, Fail
<1>11. UNCHANGED vars => UNCHANGED dataVars
  BY Zenon DEF vars
<1> QED BY <1>1, <1>3, <1>4, <1>5, <1>6, <1>7, <1>8, <1>9, <1>10, <1>11 DEF Next, NetStep

\* A write closes the socket only for who is closing it.
LEMMA WriteCloses ==
  ASSUME TypeOK, WriteLoop \/ WriteHandler
  PROVE  UNCHANGED <<closed, closers>> \/ (closing /\ CloseSocket(Net))
<1>1. PICK sent \in Nat : HandleQueue(sent)
  BY DEF WriteLoop, WriteHandler
<1> QED BY <1>1, HandleQueueType

LEMMA CloseTypeStep ==
  ASSUME TypeOK, [Next]_vars
  PROVE  CloseTypeOK'
<1> USE DEF writeVars
<1> DEFINE closeVars == <<closed, closing, closers, network>>
<1>0. CloseTypeOK
  BY TypeParts
<1>1. CASE UNCHANGED closeVars
  BY <1>0, <1>1 DEF CloseTypeOK
<1>2. CASE WriteLoop \/ WriteHandler
  BY <1>0, <1>2, WriteCloses DEF WriteLoop, WriteHandler, CloseSocket, CloseTypeOK
<1>3. CASE ReadFails \/ RefusePacket
  BY <1>0, <1>3 DEF ReadFails, RefusePacket, CloseSocket, CloseTypeOK
<1>4. CASE DelayedCloseSocket
  BY <1>0, <1>4 DEF DelayedCloseSocket, CloseTypeOK
<1>5. ASSUME NEW t \in Threads, OnClose(t) \/ Kick(t) PROVE CloseTypeOK'
  BY <1>0, <1>5 DEF OnClose, Kick, CloseSocket, CloseTypeOK
<1>6. CASE BeginDelete \/ Fail
  BY <1>0, <1>6 DEF BeginDelete, Fail, CloseSocket, CloseTypeOK
<1>7. StartUpdate \/ ReadHandler \/ NothingReady \/ DequeueStep \/ TakePacket \/ Flush
        \/ SendChallenge \/ Refuse \/ HandlePing => UNCHANGED closeVars
  BY Zenon DEF StartUpdate, ReadHandler, NothingReady, DequeueStep, TakePacket, Flush, SendChallenge,
               Refuse, HandlePing
<1>8. Authenticate \/ AsyncRead \/ HandleAuthSession \/ QueuePacket => UNCHANGED closeVars
  BY Zenon DEF Authenticate, AsyncRead, HandleAuthSession, QueuePacket
<1>9. \A t \in Threads : StartSending(t) \/ Enqueue(t) \/ LinkPacket(t) => UNCHANGED closeVars
  BY Zenon DEF StartSending, Enqueue, LinkPacket
<1>10. AddSession \/ ReleaseSocket \/ EndDelete \/ EnterMaps \/ LeaveMaps => UNCHANGED closeVars
  BY Zenon DEF AddSession, ReleaseSocket, EndDelete, EnterMaps, LeaveMaps
<1>11. UNCHANGED vars => UNCHANGED closeVars
  BY Zenon DEF vars
<1> QED BY <1>1, <1>2, <1>3, <1>4, <1>5, <1>6, <1>7, <1>8, <1>9, <1>10, <1>11 DEF Next, NetStep

LEMMA ReadTypeStep ==
  ASSUME TypeOK, [Next]_vars
  PROVE  ReadTypeOK'
<1> USE DEF readVars
<1> DEFINE readingVars == <<readVars, netAt>>
<1>0. ReadTypeOK
  BY TypeParts
<1>1. CASE UNCHANGED readingVars
  BY <1>0, <1>1 DEF ReadTypeOK
<1>2. CASE StartUpdate \/ ReadFails \/ NothingReady
  BY <1>0, <1>2 DEF StartUpdate, ReadFails, NothingReady, ReadTypeOK
<1>3. CASE Flush \/ WriteLoop
  BY <1>0, <1>3 DEF Flush, WriteLoop, ReadTypeOK
<1>4. CASE SendChallenge \/ Refuse \/ DelayedCloseSocket \/ Authenticate
  BY <1>0, <1>4 DEF SendChallenge, Refuse, DelayedCloseSocket, Authenticate, IsOpen, ReadTypeOK
<1>5. CASE HandleAuthSession \/ RefusePacket
  BY <1>0, <1>5 DEF HandleAuthSession, RefusePacket, ReadTypeOK
<1>11. CASE ReadHandler
  <2>1. netAt' \in {"read", netAt} /\ unread' \in 0 .. MaxRead
    BY <1>0, <1>11 DEF ReadHandler, ReadTypeOK
  <2> QED BY <1>0, <1>11, <2>1 DEF ReadHandler, ReadTypeOK
<1>12. CASE AsyncRead
  <2>1. reading' \in BOOLEAN
    BY <1>12 DEF AsyncRead, IsOpen
  <2> QED BY <1>0, <1>12, <2>1 DEF AsyncRead, ReadTypeOK
<1>6. CASE QueuePacket \/ HandlePing
  BY <1>0, <1>6 DEF QueuePacket, HandlePing, ReadTypeOK
<1>7. DequeueStep \/ TakePacket \/ WriteHandler => UNCHANGED readingVars
  BY Zenon DEF DequeueStep, TakePacket, WriteHandler
<1>8. \A t \in Threads : StartSending(t) \/ Enqueue(t) \/ LinkPacket(t) \/ OnClose(t) \/ Kick(t) =>
        UNCHANGED readingVars
  BY Zenon DEF StartSending, Enqueue, LinkPacket, OnClose, Kick
<1>9. AddSession \/ ReleaseSocket \/ BeginDelete \/ EndDelete \/ EnterMaps \/ LeaveMaps \/ Fail =>
        UNCHANGED readingVars
  BY Zenon DEF AddSession, ReleaseSocket, BeginDelete, EndDelete, EnterMaps, LeaveMaps, Fail
<1>10. UNCHANGED vars => UNCHANGED readingVars
  BY Zenon DEF vars
<1> QED BY <1>1, <1>2, <1>3, <1>4, <1>5, <1>6, <1>7, <1>8, <1>9, <1>10, <1>11, <1>12 DEF Next, NetStep

LEMMA SessionTypeStep ==
  ASSUME TypeOK, [Next]_vars
  PROVE  SessionTypeOK'
<1> USE DEF sessionVars
<1> DEFINE sendVars == <<sessionVars, sending>>
<1>0. SessionTypeOK
  BY TypeParts
<1>1. CASE UNCHANGED sendVars
  BY <1>0, <1>1 DEF SessionTypeOK
<1>2. CASE Authenticate
  BY <1>0, <1>2 DEF Authenticate, SessionTypeOK
<1>3. ASSUME NEW t \in Threads, StartSending(t) \/ Enqueue(t) \/ OnClose(t) PROVE SessionTypeOK'
  BY <1>0, <1>3 DEF StartSending, Enqueue, OnClose, SessionTypeOK
<1>4. CASE AddSession \/ ReleaseSocket \/ BeginDelete \/ EndDelete \/ EnterMaps \/ LeaveMaps
  BY <1>0, <1>4 DEF AddSession, ReleaseSocket, BeginDelete, EndDelete, EnterMaps, LeaveMaps,
                    SessionTypeOK
<1>5. StartUpdate \/ ReadFails \/ ReadHandler \/ WriteHandler \/ DequeueStep \/ TakePacket \/ Flush
        \/ WriteLoop \/ NothingReady => UNCHANGED sendVars
  BY Zenon DEF StartUpdate, ReadFails, ReadHandler, WriteHandler, DequeueStep, TakePacket, Flush,
               WriteLoop, NothingReady
<1>6. SendChallenge \/ Refuse \/ DelayedCloseSocket \/ AsyncRead \/ HandleAuthSession \/ QueuePacket
        \/ HandlePing \/ RefusePacket \/ Fail => UNCHANGED sendVars
  BY Zenon DEF SendChallenge, Refuse, DelayedCloseSocket, AsyncRead, HandleAuthSession, QueuePacket,
               HandlePing, RefusePacket, Fail
<1>7. \A t \in Threads : LinkPacket(t) \/ Kick(t) => UNCHANGED sendVars
  BY Zenon DEF LinkPacket, Kick
<1>8. UNCHANGED vars => UNCHANGED sendVars
  BY Zenon DEF vars
<1> QED BY <1>1, <1>2, <1>3, <1>4, <1>5, <1>6, <1>7, <1>8 DEF Next, NetStep

LEMMA TypeStep ==
  ASSUME TypeOK, NameInv, [Next]_vars
  PROVE  TypeOK'
<1>1. QueueTypeOK' /\ CloseTypeOK' /\ DataTypeOK' /\ ReadTypeOK' /\ SessionTypeOK'
  BY QueueTypeStep, CloseTypeStep, DataTypeStep, ReadTypeStep, SessionTypeStep
<1> QED
  BY <1>1, Zenon
  DEF TypeOK, QueueTypeOK, CloseTypeOK, DataTypeOK, ReadTypeOK, SessionTypeOK, Bytes

LEMMA NameStep ==
  ASSUME TypeOK, NameInv, session = "none" <=> auth # "in", worldSession => auth = "in",
         [Next]_vars
  PROVE  NameInv'
<1> USE DEF queueVars, readVars
<1> DEFINE nameVars == <<order, sending, auth>>
<1>0. /\ order \in Seq(Nodes) /\ Len(order) \in Nat /\ Cardinality(sending) \in Nat
      /\ IsFiniteSet(sending) /\ \A n \in Nodes : \A k \in Nat : 1 <= k /\ k <= n => k \in Nodes
  <2>1. order \in Seq(Nodes) /\ IsFiniteSet(sending)
    BY DEF TypeOK, NameInv
  <2> QED BY <2>1, FS_CardinalityType, LenProperties
<1>1. CASE UNCHANGED nameVars
  BY <1>1 DEF NameInv
<1>2. ASSUME NEW t \in Threads, StartSending(t) PROVE NameInv'
  <2>1. sending' = sending \cup {t} /\ t \notin sending /\ auth = "in" /\ MayMakePacket
        /\ UNCHANGED <<order, auth>>
    BY <1>2 DEF StartSending, Ready
  <2>2. IsFiniteSet(sending') /\ Cardinality(sending') = Cardinality(sending) + 1
    BY <1>0, <2>1, FS_AddElement
  <2>3. Len(order) + (Cardinality(sending) + 1) \in Nodes
    BY <1>0, <2>1 DEF MayMakePacket
  <2> QED BY <2>1, <2>2, <2>3 DEF NameInv
<1>3. ASSUME NEW t \in Threads, Enqueue(t) PROVE NameInv'
  <2>1. sending' = sending \ {t} /\ t \in sending /\ auth' = auth
        /\ order' = Append(order, Len(order) + 1)
    BY <1>3 DEF Enqueue, EnqueuePacket
  <2>2. IsFiniteSet(sending') /\ Cardinality(sending') = Cardinality(sending) - 1
    BY <1>0, <2>1, FS_RemoveElement
  <2>3. Len(order') = Len(order) + 1
    BY <1>0, <2>1
  <2>4. auth = "in" /\ auth' = "in"
    BY <2>1 DEF NameInv
  <2>5. Len(order') + Cardinality(sending') = Len(order) + Cardinality(sending)
    BY <1>0, <2>2, <2>3
  <2> QED BY <2>2, <2>4, <2>5 DEF NameInv
<1>4. CASE SendChallenge \/ Refuse
  <2>1. /\ auth \in {"ip", "account"} /\ sending' = sending
        /\ order' = Append(order, Len(order) + 1)
        /\ (auth' = "challenged" /\ auth = "ip") \/ auth' = "refusing"
    BY <1>4 DEF SendChallenge, Refuse, EnqueuePacket
  <2>2. sending = {} /\ Cardinality(sending) = 0 /\ Len(order) \in {0, 1}
    BY <2>1, FS_EmptySet DEF NameInv
  <2>3. Len(order') = Len(order) + 1
    BY <1>0, <2>1
  <2>4. 1 \in Nodes /\ 2 \in Nodes
    OBVIOUS
  <2>5. auth = "ip" => Len(order) = 0
    BY DEF NameInv
  <2> QED BY <1>0, <2>1, <2>2, <2>3, <2>4, <2>5 DEF NameInv
<1>5. CASE HandlePing
  <2>1. sending' = sending /\ auth' = "in" /\ MayMakePacket
        /\ order' = Append(order, Len(order) + 1)
    BY <1>5 DEF HandlePing, EnqueuePacket
  <2>2. Len(order') = Len(order) + 1
    BY <1>0, <2>1
  <2> QED BY <1>0, <2>1, <2>2 DEF NameInv, MayMakePacket
<1>6. CASE HandleAuthSession \/ Authenticate
  BY <1>6 DEF HandleAuthSession, Authenticate, NameInv
<1>7. CASE DelayedCloseSocket
  BY <1>7 DEF DelayedCloseSocket, NameInv
<1>8. StartUpdate \/ ReadFails \/ ReadHandler \/ WriteHandler \/ DequeueStep \/ TakePacket \/ Flush
        \/ WriteLoop \/ NothingReady => UNCHANGED nameVars
  BY Zenon DEF StartUpdate, ReadFails, ReadHandler, WriteHandler, DequeueStep, TakePacket, Flush,
               WriteLoop, NothingReady
<1>9. AsyncRead \/ QueuePacket \/ RefusePacket \/ Fail => UNCHANGED nameVars
  BY Zenon DEF AsyncRead, QueuePacket, RefusePacket, Fail
<1>10. \A t \in Threads : LinkPacket(t) \/ OnClose(t) \/ Kick(t) => UNCHANGED nameVars
  BY Zenon DEF LinkPacket, OnClose, Kick
<1>11. AddSession \/ ReleaseSocket \/ BeginDelete \/ EndDelete \/ EnterMaps \/ LeaveMaps =>
         UNCHANGED nameVars
  BY Zenon DEF AddSession, ReleaseSocket, BeginDelete, EndDelete, EnterMaps, LeaveMaps
<1>12. UNCHANGED vars => UNCHANGED nameVars
  BY Zenon DEF vars
<1> QED BY <1>1, <1>2, <1>3, <1>4, <1>5, <1>6, <1>7, <1>8, <1>9, <1>10, <1>11, <1>12 DEF Next, NetStep

LEMMA QueueStep ==
  ASSUME TypeOK, NameInv, QueueInv, [Next]_vars
  PROVE  QueueInv'
<1> USE DEF queueVars, mpscVars, writeVars
<1>0. /\ MPSCTypeOK /\ order \in Seq(Nodes) /\ Accepted \subseteq Nodes
      /\ sending # {} \/ auth \in {"ip", "account"} \/ MayMakePacket => Len(order) + 1 \in Nodes
  BY Named DEF TypeOK
<1>1. UNCHANGED <<queueVars, freed>> => QueueInv'
  BY QueueQuiet
<1>2. CASE DequeueStep
  <2>0. UNCHANGED <<order, freed>>
    BY <1>2 DEF DequeueStep
  <2>1. CASE SkipDummy
    <3>1. /\ link[tail] # Null /\ tail' = link[tail] /\ deqAt' = "load" /\ tail = Dummy
          /\ UNCHANGED <<link, head, push>>
      BY <2>1 DEF SkipDummy
    <3>2. freed' = freed \cup ({tail} \ {Dummy})
      BY <2>0, <3>1
    <3> QED BY <1>0, <2>0, <3>1, <3>2, AdvanceStep
  <2>2. CASE NoSuccessor
    <3>1. UNCHANGED <<link, head, tail, push, order, freed>> /\ tail # Dummy /\ deqAt' = "head"
      BY <2>0, <2>2 DEF NoSuccessor
    <3> QED BY <3>1, QueueStays
  <2>3. CASE IsHead
    BY <1>0, <2>0, <2>3, IsHeadStep
  <2>4. CASE EnqueueDummy
    BY <1>0, <2>0, <2>4, EnqueueDummyStep
  <2> QED BY <1>2, <2>1, <2>2, <2>3, <2>4 DEF DequeueStep
<1>3. CASE TakePacket
  <2>1. /\ link[tail] # Null /\ tail' = link[tail] /\ deqAt' = "load" /\ tail # Dummy
        /\ UNCHANGED <<link, head, push, order>> /\ freed' = freed \cup {tail}
    BY <1>3 DEF TakePacket, Pops
  <2>2. freed' = freed \cup ({tail} \ {Dummy})
    BY <2>1
  <2> QED BY <1>0, <2>1, <2>2, AdvanceStep
<1>4. CASE Flush
  <2>1. UNCHANGED <<link, head, tail, push, order, freed>> /\ deqAt' = "load"
    BY <1>4 DEF Flush, GiveUp
  <2> QED BY <2>1, QueueStays
<1>5. ASSUME NEW t \in Threads, EnqueuePacket(t), Len(order) + 1 \in Nodes,
             UNCHANGED <<tail, deqAt, freed>>
      PROVE  QueueInv'
  BY <1>0, <1>5, EnqueueStep
<1>6. CASE SendChallenge \/ Refuse \/ HandlePing
  BY <1>0, <1>5, <1>6 DEF SendChallenge, Refuse, HandlePing
<1>7. ASSUME NEW t \in Threads, Enqueue(t) PROVE QueueInv'
  BY <1>0, <1>5, <1>7 DEF Enqueue
<1>8. ASSUME NEW t \in Threads, LinkPacket(t) PROVE QueueInv'
  BY <1>0, <1>8, LinkStep DEF LinkPacket
<1>9. StartUpdate \/ WriteHandler \/ ReadFails \/ ReadHandler \/ WriteLoop \/ NothingReady =>
        UNCHANGED <<queueVars, freed>>
  BY Zenon DEF StartUpdate, WriteHandler, ReadFails, ReadHandler, WriteLoop, NothingReady
<1>10. DelayedCloseSocket \/ Authenticate \/ AsyncRead \/ HandleAuthSession \/ QueuePacket
         \/ RefusePacket => UNCHANGED <<queueVars, freed>>
  BY Zenon DEF DelayedCloseSocket, Authenticate, AsyncRead, HandleAuthSession, QueuePacket, RefusePacket
<1>11. \A t \in Threads : StartSending(t) \/ OnClose(t) \/ Kick(t) => UNCHANGED <<queueVars, freed>>
  BY Zenon DEF StartSending, OnClose, Kick
<1>12. AddSession \/ ReleaseSocket \/ BeginDelete \/ EndDelete \/ EnterMaps \/ LeaveMaps \/ Fail =>
         UNCHANGED <<queueVars, freed>>
  BY Zenon DEF AddSession, ReleaseSocket, BeginDelete, EndDelete, EnterMaps, LeaveMaps, Fail
<1>13. UNCHANGED vars => UNCHANGED <<queueVars, freed>>
  BY Zenon DEF vars
<1> QED BY <1>1, <1>2, <1>3, <1>4, <1>6, <1>7, <1>8, <1>9, <1>10, <1>11, <1>12, <1>13 DEF Next, NetStep

-----------------------------------------------------------------------------
(* The session: who closes the socket tells it that its session goes, and  *)
(* the world thread deletes the session only when nobody but the network   *)
(* thread can still be about to tell.                                      *)

SessionInv ==
  /\ session = "none" <=> auth # "in"
  /\ worldSession => auth = "in"
  /\ closing => auth = "refusing"
  /\ reading => netAt # "read" /\ auth \in {"challenged", "in"}
  /\ netAt = "read" => auth \in {"challenged", "in"}
  /\ auth = "account" \/ (netAt = "read" /\ auth = "challenged") => ~closed
  /\ ~inMaps => closers \cap Workers = {}
  /\ closed /\ worldSession => closers # {}
  /\ session = "deleting" => closed
  /\ session \in {"queued", "exists"} => hasSocket \/ closed
  /\ session = "deleted" /\ worldSession => Net \in closers

LEMMA SessionInit ==
  ASSUME Init
  PROVE  SessionInv
BY DEF Init, SessionInv

LEMMA SessionStep ==
  ASSUME TypeOK, SessionInv, [Next]_vars
  PROVE  SessionInv'
<1> USE DEF readVars, writeVars, sessionVars
<1> DEFINE relevant == <<session, auth, worldSession, closing, reading, netAt, closed, inMaps, closers,
                         hasSocket>>
<1>1. CASE UNCHANGED relevant
  BY <1>1 DEF SessionInv
<1>2. CASE WriteLoop \/ WriteHandler
  <2>1. /\ UNCHANGED <<session, auth, worldSession, closing, reading, inMaps, hasSocket>>
        /\ netAt' # "read"
    BY <1>2 DEF WriteLoop, WriteHandler
  <2>2. CASE UNCHANGED <<closed, closers>>
    BY <2>1, <2>2 DEF SessionInv
  <2>3. CASE closing /\ CloseSocket(Net)
    BY <2>1, <2>3 DEF CloseSocket, SessionInv
  <2> QED BY <1>2, <2>2, <2>3, WriteCloses
<1>3. CASE StartUpdate \/ Flush \/ NothingReady \/ Refuse \/ DelayedCloseSocket
  BY <1>3 DEF StartUpdate, Flush, NothingReady, Refuse, DelayedCloseSocket, SessionInv
<1>4. CASE SendChallenge
  BY <1>4 DEF SendChallenge, SessionInv
<1>5. CASE Authenticate
  BY <1>5 DEF Authenticate, SessionInv
<1>6. CASE ReadFails
  BY <1>6 DEF ReadFails, CloseSocket, SessionInv
<1>7. CASE RefusePacket
  BY <1>7 DEF RefusePacket, CloseSocket, SessionInv
<1>8. CASE ReadHandler
  BY <1>8 DEF ReadHandler, IsOpen, SessionInv
<1>9. CASE AsyncRead \/ HandleAuthSession
  BY <1>9 DEF AsyncRead, HandleAuthSession, SessionInv
<1>10. ASSUME NEW t \in Threads, OnClose(t) PROVE SessionInv'
  BY <1>10 DEF OnClose, SessionInv
<1>11. ASSUME NEW t \in Threads, Kick(t) PROVE SessionInv'
  BY <1>11 DEF Kick, MayRun, CloseSocket, SessionInv
<1>12. CASE AddSession \/ ReleaseSocket
  BY <1>12 DEF AddSession, ReleaseSocket, IsOpen, SessionInv
<1>13. CASE BeginDelete
  BY <1>13 DEF BeginDelete, CloseSocket, WorldReady, SessionInv
<1>14. CASE EndDelete
  BY <1>14 DEF EndDelete, WorldReady, Ready, SessionInv, TypeOK
<1>15. CASE EnterMaps \/ LeaveMaps
  BY <1>15 DEF EnterMaps, LeaveMaps, Ready, SessionInv
<1>16. TakePacket \/ DequeueStep \/ QueuePacket \/ HandlePing \/ Fail => UNCHANGED relevant
  BY Zenon DEF TakePacket, DequeueStep, QueuePacket, HandlePing, Fail
<1>17. \A t \in Threads : StartSending(t) \/ Enqueue(t) \/ LinkPacket(t) => UNCHANGED relevant
  BY Zenon DEF StartSending, Enqueue, LinkPacket
<1>18. UNCHANGED vars => UNCHANGED relevant
  BY Zenon DEF vars
<1> QED BY <1>1, <1>2, <1>3, <1>4, <1>5, <1>6, <1>7, <1>8, <1>9, <1>10, <1>11, <1>12, <1>13, <1>14,
           <1>15, <1>16, <1>17, <1>18
        DEF Next, NetStep

-----------------------------------------------------------------------------
(* The theorems.                                                           *)

Inv == TypeOK /\ NameInv /\ QueueInv /\ SessionInv

\* The invariant is inductive: no part of it can be shown without the types, and the
\* queue's needs the names.
LEMMA Inductive == Spec => []Inv
<1>1. Init => Inv
  <2>1. Init => NameInv
    BY FS_EmptySet DEF Init, NameInv
  <2> QED BY <2>1, TypeInit, QueueInit, SessionInit DEF Inv
<1>2. Inv /\ [Next]_vars => Inv'
  <2> SUFFICES ASSUME Inv, [Next]_vars PROVE Inv'
    OBVIOUS
  <2>1. TypeOK' /\ QueueInv' /\ SessionInv'
    BY TypeStep, QueueStep, SessionStep DEF Inv
  <2>2. NameInv'
    BY NameStep DEF Inv, SessionInv
  <2> QED BY <2>1, <2>2 DEF Inv
<1> QED BY <1>1, <1>2, PTL DEF Spec

\* Every variable of a connection and its queue keeps its type, whatever the number of
\* threads that send and close.
THEOREM TypeCorrect == Spec => []TypeOK
<1>1. Inv => TypeOK
  BY DEF Inv
<1> QED BY <1>1, Inductive, PTL

\* What MPSCQueueIntrusive still links, or a thread in Enqueue will still write to, was
\* not deleted by the consumer: for any number of threads that enqueue at a time.
THEOREM QueueNodesAlive == Spec => []NodesAlive
<1>1. Inv => NodesAlive
  <2> SUFFICES ASSUME Inv PROVE NodesAlive
    OBVIOUS
  <2>1. PICK L \in [Nat -> Cells], lo \in Nat, hi \in Nat : Chain(L, lo, hi) /\ Placed(L, lo, hi)
    BY DEF Inv, QueueInv
  <2>2. Accepted \subseteq Nodes /\ freed \subseteq Accepted
    BY Named DEF Inv, QueueInv
  <2>3. \A k \in lo .. hi : L[k] \notin freed
    BY <2>1, <2>2 DEF Placed
  <2>4. head \notin freed /\ tail \notin freed
    BY <2>1, <2>3 DEF Chain
  <2>5. ASSUME NEW t \in Threads PROVE push[t].node \notin freed /\ push[t].prevHead \notin freed
    <3>1. CASE ~Pushing(t)
      <4>1. push[t].node = Null /\ push[t].prevHead = Null
        BY <3>1 DEF Pushing, NoPush
      <4>2. Null \notin freed
        BY <2>2
      <4> QED BY <4>1, <4>2
    <3>2. CASE Pushing(t)
      <4>1. PICK k \in lo .. hi - 1 : Waits(t, L, k)
        BY <2>1, <3>2 DEF Chain
      <4>2. k \in lo .. hi /\ k + 1 \in lo .. hi
        OBVIOUS
      <4> QED BY <2>3, <4>1, <4>2 DEF Waits
    <3> QED BY <3>1, <3>2
  <2> QED BY <2>4, <2>5 DEF NodesAlive
<1> QED BY <1>1, Inductive, PTL

\* The packets that were taken from the queue are the first of those accepted: none is
\* taken before an earlier one.
TakenInOrder == \A n \in freed : 1 .. n \subseteq freed

\* Dequeue gives the packets in the order of their exchanges and leaves none out, from
\* any number of threads, with the dummy put in and passed over any number of times.
THEOREM QueueInOrder == Spec => []TakenInOrder
<1>1. Inv => TakenInOrder
  <2> SUFFICES ASSUME Inv, NEW n \in freed, NEW m \in 1 .. n, m \notin freed PROVE FALSE
    BY DEF TakenInOrder
  <2>1. PICK L \in [Nat -> Cells], lo \in Nat, hi \in Nat : Chain(L, lo, hi) /\ Placed(L, lo, hi)
    BY DEF Inv, QueueInv
  <2>2. Accepted \subseteq Nodes /\ n \in Accepted
    BY Named DEF Inv, QueueInv
  <2>3. m \in Accepted \ freed /\ m # Dummy
    BY <2>2 DEF Accepted
  <2>4. PICK k \in lo .. hi : L[k] = m
    BY <2>1, <2>3 DEF Placed
  <2>5. n < m
    BY <2>1, <2>3, <2>4 DEF Placed
  <2> QED BY <2>2, <2>5 DEF Accepted
<1> QED BY <1>1, Inductive, PTL

\* The network thread never queues a packet for a session that was deleted, whoever
\* closed the socket and however far he has come.
THEOREM SessionsAlive == Spec => []SessionAlive
<1>1. Inv => SessionAlive
  BY DEF Inv, SessionInv, SessionAlive, NetReady, Ready
<1> QED BY <1>1, Inductive, PTL

-----------------------------------------------------------------------------
(* The channel: what was taken from the queue is written, queued or in the *)
(* buffer, in this order, as long as the connection is up.                 *)

\* What was taken from the queue is the first packets, whole: written, queued or in
\* the buffer while the connection is up, and written up to some byte after that.
StreamInv ==
  \E k \in 0 .. Len(order) :
    /\ freed = 1 .. k
    /\ Occurs(wire, First(k), 0)
    /\ network = "up" => InFlight(wire, writeQueue, buffer, First(k))

\* What a step does to the stream.
Accepts == order' = Append(order, Len(order) + 1) /\ Len(order) + 1 \in Nodes
Quiet == (UNCHANGED order \/ Accepts) /\ UNCHANGED <<freed, wire, buffer, writeQueue, network>>
Handles ==
  /\ UNCHANGED <<order, freed, buffer, network>>
  /\ \E sent \in Nat : HandleQueue(sent)
Breaks == network' # "up" /\ UNCHANGED <<order, freed, wire, buffer, writeQueue>>

LEMMA StreamKinds ==
  ASSUME TypeOK, NameInv, [Next]_vars
  PROVE  Quiet \/ TakePacket \/ Flush \/ Handles \/ Breaks
<1> USE DEF queueVars, mpscVars, writeVars
<1> DEFINE streamVars == <<order, freed, wire, buffer, writeQueue, network>>
<1>0. sending # {} \/ auth \in {"ip", "account"} \/ MayMakePacket => Len(order) + 1 \in Nodes
  BY Named
<1>1. UNCHANGED streamVars => Quiet
  BY Zenon DEF Quiet
<1>2. DequeueStep => UNCHANGED streamVars
  BY Zenon DEF DequeueStep
<1>3. CASE WriteLoop \/ WriteHandler
  <2>1. \E sent \in Nat : HandleQueue(sent)
    BY <1>3 DEF WriteLoop, WriteHandler
  <2> QED BY <1>3, <2>1, Zenon DEF WriteLoop, WriteHandler, Handles
<1>4. SendChallenge \/ Refuse \/ HandlePing => Quiet
  BY <1>0, Zenon DEF SendChallenge, Refuse, HandlePing, EnqueuePacket, Quiet, Accepts
<1>5. ASSUME NEW t \in Threads, Enqueue(t) PROVE Quiet
  BY <1>0, <1>5, Zenon DEF Enqueue, EnqueuePacket, Quiet, Accepts
<1>6. ASSUME NEW t \in Threads, OnClose(t) PROVE Breaks
  BY <1>6 DEF OnClose, Breaks
<1>7. Fail => Breaks
  BY DEF Fail, Breaks
<1>8. StartUpdate \/ ReadFails \/ ReadHandler \/ NothingReady => UNCHANGED streamVars
  BY Zenon DEF StartUpdate, ReadFails, ReadHandler, NothingReady
<1>9. DelayedCloseSocket \/ Authenticate \/ AsyncRead \/ HandleAuthSession \/ QueuePacket
        \/ RefusePacket => UNCHANGED streamVars
  BY Zenon DEF DelayedCloseSocket, Authenticate, AsyncRead, HandleAuthSession, QueuePacket, RefusePacket
<1>10. \A t \in Threads : StartSending(t) \/ LinkPacket(t) \/ Kick(t) => UNCHANGED streamVars
  BY Zenon DEF StartSending, LinkPacket, Kick
<1>11. AddSession \/ ReleaseSocket \/ BeginDelete \/ EndDelete \/ EnterMaps \/ LeaveMaps =>
         UNCHANGED streamVars
  BY Zenon DEF AddSession, ReleaseSocket, BeginDelete, EndDelete, EnterMaps, LeaveMaps
<1>12. UNCHANGED vars => UNCHANGED streamVars
  BY Zenon DEF vars
<1> HIDE DEF queueVars, mpscVars, writeVars, streamVars
<1> QED BY <1>1, <1>2, <1>3, <1>4, <1>5, <1>6, <1>7, <1>8, <1>9, <1>10, <1>11, <1>12
        DEF Next, NetStep

LEMMA NumberedStep ==
  ASSUME order \in Seq(Nodes), Numbered, UNCHANGED order \/ Accepts
  PROVE  Numbered'
<1>1. CASE UNCHANGED order
  BY <1>1 DEF Numbered
<1>2. CASE Accepts
  <2>1. /\ Len(order') = Len(order) + 1 /\ order'[Len(order) + 1] = Len(order) + 1
        /\ \A k \in 1 .. Len(order) : order'[k] = order[k]
    BY <1>2, AppendProperties DEF Accepts
  <2>2. Len(order) \in Nat
    BY LenProperties
  <2>3. ASSUME NEW k \in 1 .. Len(order) + 1 PROVE order'[k] = k
    <3>1. k = Len(order) + 1 \/ k \in 1 .. Len(order)
      BY <2>2
    <3> QED BY <2>1, <3>1 DEF Numbered
  <2> QED BY <2>1, <2>3 DEF Numbered
<1> QED BY <1>1, <1>2

\* The first packets are made of bytes.
LEMMA FirstBytes ==
  ASSUME order \in Seq(Nodes), Accepted \subseteq Nodes, NEW k \in 0 .. Len(order)
  PROVE  k \in Nat /\ 1 .. k \subseteq Nodes /\ First(k) \in Seq(Bytes)
<1>1. Len(order) \in Nat
  BY LenProperties
<1>2. k \in Nat /\ 1 .. k \subseteq Accepted
  BY <1>1 DEF Accepted
<1> QED BY <1>2, FirstType

LEMMA QuietStream ==
  ASSUME order \in Seq(Nodes), StreamInv, Quiet
  PROVE  StreamInv'
<1>1. Len(order) \in Nat /\ (Len(order') = Len(order) \/ Len(order') = Len(order) + 1)
  BY LenProperties, AppendProperties DEF Quiet, Accepts
<1>2. PICK k \in 0 .. Len(order) :
        /\ freed = 1 .. k /\ Occurs(wire, First(k), 0)
        /\ network = "up" => InFlight(wire, writeQueue, buffer, First(k))
  BY DEF StreamInv
<1>3. k \in 0 .. Len(order')
  BY <1>1
<1> QED BY <1>2, <1>3, Zenon DEF StreamInv, Quiet

LEMMA BreaksStream ==
  ASSUME StreamInv, Breaks
  PROVE  StreamInv'
BY Zenon DEF StreamInv, Breaks

LEMMA Written ==
  ASSUME NEW w, NEW q, NEW b, NEW S, InFlight(w, q, b, S)
  PROVE  Occurs(w, S, 0)
BY Zenon DEF InFlight, Flies

\* The next packet goes into the buffer, into a fresh one, or a buffer of its own.
LEMMA BufferedFlight ==
  ASSUME NEW p \in Nodes, NEW S \in Seq(Bytes), Buffered(p),
         wire \in Seq(Bytes), writeQueue \in Seq(Seq(Bytes)), buffer \in Seq(Bytes),
         InFlight(wire, writeQueue, buffer, S)
  PROVE  InFlight(wire, writeQueue', buffer', S \o Channel!Bytes(p))
<1> DEFINE bytes == Channel!Bytes(p)
           fits == Len(buffer) + Len(bytes) <= SendBufferSize
           big == Len(bytes) > SendBufferSize
           first == IF fits THEN << >> ELSE <<buffer>>
           second == IF big THEN <<bytes>> ELSE << >>
           T == S \o bytes
<1>1. bytes \in Seq(Bytes)
  BY PacketType
<1>2. /\ writeQueue' = writeQueue \o first \o second
      /\ buffer' = IF fits THEN buffer \o bytes ELSE IF big THEN << >> ELSE bytes
  BY DEF Buffered
<1>3. T \in Seq(Bytes) /\ << >> \in Seq(Bytes) /\ << >> \o bytes = bytes
  BY <1>1, ConcatProperties, ConcatEmptySeq, EmptySeq
<1>4. Len(bytes) \in Nat /\ Len(buffer) \in Nat /\ SendBufferSize \in Nat
  BY <1>1, LenProperties
<1> HIDE DEF bytes, T
<1>5. CASE fits
  <2>1. ~big
    BY <1>4, <1>5
  <2>2. writeQueue' = writeQueue /\ buffer' = buffer \o bytes
    BY <1>2, <1>5, <2>1, ConcatEmptySeq
  <2>3. InFlight(wire, writeQueue, buffer \o bytes, T)
    BY <1>1, BufferMore DEF T
  <2> QED BY <2>2, <2>3 DEF T, bytes
<1>6. CASE ~fits
  <2> DEFINE q == writeQueue \o <<buffer>>
  <2>1. q \in Seq(Seq(Bytes))
    BY ConcatProperties
  <2>2. InFlight(wire, q, << >>, S)
    BY QueueBuffer
  <2> HIDE DEF q
  <2>3. InFlight(wire, q, bytes, T)
    <3>1. InFlight(wire, q, << >> \o bytes, S \o bytes)
      BY <1>1, <1>3, <2>1, <2>2, BufferMore
    <3> QED BY <1>3, <3>1 DEF T
  <2>4. CASE ~big
    <3>1. writeQueue' = q /\ buffer' = bytes
      <4>1. q \o << >> = q
        BY <2>1, ConcatEmptySeq
      <4>2. writeQueue' = writeQueue \o <<buffer>> \o << >> /\ buffer' = bytes
        BY <1>2, <1>6, <2>4
      <4> QED BY <4>1, <4>2 DEF q
    <3> QED BY <2>3, <3>1 DEF T, bytes
  <2>5. CASE big
    <3>1. writeQueue' = q \o <<bytes>> /\ buffer' = << >>
      BY <1>2, <1>6, <2>5 DEF q
    <3>2. InFlight(wire, q \o <<bytes>>, << >>, T)
      BY <1>1, <1>3, <2>1, <2>3, QueueBuffer
    <3> QED BY <3>1, <3>2 DEF T, bytes
  <2> QED BY <2>4, <2>5
<1> QED BY <1>5, <1>6

\* The packet that is taken is the one behind those that were taken.
LEMMA TakenNext ==
  ASSUME NEW k \in Nat, freed = 1 .. k, tail \in Nat, tail \notin freed, tail > 0,
         freed' = freed \cup {tail}, \A n \in freed' : 1 .. n \subseteq freed'
  PROVE  tail = k + 1
<1>1. tail > k
  OBVIOUS
<1>2. 1 .. tail \subseteq (1 .. k) \cup {tail}
  OBVIOUS
<1>3. CASE tail > k + 1
  <2>1. k + 1 \in 1 .. tail
    BY <1>3
  <2>2. k + 1 \notin (1 .. k) \cup {tail}
    BY <1>3
  <2> QED BY <1>2, <2>1, <2>2
<1> QED BY <1>1, <1>3

LEMMA TakeStream ==
  ASSUME TypeOK, Accepted \subseteq Nodes, QueueInv, QueueInv', TakenInOrder', StreamInv, TakePacket
  PROVE  StreamInv'
<1>1. PICK k \in 0 .. Len(order) :
        /\ freed = 1 .. k /\ Occurs(wire, First(k), 0)
        /\ network = "up" => InFlight(wire, writeQueue, buffer, First(k))
  BY DEF StreamInv
<1>2. /\ freed' = freed \cup {tail} /\ Buffered(tail) /\ tail # Dummy
      /\ UNCHANGED <<order, network, wire>>
  BY DEF TakePacket, Pops
<1>3. tail \in Nodes /\ tail \in Nat /\ tail > 0
  <2>1. tail \in Nodes
    BY <1>2 DEF TypeOK, MPSCTypeOK, Cells
  <2> QED BY <2>1
<1>4. tail \notin freed
  <2>1. PICK L \in [Nat -> Cells], lo \in Nat, hi \in Nat : Chain(L, lo, hi) /\ Placed(L, lo, hi)
    BY DEF QueueInv
  <2>2. lo \in lo .. hi /\ L[lo] = tail
    BY <2>1 DEF Chain
  <2> QED BY <1>2, <2>1, <2>2 DEF Placed
<1>5. order \in Seq(Nodes) /\ Len(order) \in Nat /\ k \in Nat /\ 1 .. k \subseteq Nodes
      /\ First(k) \in Seq(Bytes)
  BY FirstBytes, LenProperties DEF TypeOK
<1>6. tail = k + 1
  BY <1>1, <1>2, <1>3, <1>4, <1>5, TakenNext DEF TakenInOrder
<1>7. k + 1 \in 0 .. Len(order) /\ freed' = 1 .. k + 1
  <2>1. k + 1 \in Accepted
    BY <1>2, <1>6 DEF QueueInv, Accepted
  <2>2. k + 1 \in 0 .. Len(order)
    BY <1>5, <2>1 DEF Accepted
  <2>3. freed' = 1 .. k + 1
    BY <1>1, <1>2, <1>5, <1>6
  <2> QED BY <2>2, <2>3
<1>8. First(k + 1) = First(k) \o Channel!Bytes(k + 1)
  <2>1. 1 .. k + 1 \subseteq Nodes
    BY <1>3, <1>5, <1>6
  <2> QED BY <1>5, <2>1, FirstNext
<1>9. wire \in Seq(Bytes) /\ writeQueue \in Seq(Seq(Bytes)) /\ buffer \in Seq(Bytes)
  BY DEF TypeOK, Bytes
<1>10. Occurs(wire', First(k + 1), 0)
  <2>1. Channel!Bytes(k + 1) \in Seq(Bytes)
    BY <1>3, <1>6, PacketType
  <2>2. Occurs(wire, First(k) \o Channel!Bytes(k + 1), 0)
    BY <1>1, <1>5, <1>9, <2>1, OccursAlso
  <2> QED BY <1>2, <1>8, <2>2
<1>11. network' = "up" => InFlight(wire', writeQueue', buffer', First(k + 1))
  <2> SUFFICES ASSUME network = "up" PROVE InFlight(wire, writeQueue', buffer', First(k + 1))
    BY <1>2
  <2>1. Buffered(k + 1) /\ k + 1 \in Nodes
    BY <1>2, <1>3, <1>6
  <2>2. InFlight(wire, writeQueue, buffer, First(k))
    BY <1>1
  <2> QED BY <1>5, <1>8, <1>9, <2>1, <2>2, BufferedFlight
<1> QED BY <1>2, <1>7, <1>10, <1>11, Zenon DEF StreamInv

LEMMA FlushStream ==
  ASSUME TypeOK, Accepted \subseteq Nodes, StreamInv, Flush
  PROVE  StreamInv'
<1>1. PICK k \in 0 .. Len(order) :
        /\ freed = 1 .. k /\ Occurs(wire, First(k), 0)
        /\ network = "up" => InFlight(wire, writeQueue, buffer, First(k))
  BY DEF StreamInv
<1>2. /\ writeQueue' = writeQueue \o NotEmpty(buffer) /\ buffer' = << >>
      /\ UNCHANGED <<order, freed, network, wire>>
  BY DEF Flush
<1>3. wire \in Seq(Bytes) /\ writeQueue \in Seq(Seq(Bytes)) /\ buffer \in Seq(Bytes)
      /\ First(k) \in Seq(Bytes)
  BY FirstBytes DEF TypeOK, Bytes
<1>4. ASSUME InFlight(wire, writeQueue, buffer, First(k))
      PROVE  InFlight(wire, writeQueue', << >>, First(k))
  <2>1. CASE buffer = << >>
    BY <1>2, <1>3, <1>4, <2>1, ConcatEmptySeq DEF NotEmpty
  <2>2. CASE buffer # << >>
    <3>1. writeQueue' = writeQueue \o <<buffer>>
      BY <1>2, <2>2 DEF NotEmpty
    <3>2. InFlight(wire, writeQueue \o <<buffer>>, << >>, First(k))
      BY <1>3, <1>4, QueueBuffer
    <3> QED BY <3>1, <3>2
  <2> QED BY <2>1, <2>2
<1> QED BY <1>1, <1>2, <1>4, Zenon DEF StreamInv

\* A write, cut or whole.
LEMMA HandledFlight ==
  ASSUME NEW S \in Seq(Bytes), NEW sent \in Nat, HandleQueue(sent), network = "up",
         wire \in Seq(Bytes), writeQueue \in Seq(Seq(Bytes)), buffer \in Seq(Bytes),
         InFlight(wire, writeQueue, buffer, S)
  PROVE  InFlight(wire', writeQueue', buffer, S)
<1>1. CASE writeQueue = << >>
  BY <1>1 DEF HandleQueue
<1>2. CASE writeQueue # << >>
  <2> DEFINE f == Head(writeQueue)
             q == Tail(writeQueue)
  <2>1. f \in Seq(Bytes) /\ q \in Seq(Seq(Bytes)) /\ writeQueue = <<f>> \o q
    BY <1>2, HeadTailProperties
  <2>2. \/ sent = Len(f) /\ writeQueue' = q /\ wire' = wire \o SubSeq(f, 1, sent)
        \/ /\ sent < Len(f) /\ writeQueue' = <<SubSeq(f, sent + 1, Len(f))>> \o q
           /\ wire' = wire \o SubSeq(f, 1, sent)
    BY <1>2 DEF HandleQueue, Pop
  <2> HIDE DEF f, q
  <2>3. sent \in 0 .. Len(f) /\ Len(f) \in Nat
    BY <2>1, <2>2, LenProperties
  <2>4. InFlight(wire \o SubSeq(f, 1, sent), <<SubSeq(f, sent + 1, Len(f))>> \o q, buffer, S)
    BY <2>1, <2>3, WriteFront
  <2>5. CASE sent = Len(f) /\ writeQueue' = q /\ wire' = wire \o SubSeq(f, 1, sent)
    <3>1. SubSeq(f, sent + 1, Len(f)) = << >>
      BY <2>3, <2>5, SubSeqEmpty
    <3>2. InFlight(wire', <<<< >>>> \o q, buffer, S)
      BY <2>4, <2>5, <3>1
    <3>3. wire' \in Seq(Bytes)
      BY <2>1, <2>3, <2>5, Parts, ConcatProperties
    <3> QED BY <2>1, <2>5, <3>2, <3>3, DropFront
  <2> QED BY <2>2, <2>4, <2>5
<1> QED BY <1>1, <1>2

LEMMA HandlesStream ==
  ASSUME TypeOK, Accepted \subseteq Nodes, StreamInv, Handles
  PROVE  StreamInv' /\ (wire' = wire \/ network = "up")
<1>1. PICK k \in 0 .. Len(order) :
        /\ freed = 1 .. k /\ Occurs(wire, First(k), 0)
        /\ network = "up" => InFlight(wire, writeQueue, buffer, First(k))
  BY DEF StreamInv
<1>2. PICK sent \in Nat : HandleQueue(sent)
  BY DEF Handles
<1>3. UNCHANGED <<order, freed, buffer, network>>
  BY DEF Handles
<1>4. wire \in Seq(Bytes) /\ writeQueue \in Seq(Seq(Bytes)) /\ buffer \in Seq(Bytes)
      /\ First(k) \in Seq(Bytes)
  BY FirstBytes DEF TypeOK, Bytes
<1>5. CASE network = "up"
  <2>1. InFlight(wire', writeQueue', buffer, First(k))
    BY <1>1, <1>2, <1>4, <1>5, HandledFlight
  <2>2. Occurs(wire', First(k), 0)
    BY <2>1, Written
  <2> QED BY <1>1, <1>3, <1>5, <2>1, <2>2, Zenon DEF StreamInv
<1>6. CASE network # "up"
  <2>1. wire' = wire
    <3>1. wire \o << >> = wire
      BY <1>4, ConcatEmptySeq
    <3>2. wire' = wire \/ wire' = wire \o SubSeq(Head(writeQueue), 1, 0)
      BY <1>2, <1>6 DEF HandleQueue
    <3>3. SubSeq(Head(writeQueue), 1, 0) = << >>
      BY SubSeqEmpty
    <3> QED BY <3>1, <3>2, <3>3
  <2> QED BY <1>1, <1>3, <1>6, <2>1, Zenon DEF StreamInv
<1> QED BY <1>5, <1>6

LEMMA StreamStep ==
  ASSUME Inv, Inv', TakenInOrder', Numbered, StreamInv, [Next]_vars
  PROVE  Numbered' /\ StreamInv'
<1>1. TypeOK /\ NameInv /\ QueueInv /\ QueueInv' /\ order \in Seq(Nodes) /\ Accepted \subseteq Nodes
  BY Named DEF Inv, TypeOK
<1>2. Quiet \/ TakePacket \/ Flush \/ Handles \/ Breaks
  BY <1>1, StreamKinds
<1>3. UNCHANGED order \/ Accepts
  BY <1>2, Zenon DEF Quiet, TakePacket, Pops, Flush, GiveUp, Handles, Breaks
<1>4. Numbered'
  BY <1>1, <1>3, NumberedStep
<1>5. StreamInv'
  BY <1>1, <1>2, QuietStream, TakeStream, FlushStream, HandlesStream, BreaksStream
<1> QED BY <1>4, <1>5

LEMMA PrefixOccurs ==
  ASSUME NEW X, NEW w \in Seq(X), NEW S \in Seq(X), Occurs(w, S, 0)
  PROVE  Channel!IsPrefix(w, S)
<1>1. Len(w) \in Nat /\ Len(S) \in Nat /\ Len(w) <= Len(S) /\ \A j \in 1 .. Len(w) : w[j] = S[j]
  <2>1. Len(w) \in Nat /\ Len(S) \in Nat
    BY LenProperties
  <2> QED BY <2>1 DEF Occurs
<1>2. \A j \in 1 .. Len(w) : w[j] \in X /\ S[j] \in X
  BY <1>1, ElementOfSeq
<1>3. /\ SubSeq(w, 1, Len(w)) \in Seq(X) /\ Len(SubSeq(w, 1, Len(w))) = Len(w)
      /\ \A j \in 1 .. Len(w) : SubSeq(w, 1, Len(w))[j] = w[j]
  BY <1>1, <1>2, SubSeqProperties
<1>4. /\ SubSeq(S, 1, Len(w)) \in Seq(X) /\ Len(SubSeq(S, 1, Len(w))) = Len(w)
      /\ \A j \in 1 .. Len(w) : SubSeq(S, 1, Len(w))[j] = S[j]
  BY <1>1, <1>2, SubSeqProperties
<1>5. SubSeq(w, 1, Len(w)) = SubSeq(S, 1, Len(w))
  BY <1>1, <1>3, <1>4, SeqEqual
<1> QED BY <1>1, <1>5 DEF Channel!IsPrefix

\* A write appends to what is written.
LEMMA HandledWire ==
  ASSUME NEW sent \in Nat, HandleQueue(sent), wire \in Seq(Bytes), wire' \in Seq(Bytes),
         writeQueue \in Seq(Seq(Bytes))
  PROVE  wire' = wire \/ Channel!IsPrefix(wire, wire')
<1>1. CASE writeQueue = << >>
  BY <1>1 DEF HandleQueue
<1>2. CASE writeQueue # << >>
  <2> DEFINE f == Head(writeQueue)
  <2>1. f \in Seq(Bytes) /\ Len(f) \in Nat
    BY <1>2, HeadTailProperties, LenProperties
  <2>2. sent <= Len(f) /\ wire' = wire \o SubSeq(f, 1, sent)
    <3>1. sent = 0 \/ sent = Len(f) \/ sent < Len(f)
      BY <1>2 DEF HandleQueue
    <3>2. wire' = wire \o SubSeq(f, 1, sent)
      BY <1>2 DEF HandleQueue
    <3> QED BY <2>1, <3>1, <3>2
  <2> HIDE DEF f
  <2>3. SubSeq(f, 1, sent) \in Seq(Bytes)
    <3>1. sent \in 0 .. Len(f)
      BY <2>1, <2>2
    <3> QED BY <2>1, <3>1, Parts
  <2>4. Occurs(wire, wire', 0)
    <3>1. Occurs(wire, wire, 0)
      <4>1. Len(wire) \in Nat /\ \A j \in 1 .. Len(wire) : 0 + j = j
        BY LenProperties
      <4> QED BY <4>1 DEF Occurs
    <3> QED BY <2>2, <2>3, <3>1, OccursAlso
  <2> QED BY <2>4, PrefixOccurs
<1> QED BY <1>1, <1>2

LEMMA ChannelStep ==
  ASSUME Inv, Inv', Numbered, Numbered', StreamInv, StreamInv', [Next]_vars
  PROVE  [Channel!Next]_(Channel!channelVars)
<1>1. /\ TypeOK /\ TypeOK' /\ NameInv /\ order \in Seq(Nodes) /\ Accepted \subseteq Nodes
      /\ wire \in Seq(Bytes) /\ wire' \in Seq(Bytes) /\ writeQueue \in Seq(Seq(Bytes))
  BY Named DEF Inv, TypeOK, Bytes
<1>2. Quiet \/ TakePacket \/ Flush \/ Handles \/ Breaks
  BY <1>1, StreamKinds
<1>3. UNCHANGED <<order, wire, network>> => UNCHANGED Channel!channelVars
  BY DEF Channel!channelVars
<1>4. CASE Quiet
  <2>1. CASE Accepts
    <3>1. Channel!Accept
      BY <1>4, <2>1 DEF Quiet, Accepts, Channel!Accept
    <3> QED BY <3>1 DEF Channel!Next
  <2> QED BY <1>3, <1>4, <2>1 DEF Quiet
<1>5. TakePacket \/ Flush => UNCHANGED <<order, wire, network>>
  BY Zenon DEF TakePacket, Flush
<1>6. CASE Handles
  <2>1. UNCHANGED <<order, network>>
    BY <1>6 DEF Handles
  <2>2. CASE wire' = wire
    BY <1>3, <2>1, <2>2
  <2>3. CASE wire' # wire
    <3>1. network = "up"
      BY <1>1, <1>6, <2>3, HandlesStream
    <3>2. Channel!IsPrefix(wire, wire')
      BY <1>1, <1>6, <2>3, HandledWire DEF Handles
    <3>3. Channel!IsPrefix(wire', Channel!Stream)
      <4>1. PICK k \in 0 .. Len(order) : Occurs(wire', First(k), 0)
        BY <2>1 DEF StreamInv
      <4>2. k \in Nat /\ k <= Len(order) /\ Len(order) \in 0 .. Len(order) /\ Len(order) \in Nat
        BY <1>1, LenProperties
      <4>3. 1 .. Len(order) \subseteq Nodes /\ First(Len(order)) \in Seq(Bytes)
        BY <1>1, <4>2, FirstBytes
      <4>4. Occurs(wire', First(Len(order)), 0)
        BY <1>1, <4>1, <4>2, <4>3, FirstStays
      <4>5. Channel!Stream = First(Len(order))
        BY <1>1, StreamIsFirst
      <4> QED BY <1>1, <4>3, <4>4, <4>5, PrefixOccurs
    <3>4. Channel!Transmit
      BY <2>1, <2>3, <3>1, <3>2, <3>3 DEF Channel!Transmit
    <3> QED BY <3>4 DEF Channel!Next
  <2> QED BY <2>2, <2>3
<1>7. CASE Breaks
  <2>1. UNCHANGED <<order, wire>> /\ network' # "up"
    BY <1>7 DEF Breaks
  <2>2. Channel!Down
    BY <2>1 DEF Channel!Down
  <2> QED BY <2>2 DEF Channel!Next
<1> QED BY <1>2, <1>3, <1>4, <1>5, <1>6, <1>7

\* Whatever threads send and however the buffers are filled and the writes cut, the peer
\* gets the bytes of the packets in the order of their exchanges, none left out and none
\* twice, until the connection breaks: the socket implements the channel.
THEOREM ChannelHolds == Spec => ChannelRefined
<1>1. Init => Channel!Init
  BY DEF Init, Channel!Init
<1>2. Init => Numbered /\ StreamInv
  <2> SUFFICES ASSUME Init PROVE Numbered /\ StreamInv
    OBVIOUS
  <2>1. order = << >> /\ freed = {} /\ wire = << >> /\ buffer = << >> /\ writeQueue = << >>
        /\ Len(order) = 0 /\ 1 .. 0 = {}
    BY DEF Init
  <2>2. Numbered
    BY <2>1 DEF Numbered
  <2>3. Occurs(<< >>, << >>, 0)
    BY DEF Occurs
  <2>4. InFlight(<< >>, << >>, << >>, << >>)
    <3>1. Flies(<< >>, << >>, << >>, << >>, [i \in Nat |-> 0])
      BY <2>3 DEF Flies
    <3> QED BY <3>1 DEF InFlight
  <2>5. freed = 1 .. 0 /\ Occurs(wire, First(0), 0) /\ InFlight(wire, writeQueue, buffer, First(0))
        /\ 0 \in 0 .. Len(order)
    BY <2>1, <2>3, <2>4, FirstNone
  <2> QED BY <2>2, <2>5, Zenon DEF StreamInv
<1>3. Inv /\ Inv' /\ TakenInOrder' /\ Numbered /\ StreamInv /\ [Next]_vars => Numbered' /\ StreamInv'
  BY StreamStep
<1>4. Inv /\ Inv' /\ Numbered /\ Numbered' /\ StreamInv /\ StreamInv' /\ [Next]_vars =>
        [Channel!Next]_(Channel!channelVars)
  BY ChannelStep
<1> QED BY <1>1, <1>2, <1>3, <1>4, Inductive, QueueInOrder, PTL DEF Spec, ChannelRefined, Channel!Spec
=============================================================================
