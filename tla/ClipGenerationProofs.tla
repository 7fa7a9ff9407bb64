------------------------ MODULE ClipGenerationProofs ------------------------
(***************************************************************************)
(* Proofs about ClipGeneration: for any numbers of phrases and variants,   *)
(* any limit, any phrases spelt alike, and however often a script is run,  *)
(* fails or is interrupted.                                                *)
(***************************************************************************)
EXTENDS ClipGeneration, FunctionTheorems, FiniteSetTheorems, SequenceTheorems, TLAPS

-----------------------------------------------------------------------------
(* The plans.                                                              *)

\* A job of a plan: no more clips than there are variants; a job of one category.
Jobs == {S \in SUBSET Clips : IsFiniteSet(S) /\ Cardinality(S) <= Variants}
JobsOf(negative) == {S \in Jobs : \A c \in S : c[1] = negative}

\* The phrases of a category.
Count(negative) == IF negative THEN Negatives ELSE Positives

\* Quotient and remainder.
LEMMA DivMod ==
  ASSUME NEW a \in Nat, NEW p \in Nat \ {0}
  PROVE  a \div p \in Nat /\ a % p \in 0 .. p - 1 /\ a = p * (a \div p) + (a % p)
OBVIOUS

\* Quotient and remainder are determined.
LEMMA DivModUnique ==
  ASSUME NEW p \in Nat \ {0}, NEW q \in Nat, NEW q2 \in Nat,
         NEW r \in 0 .. p - 1, NEW r2 \in 0 .. p - 1, p * q + r = p * q2 + r2
  PROVE  q = q2 /\ r = r2
<1>1. ASSUME NEW x \in Nat, NEW y \in Nat, x < y PROVE p * x + p <= p * y
  <2>1. PICK d \in Nat : y = x + 1 + d BY <1>1
  <2>2. p * y = p * x + p + p * d BY <2>1
  <2>3. p * d \in Nat BY <2>1
  <2> QED BY <2>2, <2>3
<1>2. p * q \in Nat /\ p * q2 \in Nat OBVIOUS
<1>3. ~(q < q2) BY <1>1, <1>2
<1>4. ~(q2 < q) BY <1>1, <1>2
<1> QED BY <1>3, <1>4, <1>2

\* The phrases of a category are numbered from 1.
LEMMA PhrasesAre ==
  ASSUME NEW negative \in BOOLEAN
  PROVE  /\ Phrases(negative) = 1 .. Count(negative) /\ Count(negative) \in Nat
         /\ IsFiniteSet(Phrases(negative)) /\ Cardinality(Phrases(negative)) = Count(negative)
<1>1. Phrases(negative) = 1 .. Count(negative) /\ Count(negative) \in Nat
  BY ClipAssumption DEF Phrases, Count
<1> QED BY <1>1, FS_Interval

\* A clip bears its category and its variant.
LEMMA ClipsAre ==
  ASSUME NEW negative \in BOOLEAN, NEW i \in Phrases(negative), NEW v \in 1 .. Variants
  PROVE  /\ out_path(negative, i, v) \in Clips
         /\ out_path(negative, i, v)[1] = negative /\ out_path(negative, i, v)[3] = v
BY DEF out_path, Clips

\* Every clip is of a phrase and a variant.
LEMMA ClipParts ==
  ASSUME NEW c \in Clips
  PROVE  /\ c[1] \in BOOLEAN /\ c[3] \in 1 .. Variants
         /\ \E negative \in BOOLEAN : \E i \in Phrases(negative) : \E v \in 1 .. Variants : c = out_path(negative, i, v)
<1>1. PICK negative \in BOOLEAN : c \in {out_path(negative, i, v) : i \in Phrases(negative), v \in 1 .. Variants}
  BY DEF Clips
<1>2. PICK i \in Phrases(negative), v \in 1 .. Variants : c = out_path(negative, i, v)
  BY <1>1
<1>3. c[1] = negative /\ c[3] = v BY <1>2, ClipsAre
<1> QED BY <1>2, <1>3

\* One clip is a job.
LEMMA Singleton ==
  ASSUME NEW negative \in BOOLEAN, NEW i \in Phrases(negative), NEW v \in 1 .. Variants
  PROVE  {out_path(negative, i, v)} \in JobsOf(negative) /\ Cardinality({out_path(negative, i, v)}) = 1
<1>1. IsFiniteSet({out_path(negative, i, v)}) /\ Cardinality({out_path(negative, i, v)}) = 1
  BY FS_Singleton
<1> QED BY <1>1, ClipsAre, ClipAssumption DEF Jobs, JobsOf

\* Where the k-th job of a grid lies, and where the job of a clip is.
LEMMA GridPlace ==
  ASSUME NEW negative \in BOOLEAN, NEW k \in 1 .. Count(negative) * Variants
  PROVE  /\ ((k - 1) % Count(negative)) + 1 \in Phrases(negative)
         /\ ((k - 1) \div Count(negative)) + 1 \in 1 .. Variants
<1> DEFINE n == Count(negative)
           q == (k - 1) \div n
           r == (k - 1) % n
<1>1. n \in Nat /\ Variants \in Nat BY PhrasesAre, ClipAssumption
<1>2. n # 0 BY <1>1
<1>3. q \in Nat /\ r \in 0 .. n - 1 /\ k - 1 = n * q + r
  <2>1. k - 1 \in Nat /\ n \in Nat \ {0} BY <1>1, <1>2
  <2> HIDE DEF n
  <2> QED BY <2>1, DivMod
<1>4. q < Variants
  <2>1. SUFFICES ASSUME q >= Variants PROVE FALSE BY <1>3, <1>1
  <2> HIDE DEF q, n
  <2>2. PICK d \in Nat : q = Variants + d
    <3>1. q - Variants \in Nat /\ q = Variants + (q - Variants) BY <2>1, <1>1, <1>3
    <3> QED BY <3>1
  <2>3. n * q = n * Variants + n * d BY <2>2, <1>1
  <2>4. n * d \in Nat BY <2>2, <1>1
  <2>5. k <= n * Variants BY <1>1 DEF n
  <2> QED BY <2>3, <2>4, <2>5, <1>1, <1>3
<1>5. r + 1 \in 1 .. n /\ q + 1 \in 1 .. Variants
  <2> HIDE DEF q, r, n
  <2> QED BY <1>1, <1>3, <1>4
<1> QED BY <1>5, PhrasesAre

\* The grid has a job for each phrase and each variant, the phrases inside the variants.
LEMMA GridIs ==
  ASSUME NEW negative \in BOOLEAN
  PROVE  /\ Grid[negative] \in Seq(JobsOf(negative))
         /\ Len(Grid[negative]) = Count(negative) * Variants
         /\ \A k \in 1 .. Count(negative) * Variants :
              Grid[negative][k] = {out_path(negative, ((k - 1) % Count(negative)) + 1,
                                                      ((k - 1) \div Count(negative)) + 1)}
<1> DEFINE n == Count(negative)
           job(k) == {out_path(negative, ((k - 1) % n) + 1, ((k - 1) \div n) + 1)}
<1>1. Grid[negative] = [k \in 1 .. n * Variants |-> job(k)] BY PhrasesAre DEF Grid
<1>2. n * Variants \in Nat BY PhrasesAre, ClipAssumption
<1>3. \A k \in 1 .. n * Variants : job(k) \in JobsOf(negative) BY GridPlace, Singleton
<1>4. Grid[negative] \in Seq(JobsOf(negative)) BY <1>1, <1>2, <1>3, IsASeq
<1> HIDE DEF job
<1>5. Len(Grid[negative]) = n * Variants BY <1>1, <1>2, <1>4
<1>6. \A k \in 1 .. n * Variants : Grid[negative][k] = job(k) BY <1>1
<1> QED BY <1>4, <1>5, <1>6 DEF job

\* Every clip of a category has its job in the grid.
LEMMA GridCovers ==
  ASSUME NEW negative \in BOOLEAN, NEW i \in Phrases(negative), NEW v \in 1 .. Variants
  PROVE  \E k \in 1 .. Len(Grid[negative]) : Grid[negative][k] = {out_path(negative, i, v)}
<1> DEFINE n == Count(negative)
           k == n * (v - 1) + i
<1>1. n \in Nat \ {0} /\ i \in 1 .. n /\ v \in Nat /\ Variants \in Nat /\ v <= Variants
  BY PhrasesAre, ClipAssumption
<1>2. n * (v - 1) \in Nat BY <1>1
<1>3. n * (v - 1) + n <= n * Variants
  <2>1. PICK d \in Nat : Variants = (v - 1) + 1 + d BY <1>1
  <2>2. n * Variants = n * (v - 1) + n + n * d BY <2>1, <1>1
  <2>3. n * d \in Nat BY <2>1, <1>1
  <2> QED BY <2>2, <2>3, <1>2, <1>1
<1>4. k \in 1 .. n * Variants BY <1>1, <1>2, <1>3
<1>5. (k - 1) \div n = v - 1 /\ (k - 1) % n = i - 1
  <2>1. k - 1 \in Nat /\ k - 1 = n * (v - 1) + (i - 1) BY <1>1, <1>2
  <2>2. (k - 1) \div n \in Nat /\ (k - 1) % n \in 0 .. n - 1 /\ k - 1 = n * ((k - 1) \div n) + ((k - 1) % n)
    BY <2>1, <1>1, DivMod
  <2>3. v - 1 \in Nat /\ i - 1 \in 0 .. n - 1 BY <1>1
  <2> DEFINE q == (k - 1) \div n
             r == (k - 1) % n
  <2>4. n * q + r = n * (v - 1) + (i - 1) BY <2>1, <2>2
  <2>5. q \in Nat /\ r \in 0 .. n - 1 BY <2>2
  <2> HIDE DEF k, n, q, r
  <2>6. q = v - 1 /\ r = i - 1 BY <2>3, <2>4, <2>5, <1>1, DivModUnique
  <2> QED BY <2>6 DEF q, r
<1>6. ((k - 1) \div n) + 1 = v /\ ((k - 1) % n) + 1 = i BY <1>5, <1>1
<1>7. Grid[negative][k] = {out_path(negative, i, v)} BY <1>4, <1>6, GridIs
<1> QED BY <1>4, <1>7, GridIs

\* Scripts that do not name their clips by the slug have one job for each clip.
LEMMA GridApart ==
  ASSUME engine \notin BySlug, NEW negative \in BOOLEAN,
         NEW k \in 1 .. Len(Grid[negative]), NEW l \in 1 .. Len(Grid[negative]), k # l
  PROVE  Grid[negative][k] \cap Grid[negative][l] = {}
<1> DEFINE n == Count(negative)
<1>1. k \in 1 .. n * Variants /\ l \in 1 .. n * Variants BY GridIs
<1>2. n \in Nat /\ Variants \in Nat BY PhrasesAre, ClipAssumption
<1>3. n # 0 BY <1>1, <1>2
<1>4. /\ (k - 1) \div n \in Nat /\ (k - 1) % n \in 0 .. n - 1 /\ k - 1 = n * ((k - 1) \div n) + ((k - 1) % n)
      /\ (l - 1) \div n \in Nat /\ (l - 1) % n \in 0 .. n - 1 /\ l - 1 = n * ((l - 1) \div n) + ((l - 1) % n)
  <2>1. k - 1 \in Nat /\ l - 1 \in Nat BY <1>1
  <2> QED BY <2>1, <1>2, <1>3, DivMod
<1>5. (k - 1) \div n # (l - 1) \div n \/ (k - 1) % n # (l - 1) % n BY <1>1, <1>4
<1>6. ((k - 1) \div n) + 1 # ((l - 1) \div n) + 1 \/ ((k - 1) % n) + 1 # ((l - 1) % n) + 1
  BY <1>4, <1>5
<1>7. \A i, v, i2, v2 : out_path(negative, i, v) = out_path(negative, i2, v2) => i = i2 /\ v = v2
  BY DEF out_path, slug
<1> QED BY <1>1, <1>6, <1>7, GridIs

\* One job for each phrase, with all its variants.
LEMMA PerPhraseIs ==
  ASSUME NEW negative \in BOOLEAN
  PROVE  /\ PerPhrase[negative] \in Seq(JobsOf(negative))
         /\ Len(PerPhrase[negative]) = Count(negative)
         /\ \A i \in Phrases(negative) :
              PerPhrase[negative][i] = {out_path(negative, i, v) : v \in 1 .. Variants}
<1> DEFINE job(i) == {out_path(negative, i, v) : v \in 1 .. Variants}
<1>1. PerPhrase[negative] = [i \in 1 .. Count(negative) |-> job(i)] BY PhrasesAre DEF PerPhrase
<1>2. \A i \in 1 .. Count(negative) : job(i) \in JobsOf(negative)
  <2> SUFFICES ASSUME NEW i \in 1 .. Count(negative) PROVE job(i) \in JobsOf(negative)
    OBVIOUS
  <2>1. i \in Phrases(negative) BY PhrasesAre
  <2>2. job(i) \in SUBSET Clips /\ \A c \in job(i) : c[1] = negative BY <2>1, ClipsAre
  <2> DEFINE f == [v \in 1 .. Variants |-> out_path(negative, i, v)]
  <2>3. f \in Surjection(1 .. Variants, job(i)) BY Fun_IsSurj
  <2>4. IsFiniteSet(1 .. Variants) /\ Cardinality(1 .. Variants) = Variants
    BY ClipAssumption, FS_Interval
  <2> HIDE DEF f, job
  <2>5. IsFiniteSet(job(i)) /\ Cardinality(job(i)) <= Variants BY <2>3, <2>4, FS_Surjection
  <2> QED BY <2>2, <2>5 DEF Jobs, JobsOf
<1> HIDE DEF job
<1>3. Count(negative) \in Nat BY PhrasesAre
<1>4. PerPhrase[negative] \in Seq(JobsOf(negative)) BY <1>1, <1>2, <1>3, IsASeq
<1>5. Len(PerPhrase[negative]) = Count(negative) BY <1>1, <1>3, <1>4
<1>6. \A i \in Phrases(negative) : PerPhrase[negative][i] = job(i) BY <1>1, PhrasesAre
<1> QED BY <1>4, <1>5, <1>6 DEF job

\* The positives' jobs first.
LEMMA BothAre ==
  ASSUME NEW s \in Seq(JobsOf(FALSE)), NEW t \in Seq(JobsOf(TRUE))
  PROVE  /\ s \o t \in Seq(Jobs) /\ Len(s \o t) = Len(s) + Len(t)
         /\ Len(s) \in Nat /\ Len(t) \in Nat
         /\ \A k \in 1 .. Len(s) : (s \o t)[k] = s[k] /\ s[k] \in JobsOf(FALSE)
         /\ \A k \in 1 .. Len(t) : (s \o t)[Len(s) + k] = t[k] /\ t[k] \in JobsOf(TRUE)
<1>1. JobsOf(FALSE) \subseteq Jobs /\ JobsOf(TRUE) \subseteq Jobs BY DEF JobsOf
<1>2. /\ Len(s) \in Nat /\ Len(t) \in Nat
      /\ \A k \in 1 .. Len(s) : s[k] \in JobsOf(FALSE)
      /\ \A k \in 1 .. Len(t) : t[k] \in JobsOf(TRUE)
  BY LenProperties, ElementOfSeq
<1>3. s \in Seq(Jobs) /\ t \in Seq(Jobs)
  <2>1. \A k \in 1 .. Len(s) : s[k] \in Jobs BY <1>1, <1>2
  <2>2. \A k \in 1 .. Len(t) : t[k] \in Jobs BY <1>1, <1>2
  <2>3. [k \in 1 .. Len(s) |-> s[k]] \in Seq(Jobs) BY <1>2, <2>1, IsASeq
  <2>4. [k \in 1 .. Len(t) |-> t[k]] \in Seq(Jobs) BY <1>2, <2>2, IsASeq
  <2>5. s = [k \in 1 .. Len(s) |-> s[k]] /\ t = [k \in 1 .. Len(t) |-> t[k]] BY LenProperties
  <2> QED BY <2>3, <2>4, <2>5
<1>4. /\ s \o t \in Seq(Jobs) /\ Len(s \o t) = Len(s) + Len(t)
      /\ \A i \in 1 .. Len(s) + Len(t) :
           (s \o t)[i] = IF i <= Len(s) THEN s[i] ELSE t[i - Len(s)]
  BY <1>3, ConcatProperties
<1>5. \A k \in 1 .. Len(s) : (s \o t)[k] = s[k] BY <1>2, <1>4
<1>6. \A k \in 1 .. Len(t) : (s \o t)[Len(s) + k] = t[k]
  <2> TAKE k \in 1 .. Len(t)
  <2>1. Len(s) + k \in 1 .. Len(s) + Len(t) /\ ~(Len(s) + k <= Len(s)) /\ (Len(s) + k) - Len(s) = k
    BY <1>2
  <2> QED BY <1>4, <2>1
<1> QED BY <1>2, <1>4, <1>5, <1>6

\* A limit cuts a list from its end.
LEMMA CapIs ==
  ASSUME limit \in Nat, NEW S, NEW jobs \in Seq(S)
  PROVE  /\ Cap(jobs) \in Seq(S) /\ Len(Cap(jobs)) <= Len(jobs)
         /\ limit = 0 => Cap(jobs) = jobs
         /\ limit # 0 => Len(Cap(jobs)) <= limit
<1>1. Len(jobs) \in Nat /\ \A k \in 1 .. Len(jobs) : jobs[k] \in S BY LenProperties, ElementOfSeq
<1>2. CASE limit = 0 \/ limit > Len(jobs) BY <1>1, <1>2 DEF Cap
<1>3. CASE limit # 0 /\ limit <= Len(jobs)
  <2>1. Cap(jobs) = SubSeq(jobs, 1, limit) BY <1>1, <1>3 DEF Cap
  <2>2. \A k \in 1 .. limit : jobs[k] \in S BY <1>1, <1>3
  <2>3. SubSeq(jobs, 1, limit) \in Seq(S) /\ Len(SubSeq(jobs, 1, limit)) = limit
    BY <2>2, <1>3, SubSeqProperties
  <2> QED BY <2>1, <2>3, <1>3, <1>1
<1> QED BY <1>1, <1>2, <1>3

\* Each job at one of the places comes once, and no other.
LEMMA AtIs ==
  ASSUME NEW S, NEW jobs \in Seq(S), NEW places \in SUBSET (1 .. Len(jobs))
  PROVE  /\ At(jobs, places) \in Seq(S)
         /\ \E from \in [1 .. Len(At(jobs, places)) -> 1 .. Len(jobs)] :
              /\ \A k \in 1 .. Len(At(jobs, places)) :
                   At(jobs, places)[k] = jobs[from[k]] /\ from[k] \in places
              /\ \A k, l \in 1 .. Len(At(jobs, places)) : k # l => from[k] # from[l]
         /\ \A i \in places : \E k \in 1 .. Len(At(jobs, places)) : At(jobs, places)[k] = jobs[i]
<1> DEFINE upTo(i) == {j \in places : j <= i}
           rank(i) == Cardinality(upTo(i))
           n == Cardinality(places)
           pick(k) == CHOOSE i \in places : rank(i) = k
<1>1. At(jobs, places) = [k \in 1 .. n |-> jobs[pick(k)]] BY DEF At
<1>2. Len(jobs) \in Nat /\ \A k \in 1 .. Len(jobs) : jobs[k] \in S
  BY LenProperties, ElementOfSeq
<1>3. places \subseteq 1 .. Len(jobs) OBVIOUS
<1>4. IsFiniteSet(places) /\ n \in Nat
  <2>1. IsFiniteSet(1 .. Len(jobs)) BY <1>2, FS_Interval
  <2>2. IsFiniteSet(places) BY <2>1, <1>3, FS_Subset
  <2> QED BY <2>2, FS_CardinalityType
<1>5. \A i \in places : upTo(i) \subseteq places /\ i \in upTo(i) BY <1>3
<1>6. \A i \in places : IsFiniteSet(upTo(i)) /\ rank(i) \in Nat /\ rank(i) <= n
  BY <1>4, <1>5, FS_Subset, FS_CardinalityType
<1>7. \A i \in places : rank(i) \in 1 .. n
  <2> SUFFICES ASSUME NEW i \in places PROVE rank(i) \in 1 .. n
    OBVIOUS
  <2>1. upTo(i) # {} BY <1>5
  <2> HIDE DEF upTo
  <2>2. rank(i) # 0 BY <2>1, <1>6, FS_EmptySet
  <2> HIDE DEF n, rank
  <2> QED BY <2>2, <1>6, <1>4
<1>8. ASSUME NEW i \in places, NEW j \in places, i < j PROVE rank(i) # rank(j)
  <2>1. upTo(i) \in SUBSET upTo(j) /\ j \notin upTo(i) /\ j \in upTo(j)
    <3>1. i \in Int /\ j \in Int /\ \A x \in places : x \in Int BY <1>2, <1>3
    <3>2. j \in upTo(j) BY <3>1
    <3>3. j \notin upTo(i) BY <3>1, <1>8
    <3>4. \A x \in upTo(i) : x \in upTo(j)
      <4> TAKE x \in upTo(i)
      <4>1. x \in places /\ x <= i OBVIOUS
      <4>2. x <= j BY <4>1, <3>1, <1>8
      <4> QED BY <4>1, <4>2
    <3> HIDE DEF upTo
    <3> QED BY <3>2, <3>3, <3>4
  <2> HIDE DEF upTo
  <2> QED BY <2>1, <1>6, FS_Subset
<1>9. \A i, j \in places : rank(i) = rank(j) => i = j BY <1>8, <1>3
<1> DEFINE f == [i \in places |-> rank(i)]
<1>10. \A k \in 1 .. n : \E i \in places : rank(i) = k
  <2> HIDE DEF n, rank
  <2>1. f \in [places -> 1 .. n] BY <1>7
  <2>2. \A i, j \in places : f[i] = f[j] => i = j BY <1>9
  <2> HIDE DEF f
  <2>3. f \in Injection(places, 1 .. n) BY <2>1, <2>2, Fun_IsInj
  <2>4. IsFiniteSet(1 .. n) /\ Cardinality(1 .. n) = n BY <1>4, FS_Interval
  <2>5. f \in Surjection(places, 1 .. n) BY <2>3, <2>4, FS_Injection DEF n
  <2>6. \A k \in 1 .. n : \E i \in places : f[i] = k BY <2>5 DEF Surjection
  <2> QED BY <2>6 DEF f
<1>11. \A k \in 1 .. n : pick(k) \in places /\ rank(pick(k)) = k
  <2> HIDE DEF rank, n
  <2> QED BY <1>10
<1>12. \A i \in places : pick(rank(i)) = i BY <1>7, <1>11, <1>9
<1> HIDE DEF pick, rank, n, f
<1>13. \A k \in 1 .. n : jobs[pick(k)] \in S BY <1>11, <1>3, <1>2
<1>14. At(jobs, places) \in Seq(S) BY <1>1, <1>4, <1>13, IsASeq
<1>15. Len(At(jobs, places)) = n BY <1>1, <1>4, <1>14
<1>16. \E from \in [1 .. n -> 1 .. Len(jobs)] :
         /\ \A k \in 1 .. n : At(jobs, places)[k] = jobs[from[k]] /\ from[k] \in places
         /\ \A k, l \in 1 .. n : k # l => from[k] # from[l]
  <2> DEFINE from == [k \in 1 .. n |-> pick(k)]
  <2>1. from \in [1 .. n -> 1 .. Len(jobs)] BY <1>11, <1>3
  <2>2. \A k \in 1 .. n : At(jobs, places)[k] = jobs[from[k]] /\ from[k] \in places BY <1>1, <1>11
  <2>3. \A k, l \in 1 .. n : k # l => from[k] # from[l] BY <1>11
  <2> HIDE DEF from
  <2> QED BY <2>1, <2>2, <2>3
<1>17. \A i \in places : \E k \in 1 .. n : At(jobs, places)[k] = jobs[i]
  <2> SUFFICES ASSUME NEW i \in places
               PROVE  \E k \in 1 .. n : At(jobs, places)[k] = jobs[i]
    OBVIOUS
  <2>1. rank(i) \in 1 .. n /\ pick(rank(i)) = i BY <1>7, <1>12
  <2>2. At(jobs, places)[rank(i)] = jobs[i] BY <2>1, <1>1
  <2> QED BY <2>1, <2>2
<1> QED BY <1>14, <1>15, <1>16, <1>17

\* Each job with a clip missing comes once, and no other.
LEMMA NotOnDiskIs ==
  ASSUME NEW jobs \in Seq(Jobs)
  PROVE  /\ NotOnDisk(jobs) \in Seq(Jobs)
         /\ \E from \in [1 .. Len(NotOnDisk(jobs)) -> 1 .. Len(jobs)] :
              /\ \A k \in 1 .. Len(NotOnDisk(jobs)) : NotOnDisk(jobs)[k] = jobs[from[k]]
              /\ \A k \in 1 .. Len(NotOnDisk(jobs)) : \E c \in jobs[from[k]] : ~Exists(c)
              /\ \A k, l \in 1 .. Len(NotOnDisk(jobs)) : k # l => from[k] # from[l]
         /\ \A i \in 1 .. Len(jobs) : (\E c \in jobs[i] : ~Exists(c)) =>
              \E k \in 1 .. Len(NotOnDisk(jobs)) : NotOnDisk(jobs)[k] = jobs[i]
<1> DEFINE missing == {i \in DOMAIN jobs : \E c \in jobs[i] : ~Exists(c)}
<1>1. NotOnDisk(jobs) = At(jobs, missing) BY DEF NotOnDisk
<1>2. DOMAIN jobs = 1 .. Len(jobs) BY LenProperties
<1>3. missing \in SUBSET (1 .. Len(jobs)) BY <1>2
<1>4. \A i \in 1 .. Len(jobs) : i \in missing <=> \E c \in jobs[i] : ~Exists(c) BY <1>2
<1> HIDE DEF missing
<1>5. PICK plan \in Seq(Jobs) :
        /\ plan = NotOnDisk(jobs)
        /\ \E from \in [1 .. Len(plan) -> 1 .. Len(jobs)] :
             /\ \A k \in 1 .. Len(plan) : plan[k] = jobs[from[k]] /\ from[k] \in missing
             /\ \A k, l \in 1 .. Len(plan) : k # l => from[k] # from[l]
        /\ \A i \in missing : \E k \in 1 .. Len(plan) : plan[k] = jobs[i]
  BY <1>1, <1>3, AtIs
<1> QED BY <1>4, <1>5

\* The voices' part of a grid: jobs of the grid, and all of those voices.
LEMMA OfVoicesIs ==
  ASSUME NEW ready \in SUBSET (1 .. Variants), NEW negative \in BOOLEAN
  PROVE  /\ OfVoices(ready)[negative] \in Seq(JobsOf(negative))
         /\ \A k \in 1 .. Len(OfVoices(ready)[negative]) :
              \E l \in 1 .. Len(Grid[negative]) : OfVoices(ready)[negative][k] = Grid[negative][l]
         /\ \A l \in 1 .. Len(Grid[negative]) : (\A c \in Grid[negative][l] : c[3] \in ready) =>
              \E k \in 1 .. Len(OfVoices(ready)[negative]) : OfVoices(ready)[negative][k] = Grid[negative][l]
<1>1. PICK grid \in Seq(JobsOf(negative)) : grid = Grid[negative] BY GridIs
<1> DEFINE places == {i \in DOMAIN grid : \A c \in grid[i] : c[3] \in ready}
<1>2. OfVoices(ready)[negative] = At(grid, places) BY <1>1 DEF OfVoices
<1>3. DOMAIN grid = 1 .. Len(grid) BY LenProperties
<1>4. places \in SUBSET (1 .. Len(grid)) BY <1>3
<1>5. \A i \in 1 .. Len(grid) : i \in places <=> \A c \in grid[i] : c[3] \in ready BY <1>3
<1> HIDE DEF places
<1>6. PICK plan \in Seq(JobsOf(negative)) :
        /\ plan = OfVoices(ready)[negative]
        /\ \E from \in [1 .. Len(plan) -> 1 .. Len(grid)] :
             \A k \in 1 .. Len(plan) : plan[k] = grid[from[k]] /\ from[k] \in places
        /\ \A i \in places : \E k \in 1 .. Len(plan) : plan[k] = grid[i]
  BY <1>2, <1>4, AtIs
<1>7. \A k \in 1 .. Len(plan) : \E l \in 1 .. Len(grid) : plan[k] = grid[l] BY <1>6
<1> QED BY <1>1, <1>5, <1>6, <1>7

\* Where build_jobs puts the i-th positive and the j-th negative, out of p and n.
PosAt(n, i) == i + (IF n < 2 * (i - 1) THEN n ELSE 2 * (i - 1))
NegAt(p, j) == j + (IF p < (j + 1) \div 2 THEN p ELSE (j + 1) \div 2)

\* No two jobs have one place, ...
LEMMA PlacesDiffer ==
  ASSUME NEW p \in Nat, NEW n \in Nat
  PROVE  /\ \A i \in 1 .. p : PosAt(n, i) \in 1 .. p + n
         /\ \A j \in 1 .. n : NegAt(p, j) \in 1 .. p + n
         /\ \A i, j \in 1 .. p : PosAt(n, i) = PosAt(n, j) => i = j
         /\ \A i, j \in 1 .. n : NegAt(p, i) = NegAt(p, j) => i = j
         /\ \A i \in 1 .. p, j \in 1 .. n : PosAt(n, i) # NegAt(p, j)
<1>1. /\ \A i \in 1 .. p : PosAt(n, i) \in 1 .. p + n
      /\ \A j \in 1 .. n : NegAt(p, j) \in 1 .. p + n
  BY DEF PosAt, NegAt
<1>2. \A i, j \in 1 .. p : PosAt(n, i) = PosAt(n, j) => i = j BY DEF PosAt
<1>3. \A i, j \in 1 .. n : NegAt(p, i) = NegAt(p, j) => i = j BY DEF NegAt
<1>4. ASSUME NEW i \in 1 .. p, NEW j \in 1 .. n PROVE PosAt(n, i) # NegAt(p, j)
  <2>1. CASE i <= (j + 1) \div 2 BY <2>1 DEF PosAt, NegAt
  <2>2. CASE i > (j + 1) \div 2 BY <2>2 DEF PosAt, NegAt
  <2> QED BY <2>1, <2>2
<1> QED BY <1>1, <1>2, <1>3, <1>4

\* ... and no place is left empty.
LEMMA PlacesFilled ==
  ASSUME NEW p \in Nat, NEW n \in Nat, NEW k \in 1 .. p + n
  PROVE  \/ \E i \in 1 .. p : PosAt(n, i) = k
         \/ \E j \in 1 .. n : NegAt(p, j) = k
<1> DEFINE a == (k - 1) \div 3
<1>1. a \in Nat /\ (k = 3 * a + 1 \/ k = 3 * a + 2 \/ k = 3 * a + 3) /\ k <= p + n OBVIOUS
<1> HIDE DEF a
<1>2. CASE a >= p
  <2>1. k - p \in 1 .. n /\ NegAt(p, k - p) = k BY <1>1, <1>2 DEF NegAt
  <2> QED BY <2>1
<1>3. CASE a < p /\ k = 3 * a + 1
  <2>1. CASE 2 * a <= n
    <3>1. a + 1 \in 1 .. p /\ PosAt(n, a + 1) = k BY <1>1, <1>3, <2>1 DEF PosAt
    <3> QED BY <3>1
  <2>2. CASE 2 * a > n
    <3>1. k - n \in 1 .. p /\ PosAt(n, k - n) = k BY <1>1, <1>3, <2>2 DEF PosAt
    <3> QED BY <3>1
  <2> QED BY <2>1, <2>2, <1>1
<1>4. CASE a < p /\ k = 3 * a + 2
  <2>1. CASE 2 * a + 1 <= n
    <3>1. 2 * a + 1 \in 1 .. n /\ NegAt(p, 2 * a + 1) = k BY <1>1, <1>4, <2>1 DEF NegAt
    <3> QED BY <3>1
  <2>2. CASE 2 * a + 1 > n
    <3>1. k - n \in 1 .. p /\ PosAt(n, k - n) = k BY <1>1, <1>4, <2>2 DEF PosAt
    <3> QED BY <3>1
  <2> QED BY <2>1, <2>2, <1>1
<1>5. CASE a < p /\ k = 3 * a + 3
  <2>1. CASE 2 * a + 2 <= n
    <3>1. 2 * a + 2 \in 1 .. n /\ NegAt(p, 2 * a + 2) = k BY <1>1, <1>5, <2>1 DEF NegAt
    <3> QED BY <3>1
  <2>2. CASE 2 * a + 2 > n
    <3>1. k - n \in 1 .. p /\ PosAt(n, k - n) = k BY <1>1, <1>5, <2>2 DEF PosAt
    <3> QED BY <3>1
  <2> QED BY <2>1, <2>2, <1>1
<1> QED BY <1>1, <1>2, <1>3, <1>4, <1>5

\* Every job of the two grids comes once.
LEMMA ParlerPlanIs ==
  /\ ParlerPlan \in Seq(Jobs)
  /\ \A negative \in BOOLEAN : \A k \in 1 .. Len(Grid[negative]) :
       \E l \in 1 .. Len(ParlerPlan) : ParlerPlan[l] = Grid[negative][k]
  /\ \A l \in 1 .. Len(ParlerPlan) : \E negative \in BOOLEAN : \E k \in 1 .. Len(Grid[negative]) :
       ParlerPlan[l] = Grid[negative][k]
<1> DEFINE pos == Grid[FALSE]
           neg == Grid[TRUE]
           p == Len(pos)
           n == Len(neg)
           Lesser(a, b) == IF a < b THEN a ELSE b
           jobs == ({1} \X DOMAIN pos) \cup ({2} \X DOMAIN neg)
           place == [job \in jobs |->
                       IF job[1] = 1 THEN job[2] + Lesser(Len(neg), 2 * (job[2] - 1))
                                     ELSE job[2] + Lesser(Len(pos), (job[2] + 1) \div 2)]
           pick(k) == CHOOSE job \in DOMAIN place : place[job] = k
           at(k) == IF pick(k)[1] = 1 THEN pos[pick(k)[2]] ELSE neg[pick(k)[2]]
<1>1. ParlerPlan = [k \in 1 .. p + n |-> at(k)] BY DEF ParlerPlan
<1>2. /\ p \in Nat /\ n \in Nat /\ DOMAIN pos = 1 .. p /\ DOMAIN neg = 1 .. n
      /\ \A k \in 1 .. p : pos[k] \in Jobs
      /\ \A k \in 1 .. n : neg[k] \in Jobs
  <2>1. pos \in Seq(JobsOf(FALSE)) /\ neg \in Seq(JobsOf(TRUE)) BY GridIs
  <2> HIDE DEF pos, neg
  <2> QED BY <2>1, LenProperties, ElementOfSeq DEF JobsOf
<1> HIDE DEF pos, neg
<1>3. /\ \A i \in 1 .. p : <<1, i>> \in jobs /\ place[<<1, i>>] = PosAt(n, i)
      /\ \A j \in 1 .. n : <<2, j>> \in jobs /\ place[<<2, j>>] = NegAt(p, j)
      /\ DOMAIN place = jobs
      /\ \A job \in jobs : (\E i \in 1 .. p : job = <<1, i>>) \/ (\E j \in 1 .. n : job = <<2, j>>)
  BY <1>2 DEF PosAt, NegAt
<1> HIDE DEF place, jobs, p, n
<1>4. \A job, job2 \in jobs : place[job] = place[job2] => job = job2
  <2>1. /\ \A i, j \in 1 .. p : PosAt(n, i) = PosAt(n, j) => i = j
        /\ \A i, j \in 1 .. n : NegAt(p, i) = NegAt(p, j) => i = j
        /\ \A i \in 1 .. p, j \in 1 .. n : PosAt(n, i) # NegAt(p, j)
    BY <1>2, PlacesDiffer
  <2> SUFFICES ASSUME NEW job \in jobs, NEW job2 \in jobs, place[job] = place[job2]
               PROVE  job = job2
    OBVIOUS
  <2>2. CASE \E i \in 1 .. p : job = <<1, i>>
    <3>1. PICK i \in 1 .. p : job = <<1, i>> BY <2>2
    <3>2. CASE \E j \in 1 .. p : job2 = <<1, j>> BY <3>1, <3>2, <2>1, <1>3
    <3>3. CASE \E j \in 1 .. n : job2 = <<2, j>> BY <3>1, <3>3, <2>1, <1>3
    <3> QED BY <3>2, <3>3, <1>3
  <2>3. CASE \E j \in 1 .. n : job = <<2, j>>
    <3>1. PICK j \in 1 .. n : job = <<2, j>> BY <2>3
    <3>2. CASE \E i \in 1 .. p : job2 = <<1, i>> BY <3>1, <3>2, <2>1, <1>3
    <3>3. CASE \E i \in 1 .. n : job2 = <<2, i>> BY <3>1, <3>3, <2>1, <1>3
    <3> QED BY <3>2, <3>3, <1>3
  <2> QED BY <2>2, <2>3, <1>3
<1>5. \A k \in 1 .. p + n : \E job \in jobs : place[job] = k
  <2> TAKE k \in 1 .. p + n
  <2>1. (\E i \in 1 .. p : PosAt(n, i) = k) \/ (\E j \in 1 .. n : NegAt(p, j) = k)
    BY <1>2, PlacesFilled
  <2> QED BY <2>1, <1>3
<1>6. \A k \in 1 .. p + n : pick(k) \in jobs /\ place[pick(k)] = k BY <1>3, <1>5
<1>7. /\ \A i \in 1 .. p : PosAt(n, i) \in 1 .. p + n
      /\ \A j \in 1 .. n : NegAt(p, j) \in 1 .. p + n
      /\ \A job \in jobs : place[job] \in 1 .. p + n
  <2>1. /\ \A i \in 1 .. p : PosAt(n, i) \in 1 .. p + n
        /\ \A j \in 1 .. n : NegAt(p, j) \in 1 .. p + n
    BY <1>2, PlacesDiffer
  <2> QED BY <2>1, <1>3
<1>8. \A job \in jobs : pick(place[job]) = job BY <1>4, <1>6, <1>7
<1> HIDE DEF pick
<1>9. \A k \in 1 .. p + n : \/ \E i \in 1 .. p : at(k) = pos[i]
                            \/ \E j \in 1 .. n : at(k) = neg[j]
  BY <1>3, <1>6
<1>10. \A i \in 1 .. p : PosAt(n, i) \in 1 .. p + n /\ at(PosAt(n, i)) = pos[i]
  <2> TAKE i \in 1 .. p
  <2>1. pick(PosAt(n, i)) = <<1, i>> BY <1>3, <1>8
  <2> QED BY <2>1, <1>7
<1>11. \A j \in 1 .. n : NegAt(p, j) \in 1 .. p + n /\ at(NegAt(p, j)) = neg[j]
  <2> TAKE j \in 1 .. n
  <2>1. pick(NegAt(p, j)) = <<2, j>> BY <1>3, <1>8
  <2> QED BY <2>1, <1>7
<1> HIDE DEF at
<1>12. \A k \in 1 .. p + n : at(k) \in Jobs BY <1>2, <1>9
<1>13. p + n \in Nat BY <1>2
<1>14. ParlerPlan \in Seq(Jobs) BY <1>1, <1>12, <1>13, IsASeq
<1>15. Len(ParlerPlan) = p + n BY <1>1, <1>13, <1>14
<1>16. \A i \in 1 .. p : \E l \in 1 .. p + n : ParlerPlan[l] = pos[i] BY <1>1, <1>10
<1>17. \A j \in 1 .. n : \E l \in 1 .. p + n : ParlerPlan[l] = neg[j] BY <1>1, <1>11
<1>18. \A l \in 1 .. p + n : \/ \E i \in 1 .. p : ParlerPlan[l] = pos[i]
                             \/ \E j \in 1 .. n : ParlerPlan[l] = neg[j]
  BY <1>1, <1>9
<1> QED BY <1>14, <1>15, <1>16, <1>17, <1>18 DEF pos, neg, p, n

-----------------------------------------------------------------------------
(* The steps, and what they have in common.                                *)

\* The scripts that deal with a job's clips one after the other.
Batches == {"gtts", "indictts", "pipergen", "augment"}

\* What becomes of a Piper voice's files.
Voices == [1 .. Variants -> {"absent", "good", "torn"}]

\* The directory, the counters, the list and the batch.
TypeOK ==
  /\ engine \in Engines /\ calm \in BOOLEAN
  /\ phase \in {"idle", "setup", "run"} /\ limit \in Limits \cup {0}
  /\ todo \in Seq(Jobs) /\ batch \in Jobs
  /\ disk \in [Clips -> {"absent", "cut", "whole"}] /\ tmp \in SUBSET Clips
  /\ made \in [BOOLEAN -> Nat] /\ failed \in Nat /\ netDead \in BOOLEAN
  /\ voices \in Voices

\* Work is under way in a run only, and clip by clip in some scripts only.
UnderWay ==
  /\ phase # "run" => todo = <<>> /\ batch = {}
  /\ phase = "setup" => made = [negative \in BOOLEAN |-> 0] /\ failed = 0
  /\ phase = "setup" => outcome = "running"
  /\ phase = "run" => outcome \in {"running", "stopped"}
  /\ engine \notin Batches => batch = {}

\* The jobs of a run, whatever the script; Piper's are of the voices it has.
Plan(ready) ==
  CASE engine \in {"espeak", "sapi"} -> CapEach(Grid)
    [] engine = "piper" -> CapEach(OfVoices(ready))
    [] engine = "gtts" -> CapEach(PerPhrase)
    [] engine \in {"bark", "sarvam"} -> NotOnDisk(Both(Grid))
    [] engine = "kokoro" -> Both(Grid)
    [] engine = "parler" -> ParlerPlan
    [] engine = "augment" -> AugmentPlan
    [] OTHER -> Both(PerPhrase)

\* What may become of a clip.
Touch(c) ==
  \/ Exists(c) /\ UNCHANGED <<disk, tmp, made, failed>>
  \/ /\ ~Exists(c) \/ engine \in {"bark", "sarvam", "pipergen"}
     /\ \/ /\ disk' = [disk EXCEPT ![c] = "whole"] /\ made' = [made EXCEPT ![c[1]] = @ + 1]
           /\ failed' = failed /\ tmp' = IF engine = "parler" THEN tmp \ {c} ELSE tmp
        \/ /\ IF engine = "parler" THEN disk' = disk /\ tmp' \in {tmp, tmp \cup {c}}
                                   ELSE disk' \in {disk, [disk EXCEPT ![c] = "cut"]} /\ tmp' = tmp
           /\ made' = made
           /\ failed' = failed + 1 \/ (failed' = failed /\ engine = "indictts")

\* The rest of the list is dropped; the head is tried, passed over or becomes the
\* batch; a clip of the batch is tried.
Dropped ==
  /\ todo # <<>> /\ batch = {} /\ batch' = {}
  /\ todo' = <<>> /\ outcome' = "stopped"
  /\ UNCHANGED <<disk, tmp, made, failed>>

\* Scripts without batches: the clip of the head is tried; a limit in all stops them before.
Tried ==
  /\ todo # <<>> /\ batch = {} /\ batch' = {}
  /\ todo' = Tail(todo) /\ outcome' = outcome
  /\ engine \in {"bark", "sarvam"} /\ limit # 0 => ~(MadeInAll >= limit)
  /\ engine \notin Batches /\ \E c \in Head(todo) : Touch(c)

\* Scripts with batches pass over a head that is complete, or whose audio was not to be had, ...
Passed ==
  /\ todo # <<>> /\ batch = {} /\ batch' = {}
  /\ todo' = Tail(todo) /\ outcome' = outcome
  /\ engine \in Batches /\ UNCHANGED <<disk, tmp, made>>
  /\ (Missing = {} /\ failed' = failed) \/ failed' > failed

\* ... or go through the clips of a head, or through those missing.
Opened ==
  /\ todo # <<>> /\ batch = {} /\ batch' \in {Head(todo), Missing}
  /\ engine = "pipergen" => batch' = Missing
  /\ todo' = Tail(todo) /\ outcome' = outcome
  /\ engine = "indictts" /\ limit # 0 => ~(MadeInAll >= limit)
  /\ engine \in Batches /\ UNCHANGED <<disk, tmp, made, failed>>

\* A clip of the batch is tried.
Varied ==
  /\ engine \in Batches /\ UNCHANGED <<todo, outcome>>
  /\ \E c \in batch : batch' = batch \ {c} /\ Touch(c)

\* What any step of any script does.
JobStep ==
  /\ phase = "run" /\ UNCHANGED <<engine, calm, limit, phase, voices>>
  /\ netDead' \in BOOLEAN /\ failed' \in Nat
  /\ Dropped \/ Tried \/ Passed \/ Opened \/ Varied

\* Every job of every script is such a step.
LEMMA JobIs ==
  ASSUME TypeOK, Job
  PROVE  JobStep
<1> USE DEF world, counts, control, files
<1>1. TypeOK OBVIOUS
<1>2. engine \in Engines /\ netDead \in BOOLEAN /\ failed \in Nat /\ failed + 1 \in Nat
  BY DEF TypeOK
<1>3. ASSUME todo # <<>>
      PROVE  /\ IsFiniteSet(Missing) /\ Cardinality(Missing) \in Nat
             /\ Missing # {} => Cardinality(Missing) > 0
  <2>1. Head(todo) \in Jobs BY <1>3, HeadTailProperties DEF TypeOK
  <2>2. Missing \in SUBSET Head(todo) /\ IsFiniteSet(Head(todo)) BY <2>1 DEF Missing, Jobs
  <2>3. IsFiniteSet(Missing) BY <2>2, FS_Subset
  <2> HIDE DEF Missing
  <2>4. Cardinality(Missing) \in Nat /\ (Cardinality(Missing) = 0 <=> Missing = {})
    BY <2>3, FS_CardinalityType, FS_EmptySet
  <2> QED BY <2>3, <2>4
<1> HIDE DEF Missing
<1>4. CASE EspeakJob
  BY <1>2, <1>4
     DEF EspeakJob, Going, Dealt, EspeakSynth, Skip, Write, Fail, JobStep, Tried, Touch, Batches
<1>5. CASE SapiJob
  BY <1>2, <1>5
     DEF SapiJob, Going, Dealt, SapiSynth, Skip, Write, Fail, JobStep, Tried, Touch, Batches
<1>6. CASE PiperJob
  BY <1>2, <1>6
     DEF PiperJob, Going, Dealt, PiperSynth, Skip, Write, Fail, NoClip, JobStep, Tried, Touch, Batches
<1>7. CASE KokoroJob
  BY <1>2, <1>7
     DEF KokoroJob, Going, Dealt, KokoroSynth, Skip, Write, Fail, JobStep, Tried, Touch, Batches
<1>8. CASE BarkJob
  BY <1>2, <1>8
     DEF BarkJob, Going, Dealt, Stop, BarkFull, Skip, Write, Fail, JobStep, Tried, Dropped, Touch, Batches
<1>9. CASE SarvamJob
  BY <1>2, <1>9
     DEF SarvamJob, Going, Dealt, Stop, SarvamSynth, Skip, Write, Fail, JobStep, Tried, Dropped, Touch, Batches
<1>10. CASE ParlerJob
  BY <1>2, <1>10
     DEF ParlerJob, Going, Dealt, Stop, ParlerSynth, Rename, Skip, JobStep, Tried, Dropped, Touch, Batches
<1>11. CASE GttsJob
  <2>1. todo # <<>> BY <1>11 DEF GttsJob, Going
  <2>2. CASE Missing = {}
    BY <1>2, <1>11, <2>2 DEF GttsJob, Going, Dealt, Skip, JobStep, Passed, Batches
  <2>3. CASE Missing # {} /\ netDead
    <3>1. NoClip(Cardinality(Missing)) /\ Dealt({}) /\ UNCHANGED netDead
      BY <1>11, <2>3, Zenon DEF GttsJob
    <3>2. failed' \in Nat /\ failed' > failed BY <1>2, <1>3, <2>1, <2>3, <3>1 DEF NoClip
    <3> QED BY <1>2, <1>11, <3>1, <3>2 DEF GttsJob, Going, Dealt, NoClip, JobStep, Passed, Batches
  <2>4. CASE Missing # {} /\ ~netDead
    <3>1. CASE Skip /\ Dealt(Head(todo)) /\ UNCHANGED netDead
      BY <1>2, <1>11, <3>1 DEF GttsJob, Going, Dealt, Skip, JobStep, Opened, Batches
    <3>2. CASE FetchFails /\ Dealt({})
      BY <1>2, <1>3, <2>1, <2>4, <1>11, <3>2
         DEF GttsJob, Going, Dealt, FetchFails, NoClip, JobStep, Passed, Batches
    <3> QED BY <2>4, <3>1, <3>2, <1>11 DEF GttsJob
  <2> QED BY <2>2, <2>3, <2>4
<1>12. CASE GttsVariant
  BY <1>2, <1>12
     DEF GttsVariant, NextVariant, GttsSynth, Skip, Write, Fail, JobStep, Varied, Touch, Batches
<1>13. CASE IndicJob
  BY <1>2, <1>13
     DEF IndicJob, Going, Dealt, Stop, Skip, NoClip, JobStep, Dropped, Passed, Opened, Batches
<1>14. CASE IndicVariant
  BY <1>2, <1>14
     DEF IndicVariant, NextVariant, IndicSynth, Skip, Write, JobStep, Varied, Touch, Batches
<1>15. CASE PipergenJob
  <2>1. todo # <<>> BY <1>15 DEF PipergenJob, Going
  <2>2. CASE Skip /\ Dealt(Missing)
    BY <1>2, <1>15, <2>2 DEF PipergenJob, Going, Dealt, Skip, JobStep, Opened, Batches
  <2>3. CASE Missing # {} /\ NoClip(Cardinality(Missing)) /\ Dealt({})
    BY <1>2, <1>3, <2>1, <1>15, <2>3 DEF PipergenJob, Going, Dealt, NoClip, JobStep, Passed, Batches
  <2> QED BY <2>2, <2>3, <1>15 DEF PipergenJob
<1>16. CASE PipergenVariant
  BY <1>2, <1>16
     DEF PipergenVariant, NextVariant, PipergenSynth, Write, Fail, JobStep, Varied, Touch, Batches
<1>17. CASE AugmentJob
  BY <1>2, <1>17 DEF AugmentJob, Going, Dealt, Skip, NoClip, JobStep, Passed, Opened, Batches
<1>18. CASE AugmentVariant
  BY <1>2, <1>18
     DEF AugmentVariant, NextVariant, AugmentSynth, Skip, Write, Fail, JobStep, Varied, Touch, Batches
<1> QED
  BY <1>4, <1>5, <1>6, <1>7, <1>8, <1>9, <1>10, <1>11, <1>12, <1>13, <1>14, <1>15, <1>16, <1>17, <1>18
        DEF Job

\* A run begins its plan, of all the voices whose files are there in the end, or leaves;
\* it leaves as done only in two scripts.
LEMMA SetupIs ==
  ASSUME TypeOK, Setup
  PROVE  /\ phase = "setup" /\ voices' \in Voices
         /\ \/ \E ready \in SUBSET (1 .. Variants) :
                  Begin(Plan(ready)) /\ \A v \in 1 .. Variants : voices'[v] = "good" => v \in ready
            \/ /\ Leave(outcome') /\ outcome' \in {"done", "unavailable"}
               /\ outcome' = "done" => engine = "indictts" \/ (engine = "bark" /\ Plan({}) = <<>>)
<1>1. voices \in Voices BY DEF TypeOK
<1>a. ASSUME phase = "setup", voices' = voices, NEW plan, engine # "piper", plan = Plan(1 .. Variants),
             Begin(plan)
      PROVE  /\ phase = "setup" /\ voices' \in Voices
             /\ \E ready \in SUBSET (1 .. Variants) :
                  Begin(Plan(ready)) /\ \A v \in 1 .. Variants : voices'[v] = "good" => v \in ready
  BY <1>1, <1>a
<1> USE DEF files
<1>2. CASE EspeakStart BY <1>1, <1>a, <1>2 DEF EspeakStart, Starting, Refused, Leave, Plan
<1>3. CASE SapiStart BY <1>1, <1>a, <1>3 DEF SapiStart, Starting, Refused, Leave, Plan
<1>4. CASE GttsStart BY <1>1, <1>a, <1>4 DEF GttsStart, Starting, Refused, Leave, Plan
<1>5. CASE PiperStart
  <2>1. CASE Refused /\ UNCHANGED voices BY <1>1, <1>5, <2>1 DEF PiperStart, Starting, Refused, Leave
  <2>2. ASSUME NEW ready \in SUBSET (1 .. Variants), voices' \in Voices, Ensured(voices', ready),
               IF ready = {} THEN Leave("unavailable") ELSE Begin(CapEach(OfVoices(ready)))
        PROVE  \/ Begin(Plan(ready)) /\ \A v \in 1 .. Variants : voices'[v] = "good" => v \in ready
               \/ Leave(outcome') /\ outcome' = "unavailable"
    <3>1. engine = "piper" BY <1>5 DEF PiperStart, Starting
    <3>2. \A v \in 1 .. Variants : voices'[v] = "good" => v \in ready BY <2>2 DEF Ensured
    <3>3. Plan(ready) = CapEach(OfVoices(ready)) BY <3>1 DEF Plan
    <3> QED BY <2>2, <3>2, <3>3 DEF Leave
  <2> QED BY <1>1, <1>5, <2>1, <2>2 DEF PiperStart, Starting, Voices
<1>6. CASE BarkStart BY <1>1, <1>a, <1>6 DEF BarkStart, Starting, Refused, Leave, Plan
<1>7. CASE IndicStart BY <1>1, <1>a, <1>7 DEF IndicStart, Starting, Refused, Leave, Plan
<1>8. CASE SarvamStart BY <1>1, <1>a, <1>8 DEF SarvamStart, Starting, Refused, Leave, Plan
<1>9. CASE KokoroStart BY <1>1, <1>a, <1>9 DEF KokoroStart, Starting, Refused, Leave, Plan
<1>10. CASE ParlerStart BY <1>1, <1>a, <1>10 DEF ParlerStart, Starting, Refused, Leave, Plan
<1>11. CASE PipergenStart BY <1>1, <1>a, <1>11 DEF PipergenStart, Starting, Refused, Leave, Plan
<1>12. CASE AugmentStart BY <1>1, <1>a, <1>12 DEF AugmentStart, Starting, Refused, Leave, Plan
<1> QED BY <1>2, <1>3, <1>4, <1>5, <1>6, <1>7, <1>8, <1>9, <1>10, <1>11, <1>12 DEF Setup

-----------------------------------------------------------------------------
(* Types.                                                                  *)

\* A run has the limit or none.
LEMMA LimitIs ==
  /\ Limit \in Nat \ {0} /\ Limits \subseteq {0, Limit}
  /\ (limit \in Limits \cup {0}) => limit \in Nat /\ limit \in {0, Limit}
BY ClipAssumption DEF Limits

\* The clips depend on the engine alone, which is fixed.
LEMMA SameClips ==
  ASSUME engine' = engine
  PROVE  /\ Clips' = Clips /\ Jobs' = Jobs /\ Limits' = Limits
         /\ \A negative \in BOOLEAN : JobsOf(negative)' = JobsOf(negative)
<1>1. Clips' = Clips BY DEF Clips, out_path, slug
<1>2. Jobs' = Jobs BY <1>1 DEF Jobs
<1> QED BY <1>1, <1>2 DEF JobsOf, Limits

\* The plans before any cut are lists of jobs of their category.
LEMMA GridsAre ==
  /\ Grid[FALSE] \in Seq(JobsOf(FALSE)) /\ Grid[TRUE] \in Seq(JobsOf(TRUE))
  /\ PerPhrase[FALSE] \in Seq(JobsOf(FALSE)) /\ PerPhrase[TRUE] \in Seq(JobsOf(TRUE))
BY GridIs, PerPhraseIs

\* A plan is a list of jobs.
LEMMA PlanIs ==
  ASSUME engine \in Engines, limit \in Nat, NEW ready \in SUBSET (1 .. Variants)
  PROVE  Plan(ready) \in Seq(Jobs)
<1>1. /\ Cap(Grid[FALSE]) \in Seq(JobsOf(FALSE)) /\ Cap(Grid[TRUE]) \in Seq(JobsOf(TRUE))
      /\ Cap(PerPhrase[FALSE]) \in Seq(JobsOf(FALSE)) /\ Cap(PerPhrase[TRUE]) \in Seq(JobsOf(TRUE))
  BY GridsAre, CapIs
<1>2. /\ CapEach(Grid) \in Seq(Jobs) /\ CapEach(PerPhrase) \in Seq(Jobs)
      /\ Both(Grid) \in Seq(Jobs) /\ Both(PerPhrase) \in Seq(Jobs)
  BY <1>1, GridsAre, BothAre DEF CapEach, Both
<1>3. AugmentPlan \in Seq(Jobs) BY <1>2, CapIs DEF AugmentPlan
<1>4. NotOnDisk(Both(Grid)) \in Seq(Jobs) BY <1>2, NotOnDiskIs
<1>5. ParlerPlan \in Seq(Jobs) BY ParlerPlanIs
<1>6. CapEach(OfVoices(ready)) \in Seq(Jobs)
  <2>1. /\ Cap(OfVoices(ready)[FALSE]) \in Seq(JobsOf(FALSE))
        /\ Cap(OfVoices(ready)[TRUE]) \in Seq(JobsOf(TRUE))
    BY OfVoicesIs, CapIs
  <2> QED BY <2>1, BothAre DEF CapEach
<1> QED BY <1>2, <1>3, <1>4, <1>5, <1>6 DEF Plan

\* The clip a step may be writing is not there.
LEMMA WritingIs ==
  ASSUME TypeOK, NEW c \in Writing
  PROVE  c \in Clips /\ ~Exists(c)
<1>1. batch \subseteq Clips BY DEF TypeOK, Jobs
<1>2. CASE batch # {} BY <1>1, <1>2 DEF Writing
<1>3. CASE batch = {}
  <2>1. todo # <<>> /\ c \in Missing BY <1>3 DEF Writing
  <2>2. Head(todo) \in Jobs BY <2>1, HeadTailProperties DEF TypeOK
  <2> QED BY <2>1, <2>2 DEF Missing, Jobs
<1> QED BY <1>2, <1>3

\* The head of the list is a job, and so is what is missing of it.
LEMMA HeadIs ==
  ASSUME TypeOK, todo # <<>>
  PROVE  /\ Head(todo) \in Jobs /\ Head(todo) \subseteq Clips /\ Tail(todo) \in Seq(Jobs)
         /\ Missing \in Jobs /\ Missing \subseteq Head(todo)
         /\ Len(todo) \in Nat /\ Len(todo) > 0 /\ Len(Tail(todo)) = Len(todo) - 1
         /\ Head(todo) = todo[1]
         /\ \A k \in 1 .. Len(Tail(todo)) : Tail(todo)[k] = todo[k + 1]
<1>1. todo \in Seq(Jobs) BY DEF TypeOK
<1>2. /\ Head(todo) \in Jobs /\ Tail(todo) \in Seq(Jobs) /\ Len(Tail(todo)) = Len(todo) - 1
      /\ \A k \in 1 .. Len(Tail(todo)) : Tail(todo)[k] = todo[k + 1]
  BY <1>1, HeadTailProperties
<1>3. Len(todo) \in Nat /\ Len(todo) > 0 /\ Head(todo) = todo[1] BY <1>1, EmptySeq
<1>4. Missing \in SUBSET Head(todo) BY DEF Missing
<1>5. /\ IsFiniteSet(Head(todo)) /\ Cardinality(Head(todo)) <= Variants /\ Head(todo) \subseteq Clips
      /\ Variants \in Nat
  BY <1>2, ClipAssumption DEF Jobs
<1>6. IsFiniteSet(Missing) /\ Cardinality(Missing) <= Cardinality(Head(todo))
  BY <1>4, <1>5, FS_Subset
<1>7. Cardinality(Missing) \in Nat /\ Cardinality(Head(todo)) \in Nat
  BY <1>5, <1>6, FS_CardinalityType
<1>8. Missing \in Jobs BY <1>4, <1>5, <1>6, <1>7 DEF Jobs
<1> QED BY <1>2, <1>3, <1>4, <1>5, <1>8

\* The batch shrinks clip by clip.
LEMMA BatchIs ==
  ASSUME TypeOK, NEW c \in batch
  PROVE  batch \ {c} \in Jobs /\ c \in Clips /\ Cardinality(batch) \in Nat
         /\ Cardinality(batch \ {c}) = Cardinality(batch) - 1
<1>1. IsFiniteSet(batch) /\ batch \subseteq Clips /\ Cardinality(batch) <= Variants /\ Variants \in Nat
  BY ClipAssumption DEF TypeOK, Jobs
<1>2. IsFiniteSet(batch \ {c}) /\ Cardinality(batch \ {c}) = Cardinality(batch) - 1 /\ Cardinality(batch) \in Nat
  BY <1>1, FS_RemoveElement, FS_CardinalityType
<1> QED BY <1>1, <1>2 DEF Jobs

\* No clip is a job too.
LEMMA NoBatch == {} \in Jobs /\ Cardinality({}) = 0 /\ <<>> \in Seq(Jobs)
  BY FS_EmptySet, ClipAssumption, EmptySeq DEF Jobs

\* Trying a clip keeps the types.
LEMMA TouchTypes ==
  ASSUME TypeOK, NEW c \in Clips, Touch(c)
  PROVE  /\ disk' \in [Clips -> {"absent", "cut", "whole"}] /\ tmp' \in SUBSET Clips
         /\ made' \in [BOOLEAN -> Nat]
<1>1. c[1] \in BOOLEAN BY ClipParts
<1>2. /\ disk \in [Clips -> {"absent", "cut", "whole"}] /\ tmp \in SUBSET Clips
      /\ made \in [BOOLEAN -> Nat]
  BY DEF TypeOK
<1>3. [disk EXCEPT ![c] = "whole"] \in [Clips -> {"absent", "cut", "whole"}]
      /\ [disk EXCEPT ![c] = "cut"] \in [Clips -> {"absent", "cut", "whole"}]
  BY <1>2
<1>4. [made EXCEPT ![c[1]] = @ + 1] \in [BOOLEAN -> Nat] BY <1>1, <1>2
<1>5. tmp \ {c} \in SUBSET Clips /\ tmp \cup {c} \in SUBSET Clips BY <1>2
<1> QED BY <1>2, <1>3, <1>4, <1>5 DEF Touch

\* The initial state has the types.
LEMMA TypesInit ==
  ASSUME Init
  PROVE  TypeOK /\ UnderWay
<1>1. <<>> \in Seq(Jobs) /\ {} \in Jobs BY NoBatch
<1>2. voices \in Voices BY DEF Init, Voices
<1> QED BY <1>1, <1>2 DEF Init, TypeOK, UnderWay

\* Every step keeps the types.
LEMMA TypesStep ==
  ASSUME TypeOK, UnderWay, [Next]_vars
  PROVE  TypeOK' /\ UnderWay' /\ engine' = engine
<1> USE DEF world, counts, control, files
<1>1. <<>> \in Seq(Jobs) /\ {} \in Jobs BY NoBatch
<1>2. engine' = engine => /\ Clips' = Clips /\ Jobs' = Jobs /\ Limits' = Limits
  BY SameClips
<1>3. ASSUME NEW l \in {0, Limit}, StartRun(l) PROVE TypeOK' /\ UnderWay' /\ engine' = engine
  BY <1>2, <1>3 DEF StartRun, TypeOK, UnderWay
<1>4. CASE Setup
  <2>1. limit \in Nat BY LimitIs DEF TypeOK
  <2>2. \A ready \in SUBSET (1 .. Variants) : Plan(ready) \in Seq(Jobs) BY <2>1, PlanIs DEF TypeOK
  <2>3. phase = "setup" /\ voices' \in Voices BY <1>4, SetupIs
  <2>4. ASSUME NEW ready \in SUBSET (1 .. Variants), Begin(Plan(ready)) PROVE TypeOK' /\ UnderWay' /\ engine' = engine
    BY <1>2, <2>2, <2>3, <2>4 DEF Begin, TypeOK, UnderWay
  <2>5. CASE Leave(outcome')
    BY <1>2, <2>3, <2>5 DEF Leave, TypeOK, UnderWay
  <2> QED BY <2>4, <2>5, <1>4, SetupIs
<1>5. CASE Job
  <2>1. JobStep BY <1>5, JobIs
  <2>2. /\ phase = "run" /\ UNCHANGED <<engine, calm, limit, phase, voices>>
        /\ netDead' \in BOOLEAN /\ failed' \in Nat
    BY <2>1 DEF JobStep
  <2>3. CASE Dropped
    BY <1>1, <1>2, <2>2, <2>3 DEF Dropped, TypeOK, UnderWay
  <2>4. CASE Tried
    <3>1. PICK c \in Head(todo) : Touch(c) BY <2>4 DEF Tried
    <3>2. c \in Clips /\ Tail(todo) \in Seq(Jobs) BY <2>4, HeadIs DEF Tried
    <3> QED BY <1>1, <1>2, <2>2, <2>4, <3>1, <3>2, TouchTypes DEF Tried, TypeOK, UnderWay
  <2>5. CASE Passed
    <3>1. Tail(todo) \in Seq(Jobs) BY <2>5, HeadIs DEF Passed
    <3> QED BY <1>1, <1>2, <2>2, <2>5, <3>1 DEF Passed, TypeOK, UnderWay
  <2>6. CASE Opened
    <3>1. Tail(todo) \in Seq(Jobs) /\ Head(todo) \in Jobs /\ Missing \in Jobs
      BY <2>6, HeadIs DEF Opened
    <3> HIDE DEF Missing
    <3> QED BY <1>2, <2>2, <2>6, <3>1 DEF Opened, TypeOK, UnderWay
  <2>7. CASE Varied
    <3>1. PICK c \in batch : batch' = batch \ {c} /\ Touch(c) BY <2>7 DEF Varied
    <3>2. c \in Clips /\ batch \ {c} \in Jobs BY BatchIs
    <3> QED BY <1>2, <2>2, <2>7, <3>1, <3>2, TouchTypes DEF Varied, TypeOK, UnderWay
  <2> QED BY <2>1, <2>3, <2>4, <2>5, <2>6, <2>7 DEF JobStep
<1>6. CASE EndRun
  BY <1>2, <1>6 DEF EndRun, TypeOK, UnderWay
<1>7. CASE Interrupted
  <2>1. UNCHANGED world /\ phase' = "idle" /\ todo' = <<>> /\ batch' = {}
        /\ made' = [negative \in BOOLEAN |-> 0] /\ failed' = 0 /\ netDead' = FALSE
    BY <1>7 DEF Interrupted
  <2>2. /\ disk' \in [Clips -> {"absent", "cut", "whole"}] /\ tmp' \in SUBSET Clips
        /\ voices' \in Voices
    <3>1. CASE UNCHANGED <<disk, tmp, voices>> BY <3>1 DEF TypeOK
    <3>2. ASSUME NEW c \in Writing,
                 IF engine = "parler" THEN tmp' = tmp \cup {c} /\ UNCHANGED disk
                                      ELSE disk' = [disk EXCEPT ![c] = "cut"] /\ UNCHANGED tmp,
                 UNCHANGED voices
          PROVE  /\ disk' \in [Clips -> {"absent", "cut", "whole"}] /\ tmp' \in SUBSET Clips
                 /\ voices' \in Voices
      <4>1. c \in Clips BY WritingIs
      <4> QED BY <3>2, <4>1 DEF TypeOK
    <3>3. CASE voices' \in Voices /\ UNCHANGED <<disk, tmp>> BY <3>3 DEF TypeOK
    <3> QED BY <3>1, <3>2, <3>3, <1>7 DEF Interrupted, Voices, files
  <2> QED BY <1>1, <1>2, <2>1, <2>2 DEF TypeOK, UnderWay
<1>8. CASE CalmDown
  BY <1>2, <1>8 DEF CalmDown, TypeOK, UnderWay
<1>9. CASE UNCHANGED vars
  BY <1>2, <1>9 DEF vars, TypeOK, UnderWay
<1> QED BY <1>3, <1>4, <1>5, <1>6, <1>7, <1>8, <1>9 DEF Next

\* The directory, the counters and the lists are what they should be, and a list or a
\* batch is left only while a run is under way.
THEOREM ClipTypesHold == Spec => [](TypeOK /\ UnderWay)
<1>1. TypeOK /\ UnderWay /\ [Next]_vars => (TypeOK /\ UnderWay)' BY TypesStep
<1> QED BY TypesInit, <1>1, PTL DEF Spec

\* Parler's clips are whole: a clip is renamed into place when it is whole and never
\* written in place (gen_parler.py), and no half written file stays beside one that is.
THEOREM ClipParlerSwapsWhole == Spec => []ParlerSwapsWhole
<1> USE DEF world, counts, control, files
<1>1. Init => ParlerSwapsWhole BY DEF Init, ParlerSwapsWhole, Exists
<1>2. ASSUME TypeOK, UnderWay, ParlerSwapsWhole, [Next]_vars PROVE ParlerSwapsWhole'
  <2>1. engine' = engine /\ Clips' = Clips BY <1>2, TypesStep, SameClips
  <2>2. SUFFICES ASSUME engine = "parler", NEW d \in Clips
                 PROVE  disk'[d] # "cut" /\ (disk'[d] # "absent" => d \notin tmp')
    BY <2>1 DEF ParlerSwapsWhole, Exists
  <2>3. /\ disk[d] # "cut" /\ (disk[d] # "absent" => d \notin tmp)
        /\ disk \in [Clips -> {"absent", "cut", "whole"}]
    BY <1>2, <2>2 DEF ParlerSwapsWhole, Exists, TypeOK
  <2>4. CASE UNCHANGED <<disk, tmp>> BY <2>3, <2>4
  <2>5. CASE Job
    <3>1. JobStep BY <1>2, <2>5, JobIs
    <3>2. CASE Tried
      <4>1. PICK c \in Head(todo) : Touch(c) BY <3>2 DEF Tried
      <4>2. c \in Clips BY <1>2, <3>2, HeadIs DEF Tried
      <4> QED BY <2>2, <2>3, <4>1, <4>2 DEF Touch, Exists
    <3> QED BY <3>1, <3>2, <2>2, <2>4 DEF JobStep, Dropped, Passed, Opened, Varied, Batches
  <2>6. CASE Interrupted
    <3>1. CASE \E c \in Writing : tmp' = tmp \cup {c} /\ UNCHANGED disk
      BY <1>2, <2>3, <3>1, WritingIs DEF Exists
    <3> QED BY <3>1, <2>2, <2>4, <2>6 DEF Interrupted
  <2>7. CASE Setup BY <1>2, <2>4, <2>7, SetupIs DEF Begin, Leave
  <2> QED BY <1>2, <2>4, <2>5, <2>6, <2>7 DEF Next, StartRun, EndRun, CalmDown, vars
<1>3. TypeOK /\ UnderWay /\ ParlerSwapsWhole /\ [Next]_vars => ParlerSwapsWhole' BY <1>2
<1> QED BY ClipTypesHold, <1>1, <1>3, PTL DEF Spec

-----------------------------------------------------------------------------
(* What is written does not exist yet.                                     *)

\* Scripts that do not look at the disk before they write have made the list of what
\* is missing, and each clip is on it once.
Fresh ==
  /\ engine \in {"bark", "sarvam"} =>
       /\ \A k \in 1 .. Len(todo) : \A c \in todo[k] : ~Exists(c)
       /\ \A k, l \in 1 .. Len(todo) : k # l => todo[k] \cap todo[l] = {}
  /\ engine = "pipergen" => \A c \in batch : ~Exists(c)

\* The jobs of the grid have one clip each.
LEMMA GridSingles ==
  ASSUME NEW negative \in BOOLEAN, NEW k \in 1 .. Len(Grid[negative])
  PROVE  \E c \in Clips : Grid[negative][k] = {c}
<1>1. k \in 1 .. Count(negative) * Variants BY GridIs
<1> DEFINE i == ((k - 1) % Count(negative)) + 1
           v == ((k - 1) \div Count(negative)) + 1
<1>2. i \in Phrases(negative) /\ v \in 1 .. Variants BY <1>1, GridPlace
<1>3. Grid[negative][k] = {out_path(negative, i, v)} BY <1>1, GridIs
<1> HIDE DEF i, v
<1> QED BY <1>2, <1>3, ClipsAre

\* The plan of both categories: one clip each, every clip, and apart.
LEMMA BothGrids ==
  /\ Both(Grid) \in Seq(Jobs)
  /\ \A k \in 1 .. Len(Both(Grid)) : \E c \in Clips : Both(Grid)[k] = {c}
  /\ \A c \in Clips : \E k \in 1 .. Len(Both(Grid)) : Both(Grid)[k] = {c}
  /\ engine \notin BySlug =>
       \A k, l \in 1 .. Len(Both(Grid)) : k # l => Both(Grid)[k] \cap Both(Grid)[l] = {}
<1> DEFINE both == Both(Grid)
<1>0. PICK s \in Seq(JobsOf(FALSE)), t \in Seq(JobsOf(TRUE)) : s = Grid[FALSE] /\ t = Grid[TRUE]
  BY GridsAre
<1>1. /\ both \in Seq(Jobs) /\ Len(both) = Len(s) + Len(t) /\ Len(s) \in Nat /\ Len(t) \in Nat
      /\ \A k \in 1 .. Len(s) : both[k] = s[k] /\ s[k] \in JobsOf(FALSE)
      /\ \A k \in 1 .. Len(t) : both[Len(s) + k] = t[k] /\ t[k] \in JobsOf(TRUE)
  <2>1. both = s \o t BY <1>0 DEF Both
  <2> HIDE DEF both
  <2> QED BY <2>1, BothAre
<1> HIDE DEF both
<1>2. \A k \in 1 .. Len(both) : \/ k \in 1 .. Len(s) /\ both[k] = s[k]
                                \/ k - Len(s) \in 1 .. Len(t) /\ both[k] = t[k - Len(s)]
  <2> SUFFICES ASSUME NEW k \in 1 .. Len(both)
               PROVE  \/ k \in 1 .. Len(s) /\ both[k] = s[k]
                      \/ k - Len(s) \in 1 .. Len(t) /\ both[k] = t[k - Len(s)]
    OBVIOUS
  <2>1. CASE k <= Len(s)
    <3>1. k \in 1 .. Len(s) BY <1>1, <2>1
    <3> QED BY <1>1, <3>1
  <2>2. CASE k > Len(s)
    <3>1. k - Len(s) \in 1 .. Len(t) /\ Len(s) + (k - Len(s)) = k BY <1>1, <2>2
    <3>2. both[Len(s) + (k - Len(s))] = t[k - Len(s)] BY <1>1, <3>1
    <3> QED BY <3>1, <3>2
  <2> QED BY <1>1, <2>1, <2>2
<1>3. \A k \in 1 .. Len(both) : \E c \in Clips : both[k] = {c}
  <2> SUFFICES ASSUME NEW k \in 1 .. Len(both) PROVE \E c \in Clips : both[k] = {c}
    OBVIOUS
  <2>1. CASE k \in 1 .. Len(s) /\ both[k] = s[k]
    <3>1. \E c \in Clips : Grid[FALSE][k] = {c} BY <1>0, <2>1, GridSingles
    <3> QED BY <1>0, <2>1, <3>1
  <2>2. CASE k - Len(s) \in 1 .. Len(t) /\ both[k] = t[k - Len(s)]
    <3>1. \E c \in Clips : Grid[TRUE][k - Len(s)] = {c} BY <1>0, <2>2, GridSingles
    <3> QED BY <1>0, <2>2, <3>1
  <2> QED BY <1>2, <2>1, <2>2
<1>4. \A c \in Clips : \E k \in 1 .. Len(both) : both[k] = {c}
  <2> SUFFICES ASSUME NEW c \in Clips PROVE \E k \in 1 .. Len(both) : both[k] = {c}
    OBVIOUS
  <2>1. PICK negative \in BOOLEAN : \E i \in Phrases(negative) : \E v \in 1 .. Variants : c = out_path(negative, i, v)
    BY ClipParts
  <2>2. PICK i \in Phrases(negative), v \in 1 .. Variants : c = out_path(negative, i, v) BY <2>1
  <2>3. PICK k \in 1 .. Len(Grid[negative]) : Grid[negative][k] = {c} BY <2>2, GridCovers
  <2>4. CASE negative = FALSE
    <3>1. k \in 1 .. Len(s) /\ s[k] = {c} BY <1>0, <2>3, <2>4
    <3>2. k \in 1 .. Len(both) BY <3>1, <1>1
    <3> QED BY <3>1, <3>2, <1>1
  <2>5. CASE negative = TRUE
    <3>1. k \in 1 .. Len(t) /\ t[k] = {c} BY <1>0, <2>3, <2>5
    <3>2. Len(s) + k \in 1 .. Len(both) BY <3>1, <1>1
    <3>3. both[Len(s) + k] = {c} BY <3>1, <1>1
    <3> QED BY <3>2, <3>3
  <2> QED BY <2>4, <2>5
<1>5. ASSUME engine \notin BySlug, NEW k \in 1 .. Len(both), NEW l \in 1 .. Len(both), k # l
      PROVE  both[k] \cap both[l] = {}
  <2>1. \A i \in 1 .. Len(s), j \in 1 .. Len(t) : s[i] \cap t[j] = {}
    <3>1. \A i \in 1 .. Len(s) : \A c \in s[i] : c[1] = FALSE BY <1>1 DEF JobsOf
    <3>2. \A j \in 1 .. Len(t) : \A c \in t[j] : c[1] = TRUE BY <1>1 DEF JobsOf
    <3> QED BY <3>1, <3>2
  <2>2. CASE k \in 1 .. Len(s) /\ both[k] = s[k]
    <3>1. CASE l \in 1 .. Len(s) /\ both[l] = s[l] BY <1>0, <1>5, <2>2, <3>1, GridApart
    <3>2. CASE l - Len(s) \in 1 .. Len(t) /\ both[l] = t[l - Len(s)] BY <2>1, <2>2, <3>2
    <3> QED BY <1>2, <3>1, <3>2
  <2>3. CASE k - Len(s) \in 1 .. Len(t) /\ both[k] = t[k - Len(s)]
    <3>1. CASE l \in 1 .. Len(s) /\ both[l] = s[l] BY <2>1, <2>3, <3>1
    <3>2. CASE l - Len(s) \in 1 .. Len(t) /\ both[l] = t[l - Len(s)]
      <4>1. k \in Int /\ l \in Int BY <1>1
      <4>2. k - Len(s) # l - Len(s) BY <1>1, <1>5, <4>1
      <4> QED BY <1>0, <1>5, <2>3, <3>2, <4>2, GridApart
    <3> QED BY <1>2, <3>1, <3>2
  <2> QED BY <1>2, <2>2, <2>3
<1> QED BY <1>1, <1>3, <1>4, <1>5 DEF both

\* The list of what is missing is fresh.
LEMMA PlanFresh ==
  ASSUME engine \in {"bark", "sarvam"}, NEW ready
  PROVE  /\ \A k \in 1 .. Len(Plan(ready)) : \A c \in Plan(ready)[k] : ~Exists(c)
         /\ \A k, l \in 1 .. Len(Plan(ready)) : k # l => Plan(ready)[k] \cap Plan(ready)[l] = {}
<1> DEFINE both == Both(Grid)
<1>1. Plan(ready) = NotOnDisk(both) BY DEF Plan
<1>2. engine \notin BySlug BY DEF BySlug
<1>3. /\ both \in Seq(Jobs)
      /\ \A k \in 1 .. Len(both) : \E c \in Clips : both[k] = {c}
      /\ \A k, l \in 1 .. Len(both) : k # l => both[k] \cap both[l] = {}
  BY <1>2, BothGrids
<1> HIDE DEF both
<1>4. PICK from \in [1 .. Len(Plan(ready)) -> 1 .. Len(both)] :
        /\ \A k \in 1 .. Len(Plan(ready)) : Plan(ready)[k] = both[from[k]]
        /\ \A k \in 1 .. Len(Plan(ready)) : \E c \in both[from[k]] : ~Exists(c)
        /\ \A k, l \in 1 .. Len(Plan(ready)) : k # l => from[k] # from[l]
  BY <1>1, <1>3, NotOnDiskIs
<1>5. \A k \in 1 .. Len(Plan(ready)) : \A c \in Plan(ready)[k] : ~Exists(c)
  <2> TAKE k \in 1 .. Len(Plan(ready))
  <2>1. PICK d \in Clips : both[from[k]] = {d} BY <1>3, <1>4
  <2> QED BY <2>1, <1>4
<1>6. \A k, l \in 1 .. Len(Plan(ready)) : k # l => Plan(ready)[k] \cap Plan(ready)[l] = {} BY <1>3, <1>4
<1> QED BY <1>5, <1>6

\* A clip of a step, when it is written, is not there yet.
LEMMA TouchKeeps ==
  ASSUME TypeOK, NEW c \in Clips, Touch(c), engine \in {"bark", "sarvam", "pipergen"} => ~Exists(c)
  PROVE  \A d \in Clips : d # c \/ Exists(d) => disk'[d] = disk[d]
BY DEF TypeOK, Touch, Exists

\* No step writes a clip that exists.
LEMMA StepKeeps ==
  ASSUME TypeOK, UnderWay, Fresh, Next
  PROVE  \A c \in Clips : Exists(c) => disk'[c] = disk[c]
<1>1. CASE UNCHANGED disk BY <1>1
<1>2. CASE Job
  <2>1. JobStep BY <1>2, JobIs
  <2>2. CASE Tried
    <3>1. PICK c \in Head(todo) : Touch(c) BY <2>2 DEF Tried
    <3>2. c \in Clips /\ Head(todo) = todo[1] /\ 1 \in 1 .. Len(todo) BY <2>2, HeadIs DEF Tried
    <3>3. engine \in {"bark", "sarvam", "pipergen"} => ~Exists(c)
      BY <2>2, <3>2 DEF Fresh, Tried, Batches
    <3> QED BY <3>1, <3>2, <3>3, TouchKeeps
  <2>3. CASE Varied
    <3>1. PICK c \in batch : Touch(c) BY <2>3 DEF Varied
    <3>2. c \in Clips BY BatchIs
    <3>3. engine \in {"bark", "sarvam", "pipergen"} => ~Exists(c) BY <2>3 DEF Fresh, Varied, Batches
    <3> QED BY <3>1, <3>2, <3>3, TouchKeeps
  <2> QED BY <2>1, <2>2, <2>3, <1>1 DEF JobStep, Dropped, Passed, Opened
<1>3. CASE Interrupted
  <2>1. ASSUME NEW c \in Writing, disk' = [disk EXCEPT ![c] = "cut"]
        PROVE  \A d \in Clips : Exists(d) => disk'[d] = disk[d]
    BY <2>1, WritingIs DEF TypeOK
  <2> QED BY <1>1, <1>3, <2>1 DEF Interrupted
<1>4. CASE Setup BY <1>1, <1>4, SetupIs DEF Begin, Leave
<1> QED BY <1>1, <1>2, <1>3, <1>4 DEF Next, StartRun, EndRun, CalmDown

\* Every step keeps what is left fresh.
LEMMA FreshStep ==
  ASSUME TypeOK, UnderWay, Fresh, [Next]_vars
  PROVE  Fresh'
<1> USE DEF world, counts, control, files
<1>1. engine' = engine /\ Clips' = Clips /\ TypeOK' /\ UnderWay' BY TypesStep, SameClips
<1>2. CASE todo' = <<>> /\ batch' = {}
  <2>1. Len(todo') = 0 BY <1>2, EmptySeq
  <2> QED BY <1>2, <2>1 DEF Fresh
<1>3. CASE UNCHANGED <<todo, batch, disk>> BY <1>1, <1>3 DEF Fresh, Exists
<1>4. CASE Setup
  <2>1. ASSUME NEW ready \in SUBSET (1 .. Variants), Begin(Plan(ready)) PROVE Fresh'
    <3>1. phase = "setup" BY <1>4, SetupIs
    <3>2. todo' = Plan(ready) /\ batch' = {} /\ disk' = disk BY <2>1, <3>1 DEF Begin, UnderWay
    <3> QED BY <1>1, <3>2, PlanFresh DEF Fresh, Exists
  <2> QED BY <1>3, <1>4, <2>1, SetupIs DEF Leave
<1>5. CASE Job
  <2>1. JobStep BY <1>5, JobIs
  <2>2. CASE Tried
    <3>1. PICK c \in Head(todo) : Touch(c) BY <2>2 DEF Tried
    <3>2. /\ c \in Clips /\ Head(todo) = todo[1] /\ Head(todo) \subseteq Clips
          /\ Len(todo) \in Nat /\ Len(todo) > 0 /\ Len(Tail(todo)) = Len(todo) - 1
          /\ \A k \in 1 .. Len(Tail(todo)) : Tail(todo)[k] = todo[k + 1]
      BY <2>2, HeadIs DEF Tried
    <3>3. todo' = Tail(todo) /\ batch' = {} /\ engine \notin Batches BY <2>2 DEF Tried
    <3>4. CASE engine \in {"bark", "sarvam"}
      <4>1. ~Exists(c) BY <3>2, <3>4 DEF Fresh
      <4>2. \A d \in Clips : d # c => disk'[d] = disk[d] BY <3>1, <3>2, <4>1, TouchKeeps
      <4>3. ASSUME NEW k \in 1 .. Len(todo') PROVE k + 1 \in 1 .. Len(todo) /\ todo'[k] = todo[k + 1] /\ k + 1 # 1
        BY <3>2, <3>3
      <4>4. \A k \in 1 .. Len(todo') : \A d \in todo'[k] : disk'[d] = "absent"
        <5> SUFFICES ASSUME NEW k \in 1 .. Len(todo'), NEW d \in todo'[k] PROVE disk'[d] = "absent"
          OBVIOUS
        <5>1. k + 1 \in 1 .. Len(todo) /\ d \in todo[k + 1] /\ k + 1 # 1 BY <4>3
        <5>2. 1 \in 1 .. Len(todo) BY <3>2
        <5>3. d # c BY <5>1, <5>2, <3>2, <3>4 DEF Fresh
        <5>4. disk[d] = "absent" BY <5>1, <3>4 DEF Fresh, Exists
        <5>5. d \in Clips
          <6>1. todo[k + 1] \in Jobs BY <5>1, ElementOfSeq DEF TypeOK
          <6> QED BY <6>1, <5>1 DEF Jobs
        <5> QED BY <4>2, <5>3, <5>4, <5>5
      <4>5. \A k, l \in 1 .. Len(todo') : k # l => todo'[k] \cap todo'[l] = {}
        <5> SUFFICES ASSUME NEW k \in 1 .. Len(todo'), NEW l \in 1 .. Len(todo'), k # l
                     PROVE  todo'[k] \cap todo'[l] = {}
          OBVIOUS
        <5>1. k + 1 # l + 1 BY <3>2, <3>3
        <5> QED BY <5>1, <4>3, <3>4 DEF Fresh
      <4> QED BY <1>1, <3>4, <4>4, <4>5 DEF Fresh, Exists
    <3>5. CASE engine \notin {"bark", "sarvam"} BY <1>1, <3>3, <3>5 DEF Fresh
    <3> QED BY <3>4, <3>5
  <2>3. CASE Passed BY <1>1, <2>3 DEF Passed, Fresh, Batches
  <2>4. CASE Opened BY <1>1, <2>4 DEF Opened, Fresh, Batches, Missing, Exists
  <2>5. CASE Varied
    <3>1. PICK c \in batch : batch' = batch \ {c} /\ Touch(c) BY <2>5 DEF Varied
    <3>2. c \in Clips BY BatchIs
    <3>3. CASE engine = "pipergen"
      <4>1. ~Exists(c) BY <3>3 DEF Fresh
      <4>2. \A d \in Clips : d # c => disk'[d] = disk[d] BY <3>1, <3>2, <4>1, TouchKeeps
      <4>3. \A d \in batch' : d \in Clips /\ d # c /\ disk[d] = "absent"
        BY <3>1, <3>3, BatchIs DEF Fresh, Exists
      <4> QED BY <1>1, <3>3, <4>2, <4>3 DEF Fresh, Exists
    <3>4. CASE engine # "pipergen" BY <1>1, <2>5, <3>4 DEF Varied, Batches, Fresh
    <3> QED BY <3>3, <3>4
  <2> QED BY <1>2, <2>1, <2>2, <2>3, <2>4, <2>5 DEF JobStep, Dropped
<1> QED BY <1>2, <1>3, <1>4, <1>5 DEF Next, StartRun, EndRun, Interrupted, CalmDown, vars

\* At first nothing is left to do.
LEMMA FreshInit ==
  ASSUME Init
  PROVE  Fresh
<1>1. Len(<<>>) = 0 BY EmptySeq
<1> QED BY <1>1 DEF Init, Fresh

\* A clip that exists is never written again, whatever it holds: the scripts are
\* "idempotent", as every one of them says.
THEOREM ClipsKept == Spec => ExistingClipsKept
<1>1. TypeOK /\ UnderWay /\ Fresh /\ [Next]_vars => Fresh' BY FreshStep
<1>2. TypeOK /\ UnderWay /\ Fresh /\ [Next]_vars => [\A c \in Clips : Exists(c) => disk'[c] = disk[c]]_vars
  BY StepKeeps
<1> QED BY ClipTypesHold, FreshInit, <1>1, <1>2, PTL DEF Spec, ExistingClipsKept

-----------------------------------------------------------------------------
(* A clean report.                                                         *)

\* Scripts that do not deal with batches have one job for each clip.
SingleJobs == {{c} : c \in Clips}
Singles == engine \notin Batches => todo \in Seq(SingleJobs)

\* A run that may still end clean has every clip on disk or before it, but those of the
\* Piper voices it does not have.
Covering ==
  /\ limit = 0 \/ engine \in {"bark", "sarvam"}
  /\ phase = "run" /\ outcome = "running" /\ failed = 0 /\ engine # "indictts"
  => \A c \in Clips : voices[c[3]] = "good" =>
       Exists(c) \/ c \in batch \/ \E k \in 1 .. Len(todo) : c \in todo[k]

\* The grid as a list of single clips, ...
LEMMA GridSeqSingles ==
  ASSUME NEW negative \in BOOLEAN
  PROVE  Grid[negative] \in Seq(SingleJobs)
<1>1. PICK s \in Seq(JobsOf(negative)) : s = Grid[negative] BY GridIs
<1>2. \A k \in 1 .. Len(s) : s[k] \in SingleJobs BY <1>1, GridSingles DEF SingleJobs
<1>3. Len(s) \in Nat BY LenProperties
<1>4. [k \in 1 .. Len(s) |-> s[k]] \in Seq(SingleJobs) BY <1>2, <1>3, IsASeq
<1>5. s = [k \in 1 .. Len(s) |-> s[k]] BY LenProperties
<1> QED BY <1>1, <1>4, <1>5

\* ... and so every plan of a script without batches.
LEMMA PlanSingles ==
  ASSUME engine \in Engines, limit \in Nat, engine \notin Batches, NEW ready \in SUBSET (1 .. Variants)
  PROVE  Plan(ready) \in Seq(SingleJobs)
<1>1. Grid[FALSE] \in Seq(SingleJobs) /\ Grid[TRUE] \in Seq(SingleJobs) BY GridSeqSingles
<1>2. Cap(Grid[FALSE]) \in Seq(SingleJobs) /\ Cap(Grid[TRUE]) \in Seq(SingleJobs) BY <1>1, CapIs
<1>3. CapEach(Grid) \in Seq(SingleJobs) BY <1>2, ConcatProperties DEF CapEach
<1>4. Both(Grid) \in Seq(SingleJobs) BY <1>1, ConcatProperties DEF Both
<1>5. NotOnDisk(Both(Grid)) \in Seq(SingleJobs)
  <2>1. PICK both \in Seq(Jobs) : both = Both(Grid) BY BothGrids
  <2>2. PICK plan \in Seq(Jobs) : plan = NotOnDisk(both) BY NotOnDiskIs
  <2>3. PICK from \in [1 .. Len(plan) -> 1 .. Len(both)] : \A k \in 1 .. Len(plan) : plan[k] = both[from[k]]
    BY <2>2, NotOnDiskIs
  <2>4. \A k \in 1 .. Len(both) : both[k] \in SingleJobs BY <2>1, BothGrids DEF SingleJobs
  <2>5. Len(plan) \in Nat BY LenProperties
  <2>6. \A k \in 1 .. Len(plan) : plan[k] \in SingleJobs BY <2>3, <2>4
  <2>7. [k \in 1 .. Len(plan) |-> plan[k]] \in Seq(SingleJobs) BY <2>5, <2>6, IsASeq
  <2>8. plan = [k \in 1 .. Len(plan) |-> plan[k]] BY LenProperties
  <2> QED BY <2>1, <2>2, <2>7, <2>8
<1>6. ParlerPlan \in Seq(SingleJobs)
  <2>1. PICK plan \in Seq(Jobs) : plan = ParlerPlan BY ParlerPlanIs
  <2>2. \A k \in 1 .. Len(plan) : plan[k] \in SingleJobs
    <3> SUFFICES ASSUME NEW k \in 1 .. Len(plan) PROVE plan[k] \in SingleJobs
      OBVIOUS
    <3>1. PICK negative \in BOOLEAN : \E l \in 1 .. Len(Grid[negative]) : plan[k] = Grid[negative][l]
      BY <2>1, ParlerPlanIs
    <3>2. PICK l \in 1 .. Len(Grid[negative]) : plan[k] = Grid[negative][l] BY <3>1
    <3> QED BY <3>2, GridSingles DEF SingleJobs
  <2>3. Len(plan) \in Nat BY LenProperties
  <2>4. [k \in 1 .. Len(plan) |-> plan[k]] \in Seq(SingleJobs) BY <2>2, <2>3, IsASeq
  <2>5. plan = [k \in 1 .. Len(plan) |-> plan[k]] BY LenProperties
  <2> QED BY <2>1, <2>4, <2>5
<1>7. ASSUME NEW negative \in BOOLEAN PROVE OfVoices(ready)[negative] \in Seq(SingleJobs)
  <2>1. PICK plan \in Seq(JobsOf(negative)) : plan = OfVoices(ready)[negative] BY OfVoicesIs
  <2>2. \A k \in 1 .. Len(plan) : plan[k] \in SingleJobs
    <3> SUFFICES ASSUME NEW k \in 1 .. Len(plan) PROVE plan[k] \in SingleJobs
      OBVIOUS
    <3>1. PICK l \in 1 .. Len(Grid[negative]) : plan[k] = Grid[negative][l] BY <2>1, OfVoicesIs
    <3> QED BY <3>1, GridSingles DEF SingleJobs
  <2>3. Len(plan) \in Nat BY LenProperties
  <2>4. [k \in 1 .. Len(plan) |-> plan[k]] \in Seq(SingleJobs) BY <2>2, <2>3, IsASeq
  <2>5. plan = [k \in 1 .. Len(plan) |-> plan[k]] BY LenProperties
  <2> QED BY <2>1, <2>4, <2>5
<1>8. CapEach(OfVoices(ready)) \in Seq(SingleJobs)
  <2>1. /\ Cap(OfVoices(ready)[FALSE]) \in Seq(SingleJobs)
        /\ Cap(OfVoices(ready)[TRUE]) \in Seq(SingleJobs)
    BY <1>7, CapIs
  <2> QED BY <2>1, ConcatProperties DEF CapEach
<1> QED BY <1>3, <1>4, <1>5, <1>6, <1>8 DEF Plan, Engines, Batches

\* A phrase's job makes every clip of the phrase.
LEMMA BothPhrases ==
  /\ Both(PerPhrase) \in Seq(Jobs)
  /\ \A c \in Clips : \E k \in 1 .. Len(Both(PerPhrase)) : c \in Both(PerPhrase)[k]
<1> DEFINE both == Both(PerPhrase)
<1>1. PICK s \in Seq(JobsOf(FALSE)), t \in Seq(JobsOf(TRUE)) : s = PerPhrase[FALSE] /\ t = PerPhrase[TRUE]
  BY GridsAre
<1>2. both = s \o t BY <1>1 DEF Both
<1> HIDE DEF both
<1>3. /\ both \in Seq(Jobs) /\ Len(both) = Len(s) + Len(t) /\ Len(s) \in Nat /\ Len(t) \in Nat
      /\ \A k \in 1 .. Len(s) : both[k] = s[k]
      /\ \A k \in 1 .. Len(t) : both[Len(s) + k] = t[k]
  BY <1>2, BothAre
<1>4. ASSUME NEW c \in Clips PROVE \E k \in 1 .. Len(both) : c \in both[k]
  <2>1. PICK negative \in BOOLEAN : \E i \in Phrases(negative) : \E v \in 1 .. Variants : c = out_path(negative, i, v)
    BY ClipParts
  <2>2. PICK i \in Phrases(negative), v \in 1 .. Variants : c = out_path(negative, i, v) BY <2>1
  <2>3. /\ PerPhrase[negative][i] = {out_path(negative, w, x) : w \in {i}, x \in 1 .. Variants}
        /\ i \in 1 .. Len(PerPhrase[negative])
    BY PerPhraseIs, PhrasesAre
  <2>4. c \in PerPhrase[negative][i] BY <2>2, <2>3
  <2>5. CASE negative = FALSE
    <3>1. i \in 1 .. Len(s) /\ c \in s[i] BY <1>1, <2>3, <2>4, <2>5
    <3>2. i \in 1 .. Len(both) BY <3>1, <1>3
    <3> QED BY <3>1, <3>2, <1>3
  <2>6. CASE negative = TRUE
    <3>1. i \in 1 .. Len(t) /\ c \in t[i] BY <1>1, <2>3, <2>4, <2>6
    <3>2. Len(s) + i \in 1 .. Len(both) BY <3>1, <1>3
    <3>3. both[Len(s) + i] = t[i] BY <3>1, <1>3
    <3> QED BY <3>1, <3>2, <3>3
  <2> QED BY <2>5, <2>6
<1> QED BY <1>3, <1>4 DEF both

\* An uncut plan, or one of what is missing, leaves no clip of a voice it has out.
LEMMA PlanCovers ==
  ASSUME engine \in Engines, engine # "indictts", limit = 0 \/ engine \in {"bark", "sarvam"},
         NEW ready \in SUBSET (1 .. Variants)
  PROVE  \A c \in Clips : engine # "piper" \/ c[3] \in ready => Exists(c) \/ \E k \in 1 .. Len(Plan(ready)) : c \in Plan(ready)[k]
<1>1. CASE engine \in {"bark", "sarvam"}
  <2>1. PICK both \in Seq(Jobs) : both = Both(Grid) BY BothGrids
  <2>2. Plan(ready) = NotOnDisk(both) BY <1>1, <2>1 DEF Plan
  <2>3. \A i \in 1 .. Len(both) : (\E c \in both[i] : ~Exists(c)) =>
          \E k \in 1 .. Len(Plan(ready)) : Plan(ready)[k] = both[i]
    BY <2>2, NotOnDiskIs
  <2>4. \A c \in Clips : \E k \in 1 .. Len(both) : both[k] = {c} BY <2>1, BothGrids
  <2> QED BY <2>3, <2>4
<1>2. CASE engine = "parler"
  <2>1. Plan(ready) = ParlerPlan BY <1>2 DEF Plan
  <2> SUFFICES ASSUME NEW c \in Clips PROVE \E k \in 1 .. Len(Plan(ready)) : c \in Plan(ready)[k]
    OBVIOUS
  <2>2. PICK negative \in BOOLEAN : \E i \in Phrases(negative) : \E v \in 1 .. Variants : c = out_path(negative, i, v)
    BY ClipParts
  <2>3. PICK i \in Phrases(negative), v \in 1 .. Variants : c = out_path(negative, i, v) BY <2>2
  <2>4. PICK k \in 1 .. Len(Grid[negative]) : Grid[negative][k] = {c} BY <2>3, GridCovers
  <2>5. \E l \in 1 .. Len(Plan(ready)) : Plan(ready)[l] = Grid[negative][k] BY <2>1, ParlerPlanIs
  <2> QED BY <2>4, <2>5
<1>3. CASE limit = 0 /\ engine \notin {"bark", "sarvam", "parler", "piper"}
  <2>2. Plan(ready) \in {Both(Grid), Both(PerPhrase)}
    <3>1. CapEach(Grid) = Both(Grid) /\ CapEach(PerPhrase) = Both(PerPhrase) /\ AugmentPlan = Both(PerPhrase)
      BY <1>3 DEF Cap, CapEach, AugmentPlan, Both
    <3> QED BY <1>3, <3>1 DEF Plan
  <2>3. CASE Plan(ready) = Both(Grid)
    <3> HIDE DEF Plan
    <3>1. \A c \in Clips : \E k \in 1 .. Len(Plan(ready)) : Plan(ready)[k] = {c} BY <2>3, BothGrids
    <3> QED BY <3>1
  <2>4. CASE Plan(ready) = Both(PerPhrase) BY <2>4, BothPhrases
  <2> QED BY <2>2, <2>3, <2>4
<1>4. CASE limit = 0 /\ engine = "piper"
  <2>1. PICK s \in Seq(JobsOf(FALSE)), t \in Seq(JobsOf(TRUE)) :
          s = OfVoices(ready)[FALSE] /\ t = OfVoices(ready)[TRUE]
    BY OfVoicesIs
  <2>2. Plan(ready) = s \o t BY <1>4, <2>1 DEF Plan, CapEach, Cap
  <2>3. PICK plan : plan = Plan(ready) OBVIOUS
  <2>4. /\ Len(plan) = Len(s) + Len(t) /\ Len(s) \in Nat /\ Len(t) \in Nat
        /\ \A k \in 1 .. Len(s) : plan[k] = s[k]
        /\ \A k \in 1 .. Len(t) : plan[Len(s) + k] = t[k]
    BY <2>2, <2>3, BothAre
  <2>5. SUFFICES ASSUME NEW c \in Clips, c[3] \in ready PROVE \E k \in 1 .. Len(plan) : c \in plan[k]
    BY <1>4, <2>3
  <2>6. PICK negative \in BOOLEAN : \E i \in Phrases(negative) : \E v \in 1 .. Variants : c = out_path(negative, i, v)
    BY ClipParts
  <2>7. PICK i \in Phrases(negative), v \in 1 .. Variants : c = out_path(negative, i, v) BY <2>6
  <2>8. PICK l \in 1 .. Len(Grid[negative]) : Grid[negative][l] = {c} BY <2>7, GridCovers
  <2>9. PICK k \in 1 .. Len(OfVoices(ready)[negative]) : OfVoices(ready)[negative][k] = {c}
    BY <2>5, <2>8, OfVoicesIs
  <2>10. CASE negative = FALSE
    <3>1. k \in 1 .. Len(s) /\ s[k] = {c} BY <2>1, <2>9, <2>10
    <3>2. k \in 1 .. Len(plan) /\ plan[k] = {c} BY <2>4, <3>1
    <3> QED BY <3>2
  <2>11. CASE negative = TRUE
    <3>1. k \in 1 .. Len(t) /\ t[k] = {c} BY <2>1, <2>9, <2>11
    <3>2. Len(s) + k \in 1 .. Len(plan) /\ plan[Len(s) + k] = {c} BY <2>4, <3>1
    <3> QED BY <3>2
  <2> QED BY <2>10, <2>11
<1> QED BY <1>1, <1>2, <1>3, <1>4

\* A clip that exists stays; one that is tried without a failure exists then.
LEMMA TouchExists ==
  ASSUME TypeOK, NEW c \in Clips, Touch(c)
  PROVE  /\ \A d \in Clips : disk[d] # "absent" => disk'[d] # "absent"
         /\ failed' = 0 /\ engine # "indictts" => disk'[c] # "absent"
         /\ failed' = 0 => failed = 0
BY DEF TypeOK, Touch, Exists

\* Every step leaves single clips single.
LEMMA SinglesStep ==
  ASSUME TypeOK, UnderWay, Singles, [Next]_vars
  PROVE  Singles'
<1> USE DEF world, counts, control, files
<1>1. engine' = engine /\ Clips' = Clips /\ SingleJobs' = SingleJobs
  BY TypesStep, SameClips DEF SingleJobs
<1>2. CASE todo' = <<>> BY <1>2, EmptySeq DEF Singles
<1>3. CASE todo' = todo BY <1>1, <1>3 DEF Singles
<1>4. CASE Setup
  <2>1. ASSUME NEW ready \in SUBSET (1 .. Variants), Begin(Plan(ready)) PROVE Singles'
    <3>1. limit \in Nat /\ engine \in Engines BY LimitIs DEF TypeOK
    <3> QED BY <1>1, <2>1, <3>1, PlanSingles DEF Begin, Singles
  <2> QED BY <1>3, <1>4, <2>1, SetupIs DEF Leave
<1>5. CASE Job
  <2>1. JobStep BY <1>5, JobIs
  <2>2. CASE todo # <<>> /\ todo' = Tail(todo) BY <1>1, <2>2, HeadTailProperties DEF Singles
  <2> QED BY <1>2, <1>3, <2>1, <2>2 DEF JobStep, Dropped, Tried, Passed, Opened, Varied
<1> QED BY <1>2, <1>3, <1>4, <1>5 DEF Next, StartRun, EndRun, Interrupted, CalmDown, vars

\* What the head covered is on disk or in the batch now.
LEMMA HeadCovered ==
  ASSUME TypeOK, UnderWay, Singles, Tried \/ Passed \/ Opened, engine # "indictts",
         failed' \in Nat, failed' = 0
  PROVE  /\ \A d \in Clips : disk[d] # "absent" => disk'[d] # "absent"
         /\ \A d \in Head(todo) : disk'[d] # "absent" \/ d \in batch'
         /\ failed = 0
<1>1. failed \in Nat BY DEF TypeOK
<1>2. CASE Tried
  <2>1. PICK c \in Head(todo) : Touch(c) BY <1>2 DEF Tried
  <2>2. todo # <<>> /\ c \in Clips BY <1>2, HeadIs DEF Tried
  <2>3. Head(todo) \in SingleJobs BY <1>2, <2>2, HeadTailProperties DEF Tried, Singles
  <2>4. Head(todo) = {c} BY <2>1, <2>3 DEF SingleJobs
  <2> QED BY <2>1, <2>2, <2>4, TouchExists
<1>3. CASE Passed BY <1>1, <1>3 DEF Passed, Missing, Exists
<1>4. CASE Opened BY <1>1, <1>4 DEF Opened, Missing, Exists
<1> QED BY <1>2, <1>3, <1>4

\* Every step keeps the run covering the clips.
LEMMA CoveringStep ==
  ASSUME TypeOK, UnderWay, Singles, Covering, [Next]_vars
  PROVE  Covering'
<1> USE DEF world, counts, control, files
<1>1. engine' = engine /\ Clips' = Clips /\ TypeOK' /\ UnderWay' BY TypesStep, SameClips
<1>2. CASE phase' # "run" \/ outcome' # "running" BY <1>2 DEF Covering
<1>3. CASE UNCHANGED <<limit, phase, outcome, failed, todo, batch, disk, voices>>
  BY <1>1, <1>3 DEF Covering, Exists
<1>4. CASE Setup
  <2>1. ASSUME NEW ready \in SUBSET (1 .. Variants), Begin(Plan(ready)),
               \A v \in 1 .. Variants : voices'[v] = "good" => v \in ready
        PROVE  Covering'
    <3>1. limit' = limit /\ todo' = Plan(ready) /\ disk' = disk BY <2>1 DEF Begin
    <3>2. engine \in Engines BY DEF TypeOK
    <3>3. \A c \in Clips : voices'[c[3]] = "good" => c[3] \in ready BY <2>1, ClipParts
    <3> HIDE DEF Plan
    <3> QED BY <1>1, <3>1, <3>2, <3>3, PlanCovers DEF Covering, Exists
  <2> QED BY <1>2, <1>4, <2>1, SetupIs DEF Leave
<1>5. CASE Job
  <2>1. JobStep BY <1>5, JobIs
  <2>2. UNCHANGED <<engine, limit, phase, voices>> /\ phase = "run" /\ failed' \in Nat /\ failed \in Nat
    BY <2>1 DEF JobStep, TypeOK
  <2>3. CASE Dropped BY <1>2, <2>3 DEF Dropped
  <2>4. CASE Tried \/ Passed \/ Opened
    <3>1. /\ todo # <<>> /\ todo' = Tail(todo) /\ outcome' = outcome /\ batch = {}
      BY <2>4 DEF Tried, Passed, Opened
    <3>2. /\ Head(todo) = todo[1] /\ Len(todo) \in Nat /\ Len(todo') = Len(todo) - 1
          /\ \A k \in 1 .. Len(todo') : todo'[k] = todo[k + 1]
      BY <3>1, HeadIs
    <3>3. SUFFICES ASSUME limit = 0 \/ engine \in {"bark", "sarvam"}, outcome = "running", failed' = 0,
                          engine # "indictts", NEW d \in Clips, voices[d[3]] = "good"
                   PROVE  disk'[d] # "absent" \/ d \in batch' \/ \E k \in 1 .. Len(todo') : d \in todo'[k]
      BY <1>1, <2>2, <3>1 DEF Covering, Exists
    <3>4. /\ \A e \in Clips : disk[e] # "absent" => disk'[e] # "absent"
          /\ \A e \in Head(todo) : disk'[e] # "absent" \/ e \in batch'
          /\ failed = 0
      BY <2>2, <2>4, <3>3, HeadCovered
    <3>5. disk[d] # "absent" \/ \E k \in 1 .. Len(todo) : d \in todo[k]
      BY <2>2, <3>1, <3>3, <3>4 DEF Covering, Exists
    <3>6. ASSUME NEW k \in 1 .. Len(todo), d \in todo[k], k # 1
          PROVE  \E l \in 1 .. Len(todo') : d \in todo'[l]
      <4>1. k - 1 \in 1 .. Len(todo') /\ (k - 1) + 1 = k BY <3>2, <3>6
      <4> QED BY <3>2, <3>6, <4>1
    <3> QED BY <3>2, <3>4, <3>5, <3>6
  <2>5. CASE Varied
    <3>1. PICK c \in batch : batch' = batch \ {c} /\ Touch(c) BY <2>5 DEF Varied
    <3>2. c \in Clips /\ todo' = todo /\ outcome' = outcome BY <2>5, BatchIs DEF Varied
    <3> QED BY <1>1, <2>2, <3>1, <3>2, TouchExists DEF Covering, Exists
  <2> QED BY <2>1, <2>3, <2>4, <2>5 DEF JobStep
<1>6. CASE CalmDown BY <1>3, <1>6 DEF CalmDown
<1>7. CASE UNCHANGED vars BY <1>3, <1>7 DEF vars
<1> QED BY <1>2, <1>4, <1>5, <1>6, <1>7 DEF Next, StartRun, EndRun, Interrupted

\* So a run that ends clean has them all.
LEMMA CleanStep ==
  ASSUME TypeOK, UnderWay, Covering, CleanReportCovers, [Next]_vars
  PROVE  CleanReportCovers'
<1> USE DEF world, counts, control, files
<1>1. engine' = engine /\ Clips' = Clips BY TypesStep, SameClips
<1>2. CASE phase' # "idle" \/ outcome' # "done" BY <1>2 DEF CleanReportCovers
<1>3. CASE UNCHANGED <<limit, phase, outcome, failed, disk, voices>>
  BY <1>1, <1>3 DEF CleanReportCovers, Exists
<1>4. CASE Setup
  <2>1. CASE \E ready \in SUBSET (1 .. Variants) : Begin(Plan(ready)) BY <1>2, <2>1 DEF Begin
  <2>2. CASE Leave(outcome') /\ engine # "indictts" /\ outcome' = "done"
    <3>1. engine = "bark" /\ Plan({}) = <<>> BY <1>4, <2>2, SetupIs DEF Begin, Leave
    <3>2. engine \in Engines /\ Len(Plan({})) = 0 BY <3>1, EmptySeq DEF TypeOK
    <3>3. \A c \in Clips : Exists(c) \/ \E k \in 1 .. Len(Plan({})) : c \in Plan({})[k]
      BY <3>1, <3>2, PlanCovers
    <3>4. \A c \in Clips : Exists(c) BY <3>2, <3>3
    <3> QED BY <1>1, <2>2, <3>4 DEF Leave, CleanReportCovers, Exists
  <2>3. CASE engine = "indictts" BY <1>1, <2>3 DEF CleanReportCovers
  <2> QED BY <1>2, <1>4, <2>1, <2>2, <2>3, SetupIs
<1>5. CASE Job
  <2>1. phase' = "run" BY <1>5, JobIs DEF JobStep
  <2> QED BY <1>2, <2>1
<1>6. CASE EndRun
  <2>1. phase = "run" /\ Len(todo) = 0 /\ batch = {} /\ outcome \in {"running", "stopped"}
    BY <1>6, EmptySeq DEF EndRun, UnderWay
  <2>2. UNCHANGED <<limit, failed, disk, voices>> /\ outcome' = IF outcome = "running" THEN "done" ELSE outcome
    BY <1>6 DEF EndRun
  <2> QED BY <1>1, <2>1, <2>2 DEF Covering, CleanReportCovers, Exists
<1>7. CASE CalmDown BY <1>3, <1>7 DEF CalmDown
<1>8. CASE UNCHANGED vars BY <1>3, <1>8 DEF vars
<1> QED BY <1>2, <1>4, <1>5, <1>6, <1>7, <1>8 DEF Next, StartRun, Interrupted

\* A run that came to its end and reports no failure has made every clip of the plan, for
\* Piper of the voices it has: the plan leaves no other clip out, and a clip is dealt
\* with, counted failed or made.
THEOREM ClipsCovered == Spec => []CleanReportCovers
<1>1. Init => Singles /\ Covering /\ CleanReportCovers
  BY EmptySeq DEF Init, Singles, Covering, CleanReportCovers
<1>2. TypeOK /\ UnderWay /\ Singles /\ Covering /\ CleanReportCovers /\ [Next]_vars
        => (Singles /\ Covering /\ CleanReportCovers)'
  BY SinglesStep, CoveringStep, CleanStep
<1> QED BY ClipTypesHold, <1>1, <1>2, PTL DEF Spec

-----------------------------------------------------------------------------
(* The limit.                                                              *)

\* Jobs and counts, category by category.
PosJobs == JobsOf(FALSE)
NegJobs == JobsOf(TRUE)
PosMade == made[FALSE]
NegMade == made[TRUE]

\* The first m jobs are of positive phrases, the others of negative ones.
Parted(jobs, m) ==
  /\ \A k \in 1 .. m : jobs[k] \in PosJobs
  /\ \A k \in m + 1 .. Len(jobs) : jobs[k] \in NegJobs

\* A batch of p positive clips or n negative ones.
BatchOf(clips, p, n) ==
  \/ clips \in PosJobs /\ Cardinality(clips) = p /\ n = 0
  \/ clips \in NegJobs /\ Cardinality(clips) = n /\ p = 0

\* The clips a job may make.
Weight == IF engine = "gtts" THEN Variants ELSE 1

\* What a category has and may get yet, from the batch and the jobs left, is within
\* what its part of the list allowed at the start.
ByCategory ==
  limit # 0 /\ engine \in {"espeak", "sapi", "piper", "gtts"} =>
    \E m \in 0 .. Len(todo) : \E p, n \in 0 .. Variants :
      /\ Parted(todo, m) /\ BatchOf(batch, p, n)
      /\ PosMade + p + m * Weight <= limit * Weight
      /\ NegMade + n + (Len(todo) - m) * Weight <= limit * Weight

\* What a run has made and has begun in all.
InTotal ==
  limit # 0 =>
    /\ engine \in {"bark", "sarvam"} => MadeInAll <= limit
    /\ engine = "indictts" => MadeInAll + Cardinality(batch) < limit + Variants
    /\ engine = "augment" =>
         MadeInAll + Cardinality(batch) + Len(todo) * Variants <= limit * Variants

\* Products of natural numbers.
LEMMA Times ==
  ASSUME NEW a \in Nat, NEW b \in Nat, NEW w \in Nat
  PROVE  /\ a * w \in Nat /\ (a + 1) * w = a * w + w
         /\ a <= b => a * w <= b * w
<1>1. a * w \in Nat /\ (a + 1) * w = a * w + w OBVIOUS
<1>2. ASSUME a <= b PROVE a * w <= b * w
  <2>1. PICK d \in Nat : b = a + d
    <3>1. b - a \in Nat /\ b = a + (b - a) BY <1>2
    <3> QED BY <3>1
  <2>2. b * w = a * w + d * w BY <2>1
  <2>3. d * w \in Nat BY <2>1
  <2> QED BY <1>1, <2>2, <2>3
<1> QED BY <1>1, <1>2

\* A job makes a clip at least.
LEMMA WeightIs == Weight \in Nat \ {0} /\ Weight <= Variants
  BY ClipAssumption DEF Weight

\* The size of a batch.
LEMMA BatchCount ==
  ASSUME TypeOK
  PROVE  Cardinality(batch) \in Nat /\ Cardinality(batch) <= Variants /\ Variants \in Nat
BY FS_CardinalityType, ClipAssumption DEF TypeOK, Jobs

\* What was made in all is the sum over the categories.
LEMMA MadeIs ==
  ASSUME TypeOK
  PROVE  PosMade \in Nat /\ NegMade \in Nat /\ MadeInAll = PosMade + NegMade
<1>1. PosMade \in Nat /\ NegMade \in Nat BY DEF TypeOK, PosMade, NegMade
<1>2. MadeInAll = PosMade + NegMade BY DEF MadeInAll, PosMade, NegMade
<1> QED BY <1>1, <1>2

\* What trying a clip adds.
LEMMA TouchMade ==
  ASSUME TypeOK, NEW c \in Clips, Touch(c)
  PROVE  \/ UNCHANGED <<PosMade, NegMade>>
         \/ c[1] = FALSE /\ PosMade' = PosMade + 1 /\ NegMade' = NegMade
         \/ c[1] = TRUE /\ NegMade' = NegMade + 1 /\ PosMade' = PosMade
<1>1. c[1] \in BOOLEAN /\ made \in [BOOLEAN -> Nat] BY ClipParts DEF TypeOK
<1>2. made' = made \/ made' = [made EXCEPT ![c[1]] = made[c[1]] + 1] BY DEF Touch
<1>3. CASE made' = made BY <1>3 DEF PosMade, NegMade
<1>4. CASE made' = [made EXCEPT ![c[1]] = made[c[1]] + 1] /\ c[1] = FALSE
  <2>1. made' = [made EXCEPT ![FALSE] = made[FALSE] + 1] BY <1>4, Zenon
  <2>2. made'[FALSE] = made[FALSE] + 1 BY <1>1, <2>1, Zenon
  <2>3. made'[TRUE] = made[TRUE] BY <1>1, <2>1, Zenon
  <2> QED BY <1>4, <2>2, <2>3, Zenon DEF PosMade, NegMade
<1>5. CASE made' = [made EXCEPT ![c[1]] = made[c[1]] + 1] /\ c[1] = TRUE
  <2>1. made' = [made EXCEPT ![TRUE] = made[TRUE] + 1] BY <1>5, Zenon
  <2>2. made'[TRUE] = made[TRUE] + 1 BY <1>1, <2>1, Zenon
  <2>3. made'[FALSE] = made[FALSE] BY <1>1, <2>1, Zenon
  <2> QED BY <1>5, <2>2, <2>3, Zenon DEF PosMade, NegMade
<1> QED BY <1>1, <1>2, <1>3, <1>4, <1>5

\* The list without its head.
LEMMA TailParted ==
  ASSUME TypeOK, todo # <<>>, NEW m \in 0 .. Len(todo), Parted(todo, m)
  PROVE  \/ m = 0 /\ Head(todo) \in NegJobs /\ Parted(Tail(todo), 0)
         \/ m > 0 /\ Head(todo) \in PosJobs /\ Parted(Tail(todo), m - 1)
<1>1. PICK rest \in Seq(Jobs) : rest = Tail(todo) BY HeadIs
<1>2. /\ Len(todo) \in Nat /\ Len(todo) > 0 /\ Len(rest) = Len(todo) - 1
      /\ Head(todo) = todo[1]
      /\ \A k \in 1 .. Len(rest) : rest[k] = todo[k + 1]
  BY <1>1, HeadIs
<1>3. CASE m = 0
  <2>1. 1 \in m + 1 .. Len(todo) BY <1>2, <1>3
  <2>2. Head(todo) \in NegJobs BY <1>2, <2>1 DEF Parted
  <2>3. \A k \in 0 + 1 .. Len(rest) : k \in 1 .. Len(rest) /\ k + 1 \in m + 1 .. Len(todo)
    BY <1>2, <1>3
  <2>4. \A k \in 0 + 1 .. Len(rest) : rest[k] \in NegJobs BY <1>2, <2>3 DEF Parted
  <2>5. \A k \in 1 .. 0 : rest[k] \in PosJobs OBVIOUS
  <2> QED BY <1>1, <1>3, <2>2, <2>4, <2>5 DEF Parted
<1>4. CASE m > 0
  <2>1. 1 \in 1 .. m BY <1>2, <1>4
  <2>2. Head(todo) \in PosJobs BY <1>2, <2>1 DEF Parted
  <2>3. \A k \in 1 .. m - 1 : k \in 1 .. Len(rest) /\ k + 1 \in 1 .. m BY <1>2, <1>4
  <2>4. \A k \in (m - 1) + 1 .. Len(rest) : k \in 1 .. Len(rest) /\ k + 1 \in m + 1 .. Len(todo)
    BY <1>2, <1>4
  <2>5. \A k \in 1 .. m - 1 : rest[k] \in PosJobs BY <1>2, <2>3 DEF Parted
  <2>6. \A k \in (m - 1) + 1 .. Len(rest) : rest[k] \in NegJobs BY <1>2, <2>4 DEF Parted
  <2> QED BY <1>1, <1>4, <2>2, <2>5, <2>6 DEF Parted
<1> QED BY <1>2, <1>3, <1>4

\* A limited list of one category after the other.
LEMMA PlanParted ==
  ASSUME engine \in {"espeak", "sapi", "piper", "gtts"}, limit \in Nat \ {0},
         NEW ready \in SUBSET (1 .. Variants)
  PROVE  \E m \in 0 .. Len(Plan(ready)) : Parted(Plan(ready), m) /\ m <= limit /\ Len(Plan(ready)) - m <= limit
<1>1. PICK plan \in {Grid, PerPhrase, OfVoices(ready)} : Plan(ready) = Cap(plan[FALSE]) \o Cap(plan[TRUE])
  BY DEF Plan, CapEach
<1>2. plan[FALSE] \in Seq(PosJobs) /\ plan[TRUE] \in Seq(NegJobs) BY GridsAre, OfVoicesIs DEF PosJobs, NegJobs
<1>3. PICK s \in Seq(PosJobs) : s = Cap(plan[FALSE]) /\ Len(s) <= limit BY <1>2, CapIs
<1>4. PICK t \in Seq(NegJobs) : t = Cap(plan[TRUE]) /\ Len(t) <= limit BY <1>2, CapIs
<1>5. PICK jobs : jobs = Plan(ready) /\ jobs = s \o t BY <1>1, <1>3, <1>4
<1>6. /\ Len(jobs) = Len(s) + Len(t) /\ Len(s) \in Nat /\ Len(t) \in Nat
      /\ \A k \in 1 .. Len(s) : jobs[k] = s[k] /\ s[k] \in PosJobs
      /\ \A k \in 1 .. Len(t) : jobs[Len(s) + k] = t[k] /\ t[k] \in NegJobs
  <2>1. s \in Seq(JobsOf(FALSE)) /\ t \in Seq(JobsOf(TRUE)) BY DEF PosJobs, NegJobs
  <2>2. /\ Len(s \o t) = Len(s) + Len(t) /\ Len(s) \in Nat /\ Len(t) \in Nat
        /\ \A k \in 1 .. Len(s) : (s \o t)[k] = s[k] /\ s[k] \in JobsOf(FALSE)
        /\ \A k \in 1 .. Len(t) : (s \o t)[Len(s) + k] = t[k] /\ t[k] \in JobsOf(TRUE)
    BY <2>1, BothAre
  <2> QED BY <1>5, <2>2 DEF PosJobs, NegJobs
<1>7. ASSUME NEW k \in Len(s) + 1 .. Len(jobs) PROVE jobs[k] \in NegJobs
  <2>1. k - Len(s) \in 1 .. Len(t) /\ Len(s) + (k - Len(s)) = k BY <1>6
  <2>2. jobs[Len(s) + (k - Len(s))] \in NegJobs BY <1>6, <2>1
  <2> QED BY <2>1, <2>2
<1>8. Parted(jobs, Len(s)) BY <1>6, <1>7 DEF Parted
<1>9. Len(s) \in 0 .. Len(jobs) /\ Len(jobs) - Len(s) = Len(t) BY <1>6
<1> QED BY <1>3, <1>4, <1>5, <1>8, <1>9
\* Parts of a job are of its category.
LEMMA Parts ==
  /\ {} \in PosJobs /\ {} \in NegJobs /\ Cardinality({}) = 0
  /\ \A c \in Clips : \A S \in PosJobs : c \in S => c[1] = FALSE
  /\ \A c \in Clips : \A S \in NegJobs : c \in S => c[1] = TRUE
  /\ \A S \in PosJobs : \A T \in SUBSET S : T \in PosJobs
  /\ \A S \in NegJobs : \A T \in SUBSET S : T \in NegJobs
<1>1. ASSUME NEW S \in Jobs, NEW T \in SUBSET S PROVE T \in Jobs
  <2>1. IsFiniteSet(S) /\ Cardinality(S) <= Variants /\ S \subseteq Clips /\ Variants \in Nat
    BY ClipAssumption DEF Jobs
  <2>2. IsFiniteSet(T) /\ Cardinality(T) <= Cardinality(S) BY <2>1, FS_Subset
  <2>3. Cardinality(T) \in Nat /\ Cardinality(S) \in Nat BY <2>1, <2>2, FS_CardinalityType
  <2> QED BY <2>1, <2>2, <2>3 DEF Jobs
<1>2. {} \in PosJobs /\ {} \in NegJobs /\ Cardinality({}) = 0
  BY NoBatch DEF PosJobs, NegJobs, JobsOf
<1>3. /\ \A c \in Clips : \A S \in PosJobs : c \in S => c[1] = FALSE
      /\ \A c \in Clips : \A S \in NegJobs : c \in S => c[1] = TRUE
  BY Zenon DEF PosJobs, NegJobs, JobsOf
<1>4. \A S \in PosJobs : \A T \in SUBSET S : T \in PosJobs BY <1>1, Zenon DEF PosJobs, JobsOf
<1>5. \A S \in NegJobs : \A T \in SUBSET S : T \in NegJobs BY <1>1, Zenon DEF NegJobs, JobsOf
<1> QED BY <1>2, <1>3, <1>4, <1>5

\* The size of a job.
LEMMA JobCount ==
  ASSUME NEW S \in Jobs
  PROVE  Cardinality(S) \in 0 .. Variants
BY FS_CardinalityType, ClipAssumption DEF Jobs

\* The next state keeps its bound when a cut of its list shows it.
LEMMA CategoryWitness ==
  ASSUME engine' = engine, limit' = limit, TypeOK', NEW m \in 0 .. Len(todo'),
         NEW p \in 0 .. Variants, NEW n \in 0 .. Variants,
         Parted(todo', m), BatchOf(batch', p, n),
         PosMade' + p + m * Weight <= limit * Weight,
         NegMade' + n + (Len(todo') - m) * Weight <= limit * Weight
  PROVE  ByCategory'
<1>1. PosJobs' = PosJobs /\ NegJobs' = NegJobs BY SameClips DEF PosJobs, NegJobs
<1>2. Weight' = Weight BY DEF Weight
<1>3. Parted(todo, m)' BY <1>1 DEF Parted
<1>4. BatchOf(batch, p, n)' BY <1>1 DEF BatchOf
<1>5. (PosMade + p + m * Weight <= limit * Weight)' BY <1>2
<1>6. (NegMade + n + (Len(todo) - m) * Weight <= limit * Weight)' BY <1>2
<1> QED BY <1>3, <1>4, <1>5, <1>6 DEF ByCategory

\* Nothing left to make: what was made is within the limit.
LEMMA CategoryRest ==
  ASSUME engine' = engine, limit' = limit, limit \in Nat, TypeOK', todo' = <<>>, batch' = {},
         PosMade' <= limit * Weight, NegMade' <= limit * Weight
  PROVE  ByCategory'
<1>1. Len(todo') = 0 /\ 0 \in 0 .. Len(todo') /\ 0 \in 0 .. Variants BY EmptySeq, ClipAssumption
<1>2. Parted(todo', 0) BY <1>1 DEF Parted
<1>3. BatchOf(batch', 0, 0) BY Parts DEF BatchOf
<1>4. Weight \in Nat /\ Len(todo') - 0 = 0 BY <1>1, WeightIs
<1>5. PICK a \in Nat, b \in Nat : a = PosMade' /\ b = NegMade' BY DEF TypeOK, PosMade, NegMade
<1>6. a + 0 + 0 * Weight = a /\ b + 0 + 0 * Weight = b BY <1>4
<1>7. PosMade' + 0 + 0 * Weight <= limit * Weight BY <1>5, <1>6
<1>8. NegMade' + 0 + (Len(todo') - 0) * Weight <= limit * Weight BY <1>4, <1>5, <1>6
<1> QED BY <1>1, <1>2, <1>3, <1>7, <1>8, CategoryWitness

\* What becomes of the head costs no more than the weight of a job.
LEMMA HeadDealt ==
  ASSUME TypeOK, TypeOK', Tried \/ Passed \/ Opened, engine \in {"espeak", "sapi", "piper", "gtts"}
  PROVE  /\ Head(todo) \in PosJobs =>
              /\ NegMade' = NegMade
              /\ \E q \in 0 .. Variants : BatchOf(batch', q, 0) /\ PosMade' + q <= PosMade + Weight
         /\ Head(todo) \in NegJobs =>
              /\ PosMade' = PosMade
              /\ \E q \in 0 .. Variants : BatchOf(batch', 0, q) /\ NegMade' + q <= NegMade + Weight
<1>1. PICK a \in Nat, b \in Nat, w \in Nat : a = PosMade /\ b = NegMade /\ w = Weight /\ w > 0
  BY MadeIs, WeightIs
<1>2. 0 \in 0 .. Variants /\ Variants \in Nat BY ClipAssumption
<1>3. BatchOf({}, 0, 0) BY Parts DEF BatchOf
<1>4. CASE Tried
  <2>1. PICK c \in Head(todo) : Touch(c) BY <1>4 DEF Tried
  <2>2. batch' = {} /\ c \in Clips BY <1>4, HeadIs DEF Tried
  <2>3. Head(todo) \in PosJobs => c[1] = FALSE BY <2>2, Parts
  <2>4. Head(todo) \in NegJobs => c[1] = TRUE BY <2>2, Parts
  <2>5. \/ PosMade' = PosMade /\ NegMade' = NegMade
        \/ c[1] = FALSE /\ PosMade' = PosMade + 1 /\ NegMade' = NegMade
        \/ c[1] = TRUE /\ NegMade' = NegMade + 1 /\ PosMade' = PosMade
    BY <2>1, <2>2, TouchMade
  <2>6. ASSUME Head(todo) \in PosJobs PROVE NegMade' = NegMade /\ PosMade' \in {a, a + 1}
    BY <1>1, <2>3, <2>5, <2>6
  <2>7. ASSUME Head(todo) \in NegJobs PROVE PosMade' = PosMade /\ NegMade' \in {b, b + 1}
    BY <1>1, <2>4, <2>5, <2>7
  <2>8. a + 0 <= a + w /\ (a + 1) + 0 <= a + w /\ b + 0 <= b + w /\ (b + 1) + 0 <= b + w BY <1>1
  <2> QED BY <1>1, <1>2, <1>3, <2>2, <2>6, <2>7, <2>8
<1>5. CASE Passed
  <2>1. batch' = {} /\ PosMade' = PosMade /\ NegMade' = NegMade BY <1>5 DEF Passed, PosMade, NegMade
  <2>2. a + 0 <= a + w /\ b + 0 <= b + w BY <1>1
  <2> QED BY <1>1, <1>2, <1>3, <2>1, <2>2
<1>6. CASE Opened
  <2>1. PosMade' = PosMade /\ NegMade' = NegMade BY <1>6 DEF Opened, PosMade, NegMade
  <2>2. w = Variants BY <1>1, <1>6 DEF Opened, Batches, Weight
  <2>3. batch' \subseteq Head(todo) /\ batch' \in Jobs BY <1>6, HeadIs DEF Opened
  <2>4. PICK q \in 0 .. Variants : q = Cardinality(batch') BY <2>3, JobCount
  <2>5. Head(todo) \in PosJobs => BatchOf(batch', q, 0) BY <2>3, <2>4, Parts DEF BatchOf
  <2>6. Head(todo) \in NegJobs => BatchOf(batch', 0, q) BY <2>3, <2>4, Parts DEF BatchOf
  <2>7. a + q <= a + w /\ b + q <= b + w BY <1>1, <1>2, <2>2
  <2> QED BY <1>1, <2>1, <2>4, <2>5, <2>6, <2>7
<1> QED BY <1>4, <1>5, <1>6

\* Every step keeps the bound of each category.
LEMMA CategoryStep ==
  ASSUME TypeOK, UnderWay, ByCategory, [Next]_vars
  PROVE  ByCategory'
<1> USE DEF world, counts, control, files
<1>1. engine' = engine /\ TypeOK' /\ UnderWay' /\ Clips' = Clips BY TypesStep, SameClips
<1>2. PosJobs' = PosJobs /\ NegJobs' = NegJobs /\ Weight' = Weight
  BY <1>1, SameClips DEF PosJobs, NegJobs, Weight
<1>3. /\ PosMade \in Nat /\ NegMade \in Nat /\ PosMade' \in Nat /\ NegMade' \in Nat
      /\ Weight \in Nat /\ Weight > 0 /\ Variants \in Nat /\ limit \in Nat /\ limit' \in Nat
  <2>1. limit \in Nat /\ limit' \in Nat
    <3>1. limit \in Limits \cup {0} /\ limit' \in Limits' \cup {0} BY <1>1 DEF TypeOK
    <3>2. Limits' = Limits BY <1>1, SameClips
    <3> QED BY <3>1, <3>2, LimitIs
  <2>2. PosMade' \in Nat /\ NegMade' \in Nat BY <1>1 DEF TypeOK, PosMade, NegMade
  <2>3. PosMade \in Nat /\ NegMade \in Nat BY MadeIs
  <2> QED BY <2>1, <2>2, <2>3, WeightIs, ClipAssumption
<1>4. CASE UNCHANGED <<limit, todo, batch, made>>
  BY <1>1, <1>2, <1>4 DEF ByCategory, Parted, BatchOf, PosMade, NegMade
<1>5. CASE todo' = <<>> /\ batch' = {} /\ made' = [negative \in BOOLEAN |-> 0]
  <2>1. PosMade' = 0 /\ NegMade' = 0 BY <1>5 DEF PosMade, NegMade
  <2>2. Len(todo') = 0 /\ 0 \in 0 .. Len(todo') /\ 0 \in 0 .. Variants BY <1>3, <1>5, EmptySeq
  <2>3. Parted(todo, 0)' BY <2>2 DEF Parted
  <2>4. BatchOf(batch, 0, 0)' BY <1>2, <1>5, Parts DEF BatchOf
  <2>5. PICK l \in Nat : l = limit' BY <1>3
  <2>6. 0 + 0 + 0 * Weight <= l * Weight BY <1>3
  <2>7. (PosMade + 0 + 0 * Weight <= limit * Weight)' BY <1>2, <2>1, <2>5, <2>6
  <2>8. (NegMade + 0 + (Len(todo) - 0) * Weight <= limit * Weight)'
    <3>1. Len(todo') - 0 = 0 BY <2>2
    <3> QED BY <1>2, <2>1, <2>5, <2>6, <3>1
  <2> QED BY <2>2, <2>3, <2>4, <2>7, <2>8 DEF ByCategory
<1>6. CASE Setup
  <2>1. ASSUME NEW ready \in SUBSET (1 .. Variants), Begin(Plan(ready)), limit # 0,
               engine \in {"espeak", "sapi", "piper", "gtts"}
        PROVE  ByCategory'
    <3>1. phase = "setup" BY <1>6, SetupIs
    <3>2. /\ todo' = Plan(ready) /\ batch' = {} /\ limit' = limit /\ made' = made
          /\ made = [negative \in BOOLEAN |-> 0]
      BY <2>1, <3>1 DEF Begin, UnderWay
    <3>3. PosMade' = 0 /\ NegMade' = 0 BY <3>2 DEF PosMade, NegMade
    <3>4. PICK m \in 0 .. Len(Plan(ready)) : Parted(Plan(ready), m) /\ m <= limit /\ Len(Plan(ready)) - m <= limit
      BY <1>3, <2>1, PlanParted
    <3>5. Len(Plan(ready)) \in Nat
      <4>1. Plan(ready) \in Seq(Jobs) BY <1>3, PlanIs DEF TypeOK
      <4> HIDE DEF Plan
      <4> QED BY <4>1, LenProperties
    <3>6. m \in Nat /\ Len(Plan(ready)) - m \in Nat BY <3>5
    <3>7. m * Weight <= limit * Weight /\ (Len(Plan(ready)) - m) * Weight <= limit * Weight
      BY <1>3, <3>4, <3>6, Times
    <3>8. m * Weight \in Nat /\ (Len(Plan(ready)) - m) * Weight \in Nat BY <1>3, <3>6, Times
    <3>9. PosMade' + 0 + m * Weight <= limit * Weight BY <3>3, <3>7, <3>8
    <3>10. NegMade' + 0 + (Len(todo') - m) * Weight <= limit * Weight BY <3>2, <3>3, <3>7, <3>8
    <3>11. BatchOf(batch', 0, 0) BY <3>2, Parts DEF BatchOf
    <3>12. 0 \in 0 .. Variants BY <1>3
    <3> HIDE DEF Plan
    <3> QED BY <1>1, <3>2, <3>4, <3>9, <3>10, <3>11, <3>12, CategoryWitness
  <2>2. ASSUME NEW ready \in SUBSET (1 .. Variants), Begin(Plan(ready)),
               limit = 0 \/ engine \notin {"espeak", "sapi", "piper", "gtts"}
        PROVE  ByCategory'
    BY <1>1, <2>2 DEF Begin, ByCategory
  <2>3. CASE Leave(outcome') BY <1>4, <2>3 DEF Leave
  <2> QED BY <1>6, <2>1, <2>2, <2>3, SetupIs
<1>7. CASE Job /\ limit # 0 /\ engine \in {"espeak", "sapi", "piper", "gtts"}
  <2>1. JobStep /\ limit' = limit BY <1>7, JobIs DEF JobStep
  <2>2. PICK m \in 0 .. Len(todo), p \in 0 .. Variants, n \in 0 .. Variants :
          /\ Parted(todo, m) /\ BatchOf(batch, p, n)
          /\ PosMade + p + m * Weight <= limit * Weight
          /\ NegMade + n + (Len(todo) - m) * Weight <= limit * Weight
    BY <1>7 DEF ByCategory
  <2>3. Len(todo) \in Nat BY LenProperties DEF TypeOK
  <2>4. m * Weight \in Nat /\ (Len(todo) - m) * Weight \in Nat BY <1>3, <2>3
  <2>5. CASE Dropped
    <3>1. todo' = <<>> /\ batch' = {} /\ made' = made BY <2>5 DEF Dropped
    <3>2. PosMade' = PosMade /\ NegMade' = NegMade BY <3>1 DEF PosMade, NegMade
    <3>3. PosMade' <= limit * Weight /\ NegMade' <= limit * Weight BY <1>3, <2>2, <2>4, <3>2
    <3> QED BY <1>1, <1>3, <2>1, <3>1, <3>3, CategoryRest
  <2>6. CASE Tried \/ Passed \/ Opened
    <3>1. todo # <<>> /\ batch = {} /\ todo' = Tail(todo) BY <2>6 DEF Tried, Passed, Opened
    <3>2. /\ Head(todo) \in Jobs /\ Head(todo) \subseteq Clips /\ Missing \subseteq Head(todo)
          /\ Len(todo) > 0 /\ Len(todo') = Len(todo) - 1
      BY <3>1, HeadIs
    <3>3. p = 0 /\ n = 0 BY <2>2, <3>1, Parts DEF BatchOf
    <3>3a. PICK a \in Nat : a = PosMade BY <1>3
    <3>3b. PICK b \in Nat : b = NegMade BY <1>3
    <3>3c. PICK w \in Nat : w = Weight BY <1>3
    <3>3d. PICK lw \in Nat : lw = limit * Weight BY <1>3
    <3>3e. PICK k \in Nat : k = Len(todo') /\ Len(todo) = k + 1
      <4>1. Len(todo) - 1 \in Nat /\ Len(todo) = (Len(todo) - 1) + 1 BY <2>3, <3>2
      <4> QED BY <4>1, <3>2
    <3>4. a = PosMade /\ b = NegMade /\ w = Weight /\ lw = limit * Weight /\ k = Len(todo') /\ Len(todo) = k + 1
      BY <3>3a, <3>3b, <3>3c, <3>3d, <3>3e
    <3>5. a + m * w <= lw /\ b + ((k + 1) - m) * w <= lw
      <4>1. a + 0 + m * w <= lw /\ b + 0 + ((k + 1) - m) * w <= lw BY <2>2, <3>3, <3>4
      <4> QED BY <4>1, <3>4
    <3>5a. PICK c \in Nat : c = PosMade' BY <1>3
    <3>5b. PICK d \in Nat : d = NegMade' BY <1>3
    <3>6. c = PosMade' /\ d = NegMade' BY <3>5a, <3>5b
    <3>7. CASE m = 0 /\ Head(todo) \in NegJobs /\ Parted(Tail(todo), 0)
      <4>1. PICK q \in 0 .. Variants : BatchOf(batch', 0, q) /\ NegMade' + q <= NegMade + Weight
        BY <1>1, <1>7, <2>6, <3>7, HeadDealt
      <4>1a. q \in Nat BY <1>3
      <4>2. d + q <= b + w BY <4>1a, <3>4, <3>6, <4>1
      <4>3. PosMade' = PosMade BY <1>1, <1>7, <2>6, <3>7, HeadDealt
      <4>4. ((k + 1) - m) * w = k * w + w /\ k * w \in Nat /\ m * w = 0 /\ 0 * w = 0
        BY <3>4, <3>7, Times
      <4>5. d + q + k * w <= lw
        <5>1. PICK kw \in Nat : kw = k * w BY <4>4
        <5>2. b + (kw + w) <= lw BY <3>5, <4>4, <5>1
        <5>3. d + q + kw <= lw BY <5>2, <4>2, <4>1a
        <5> QED BY <5>1, <5>3
      <4>6. c + 0 + 0 * w <= lw BY <3>4, <3>5, <3>6, <4>3, <4>4
      <4>7. 0 \in 0 .. Len(todo') /\ 0 \in 0 .. Variants /\ Len(todo') - 0 = k BY <1>3, <3>4
      <4>8. PosMade' + 0 + 0 * Weight <= limit * Weight BY <3>4, <3>6, <4>6
      <4>9. NegMade' + q + (Len(todo') - 0) * Weight <= limit * Weight BY <3>4, <3>6, <4>5, <4>7
      <4>10. Parted(todo', 0) BY <3>1, <3>7
      <4> QED BY <1>1, <2>1, <4>1, <4>7, <4>8, <4>9, <4>10, CategoryWitness
    <3>8. CASE m > 0 /\ Head(todo) \in PosJobs /\ Parted(Tail(todo), m - 1)
      <4>1. PICK q \in 0 .. Variants : BatchOf(batch', q, 0) /\ PosMade' + q <= PosMade + Weight
        BY <1>1, <1>7, <2>6, <3>8, HeadDealt
      <4>1a. q \in Nat BY <1>3
      <4>2. c + q <= a + w BY <4>1a, <3>4, <3>6, <4>1
      <4>3. NegMade' = NegMade BY <1>1, <1>7, <2>6, <3>8, HeadDealt
      <4>4. PICK j \in Nat : m = j + 1 /\ j = m - 1 BY <2>3, <3>8
      <4>5. m * w = j * w + w /\ j * w \in Nat BY <3>4, <4>4, Times
      <4>6. c + q + j * w <= lw
        <5>1. PICK jw \in Nat : jw = j * w BY <4>5
        <5>2. a + (jw + w) <= lw BY <3>5, <4>5, <5>1
        <5>3. c + q + jw <= lw BY <5>2, <4>2, <4>1a
        <5> QED BY <5>1, <5>3
      <4>7. (k + 1) - m = k - j /\ j \in 0 .. k BY <3>4, <4>4
      <4>8. d + ((k + 1) - m) * w <= lw BY <3>4, <3>5, <3>6, <4>3
      <4>9. (k - j) * w \in Nat BY <3>4, <4>7
      <4>10. d + 0 + (k - j) * w <= lw
        <5>1. PICK x \in Nat : x = (k - j) * w BY <4>9
        <5>2. d + x <= lw BY <4>7, <4>8, <5>1
        <5>3. d + 0 + x <= lw BY <5>2
        <5> QED BY <5>1, <5>3
      <4>11. j \in 0 .. Len(todo') /\ 0 \in 0 .. Variants BY <1>3, <3>4, <4>7
      <4>12. PosMade' + q + j * Weight <= limit * Weight BY <3>4, <3>6, <4>6
      <4>13. NegMade' + 0 + (Len(todo') - j) * Weight <= limit * Weight BY <3>4, <3>6, <4>10
      <4>14. Parted(todo', j) BY <3>1, <3>8, <4>4
      <4> QED BY <1>1, <2>1, <4>1, <4>11, <4>12, <4>13, <4>14, CategoryWitness
    <3> QED BY <2>2, <3>1, <3>7, <3>8, TailParted
  <2>7. CASE Varied
    <3>1. PICK c \in batch : batch' = batch \ {c} /\ Touch(c) BY <2>7 DEF Varied
    <3>2. todo' = todo /\ c \in Clips /\ batch' \subseteq batch BY <2>7, <3>1, BatchIs DEF Varied
    <3>3. PICK x \in Nat, y \in Nat : x = Cardinality(batch) /\ y = Cardinality(batch') /\ x = y + 1
      <4>1. Cardinality(batch) \in Nat /\ Cardinality(batch \ {c}) = Cardinality(batch) - 1
        BY BatchIs
      <4>2. Cardinality(batch \ {c}) \in Nat BY BatchIs, JobCount
      <4> QED BY <3>1, <4>1, <4>2
    <3>3a. PICK a \in Nat : a = PosMade BY <1>3
    <3>3b. PICK b \in Nat : b = NegMade BY <1>3
    <3>3c. PICK e \in Nat : e = PosMade' BY <1>3
    <3>3d. PICK f \in Nat : f = NegMade' BY <1>3
    <3>3e. PICK lw \in Nat : lw = limit * Weight BY <1>3
    <3>3f. PICK mw \in Nat : mw = m * Weight BY <2>4
    <3>3g. PICK nw \in Nat : nw = (Len(todo) - m) * Weight BY <2>4
    <3>4. /\ a = PosMade /\ b = NegMade /\ e = PosMade' /\ f = NegMade'
          /\ lw = limit * Weight /\ mw = m * Weight /\ nw = (Len(todo) - m) * Weight
      BY <3>3a, <3>3b, <3>3c, <3>3d, <3>3e, <3>3f, <3>3g
    <3>5. a + p + mw <= lw /\ b + n + nw <= lw /\ p \in Nat /\ n \in Nat BY <1>3, <2>2, <3>4
    <3>6. \/ e = a /\ f = b
          \/ c[1] = FALSE /\ e = a + 1 /\ f = b
          \/ c[1] = TRUE /\ f = b + 1 /\ e = a
      BY <3>1, <3>2, <3>4, TouchMade
    <3>7. CASE batch \in PosJobs /\ p = x /\ n = 0
      <4>1. c[1] = FALSE BY <3>2, <3>7, Parts
      <4>2. f = b /\ e <= a + 1 BY <3>4, <3>6, <4>1
      <4>3. e + y + mw <= lw /\ f + 0 + nw <= lw
        <5>1. a + x + mw <= lw /\ b + 0 + nw <= lw BY <3>5, <3>7
        <5>2. x = y + 1 /\ e <= a + 1 /\ a + x + mw <= lw BY <3>3, <4>2, <5>1
        <5>3. e + y + mw <= lw BY <5>2
        <5> QED BY <5>1, <5>3, <4>2
      <4>4. BatchOf(batch', y, 0) BY <3>2, <3>3, <3>7, Parts DEF BatchOf
      <4>5. y \in 0 .. Variants /\ 0 \in 0 .. Variants BY <1>3, <3>3, <3>7
      <4> QED BY <1>1, <2>1, <2>2, <3>2, <3>4, <4>3, <4>4, <4>5, CategoryWitness
    <3>8. CASE batch \in NegJobs /\ n = x /\ p = 0
      <4>1. c[1] = TRUE BY <3>2, <3>8, Parts
      <4>2. e = a /\ f <= b + 1 BY <3>4, <3>6, <4>1
      <4>3. e + 0 + mw <= lw /\ f + y + nw <= lw
        <5>1. a + 0 + mw <= lw /\ b + x + nw <= lw BY <3>5, <3>8
        <5>2. x = y + 1 /\ f <= b + 1 /\ b + x + nw <= lw BY <3>3, <4>2, <5>1
        <5>3. f + y + nw <= lw BY <5>2
        <5> QED BY <5>1, <5>3, <4>2
      <4>4. BatchOf(batch', 0, y) BY <3>2, <3>3, <3>8, Parts DEF BatchOf
      <4>5. y \in 0 .. Variants /\ 0 \in 0 .. Variants BY <1>3, <3>3, <3>8
      <4> QED BY <1>1, <2>1, <2>2, <3>2, <3>4, <4>3, <4>4, <4>5, CategoryWitness
    <3> QED BY <2>2, <3>3, <3>7, <3>8 DEF BatchOf
  <2> QED BY <2>1, <2>5, <2>6, <2>7 DEF JobStep
<1>8. CASE Job /\ (limit = 0 \/ engine \notin {"espeak", "sapi", "piper", "gtts"})
  <2>1. limit' = limit BY <1>8, JobIs DEF JobStep
  <2> QED BY <1>1, <1>8, <2>1 DEF ByCategory
<1>9. CASE \E l \in {0, Limit} : StartRun(l)
  <2>1. todo' = <<>> /\ batch' = {} /\ made' = [negative \in BOOLEAN |-> 0]
    BY <1>9 DEF StartRun, UnderWay
  <2> QED BY <1>5, <2>1
<1> QED BY <1>4, <1>5, <1>6, <1>7, <1>8, <1>9 DEF Next, EndRun, Interrupted, CalmDown, vars

\* The augmentation's list is cut at the limit.
LEMMA AugmentLength ==
  ASSUME engine = "augment", limit \in Nat \ {0}, NEW ready
  PROVE  Len(Plan(ready)) \in Nat /\ Len(Plan(ready)) <= limit
<1>1. PICK both \in Seq(Jobs) : both = Both(PerPhrase) BY BothPhrases
<1>2. PICK plan \in Seq(Jobs) : plan = Cap(both) /\ Len(plan) <= limit BY CapIs
<1>3. Plan(ready) = plan BY <1>1, <1>2 DEF Plan, AugmentPlan
<1> HIDE DEF Plan
<1> QED BY <1>2, <1>3, LenProperties

\* Trying a clip makes one at most.
LEMMA TouchTotal ==
  ASSUME TypeOK, NEW c \in Clips, Touch(c)
  PROVE  MadeInAll \in Nat /\ (MadeInAll' = MadeInAll \/ MadeInAll' = MadeInAll + 1)
<1>1. PICK a \in Nat : a = PosMade BY MadeIs
<1>2. PICK b \in Nat : b = NegMade BY MadeIs
<1>3. MadeInAll = a + b BY <1>1, <1>2, MadeIs
<1>4. MadeInAll' = PosMade' + NegMade' BY DEF MadeInAll, PosMade, NegMade
<1>5. (a + 1) + b = (a + b) + 1 /\ a + (b + 1) = (a + b) + 1 /\ a + b \in Nat OBVIOUS
<1>6. \/ PosMade' = a /\ NegMade' = b
      \/ PosMade' = a + 1 /\ NegMade' = b
      \/ PosMade' = a /\ NegMade' = b + 1
  BY <1>1, <1>2, TouchMade
<1>7. MadeInAll' = a + b \/ MadeInAll' = (a + b) + 1 BY <1>4, <1>5, <1>6
<1> QED BY <1>3, <1>5, <1>7

\* Every step keeps the bound in all.
LEMMA TotalStep ==
  ASSUME TypeOK, UnderWay, InTotal, [Next]_vars
  PROVE  InTotal'
<1> USE DEF world, counts, control, files
<1>1. engine' = engine /\ TypeOK' BY TypesStep
<1>2. Variants \in Nat \ {0} /\ limit \in Nat /\ limit' \in Nat
  <2>1. limit \in Limits \cup {0} /\ limit' \in Limits' \cup {0} BY <1>1 DEF TypeOK
  <2>2. Limits' = Limits BY <1>1, SameClips
  <2> QED BY <2>1, <2>2, LimitIs, ClipAssumption
<1>3. CASE UNCHANGED <<limit, todo, batch, made>> BY <1>1, <1>3 DEF InTotal, MadeInAll
<1>4. CASE todo' = <<>> /\ batch' = {} /\ made' = [negative \in BOOLEAN |-> 0]
  <2>1. MadeInAll' = 0
    <3>1. made'[FALSE] = 0 /\ made'[TRUE] = 0 BY <1>4
    <3> QED BY <3>1 DEF MadeInAll
  <2>2. Len(todo') = 0 /\ Cardinality(batch') = 0 BY <1>4, EmptySeq, NoBatch
  <2>3. PICK l \in Nat : l = limit' BY <1>2
  <2>4. 0 * Variants = 0 /\ l * Variants \in Nat BY <1>2
  <2>5. 0 <= l /\ 0 + 0 < l + Variants /\ 0 + 0 + 0 * Variants <= l * Variants BY <1>2, <2>4
  <2> QED BY <2>1, <2>2, <2>3, <2>5 DEF InTotal
<1>5. CASE Setup
  <2>1. ASSUME NEW ready \in SUBSET (1 .. Variants), Begin(Plan(ready)) PROVE InTotal'
    <3>1. phase = "setup" BY <1>5, SetupIs
    <3>2. /\ todo' = Plan(ready) /\ batch' = {} /\ limit' = limit /\ made' = made
          /\ made = [negative \in BOOLEAN |-> 0]
      BY <2>1, <3>1 DEF Begin, UnderWay
    <3>3. MadeInAll' = 0
      <4>1. made'[FALSE] = 0 /\ made'[TRUE] = 0 BY <3>2
      <4> QED BY <4>1 DEF MadeInAll
    <3>4. Cardinality(batch') = 0 BY <3>2, NoBatch
    <3>5. SUFFICES ASSUME limit # 0
                   PROVE  /\ 0 <= limit /\ 0 + 0 < limit + Variants
                          /\ engine = "augment" => 0 + 0 + Len(Plan(ready)) * Variants <= limit * Variants
      BY <1>1, <3>2, <3>3, <3>4 DEF InTotal
    <3>6. ASSUME engine = "augment" PROVE 0 + 0 + Len(Plan(ready)) * Variants <= limit * Variants
      <4>1. PICK k \in Nat : k = Len(Plan(ready)) /\ k <= limit BY <1>2, <3>5, <3>6, AugmentLength
      <4>2. k * Variants <= limit * Variants /\ k * Variants \in Nat BY <1>2, <4>1, Times
      <4>3. 0 + 0 + k * Variants <= limit * Variants BY <4>2
      <4> QED BY <4>1, <4>3
    <3> QED BY <1>2, <3>6
  <2> QED BY <1>3, <1>5, <2>1, SetupIs DEF Leave
<1>6. CASE Job /\ limit # 0
  <2>1. JobStep /\ limit' = limit BY <1>6, JobIs DEF JobStep
  <2>2. PICK made1 \in Nat : made1 = MadeInAll
    <3>1. PosMade \in Nat /\ NegMade \in Nat /\ MadeInAll = PosMade + NegMade BY MadeIs
    <3> QED BY <3>1
  <2>3. PICK k \in Nat : k = Len(todo) BY LenProperties DEF TypeOK
  <2>4. PICK x \in Nat : x = Cardinality(batch) BY BatchCount
  <2>5. PICK kv \in Nat : kv = k * Variants BY <1>2
  <2>6. PICK lv \in Nat : lv = limit * Variants BY <1>2
  <2>7. /\ engine \in {"bark", "sarvam"} => made1 <= limit
        /\ engine = "indictts" => made1 + x < limit + Variants
        /\ engine = "augment" => made1 + x + kv <= lv
    BY <1>6, <2>2, <2>3, <2>4, <2>5, <2>6 DEF InTotal
  <2>8. ASSUME NEW made2 \in Nat, NEW k2 \in Nat, NEW x2 \in Nat,
               made2 = MadeInAll', k2 = Len(todo'), x2 = Cardinality(batch'),
               engine \in {"bark", "sarvam"} => made2 <= limit,
               engine = "indictts" => made2 + x2 < limit + Variants,
               engine = "augment" => made2 + x2 + k2 * Variants <= lv
        PROVE  InTotal'
    BY <1>1, <2>1, <2>6, <2>8 DEF InTotal
  <2>9. CASE Dropped
    <3>1. made' = made /\ Len(todo') = 0 /\ Cardinality(batch') = 0
      BY <2>9, EmptySeq, NoBatch DEF Dropped
    <3>2. MadeInAll' = made1 BY <2>2, <3>1 DEF MadeInAll
    <3>3. 0 * Variants = 0 BY <1>2
    <3>4. engine = "augment" => made1 + 0 + 0 * Variants <= lv BY <2>7, <3>3
    <3>5. engine = "indictts" => made1 + 0 < limit + Variants BY <1>2, <2>7
    <3>6. 0 \in Nat OBVIOUS
    <3> QED BY <2>7, <2>8, <3>1, <3>2, <3>4, <3>5, <3>6
  <2>10. CASE Tried
    <3>1. PICK c \in Head(todo) : Touch(c) BY <2>10 DEF Tried
    <3>2. c \in Clips /\ engine \notin {"indictts", "augment"} BY <2>10, HeadIs DEF Tried, Batches
    <3>3. PICK made2 \in Nat : made2 = MadeInAll' /\ made2 \in {made1, made1 + 1}
      BY <2>2, <3>1, <3>2, TouchTotal
    <3>4. engine \in {"bark", "sarvam"} => ~(made1 >= limit) BY <1>6, <2>2, <2>10 DEF Tried
    <3>5. engine \in {"bark", "sarvam"} => made2 <= limit BY <1>2, <3>3, <3>4
    <3> QED BY <1>1, <2>1, <3>2, <3>3, <3>5 DEF InTotal
  <2>11. CASE Passed \/ Opened
    <3>1. todo # <<>> /\ batch = {} /\ todo' = Tail(todo) /\ made' = made /\ engine \in Batches
      BY <2>11 DEF Passed, Opened
    <3>2. MadeInAll' = made1 BY <2>2, <3>1 DEF MadeInAll
    <3>3. x = 0 BY <2>4, <3>1, NoBatch
    <3>4. PICK k2 \in Nat : k2 = Len(todo') /\ k = k2 + 1
      <4>1. Len(todo') = k - 1 /\ k > 0 BY <2>3, <3>1, HeadIs
      <4>2. k - 1 \in Nat /\ k = (k - 1) + 1 BY <4>1
      <4> QED BY <4>1, <4>2
    <3>5. PICK x2 \in Nat : x2 = Cardinality(batch') /\ x2 <= Variants
      <4>1. batch' \in Jobs
        <5>1. Head(todo) \in Jobs /\ Missing \in Jobs BY <3>1, HeadIs
        <5> HIDE DEF Missing
        <5> QED BY <2>11, <5>1, NoBatch DEF Passed, Opened
      <4>2. Cardinality(batch') \in 0 .. Variants BY <4>1, JobCount
      <4> QED BY <1>2, <4>2
    <3>6. PICK kv2 \in Nat : kv2 = k2 * Variants /\ kv = kv2 + Variants BY <1>2, <2>5, <3>4, Times
    <3>7. engine = "augment" => made1 + x2 + kv2 <= lv BY <1>2, <2>7, <3>3, <3>5, <3>6
    <3>8. engine = "indictts" => made1 + x2 < limit + Variants
      <4>1. CASE Passed
        <5>1. x2 = 0 BY <3>5, <4>1, NoBatch DEF Passed
        <5> QED BY <1>2, <2>7, <3>3, <5>1
      <4>2. CASE Opened
        <5>1. engine = "indictts" => ~(made1 >= limit) BY <1>6, <2>2, <4>2 DEF Opened
        <5> QED BY <1>2, <3>5, <5>1
      <4> QED BY <2>11, <4>1, <4>2
    <3>9. engine \notin {"bark", "sarvam"} BY <3>1 DEF Batches
    <3> QED BY <2>8, <3>2, <3>4, <3>5, <3>6, <3>7, <3>8, <3>9
  <2>12. CASE Varied
    <3>1. PICK c \in batch : batch' = batch \ {c} /\ Touch(c) BY <2>12 DEF Varied
    <3>2. c \in Clips /\ todo' = todo /\ engine \notin {"bark", "sarvam"}
      BY <2>12, BatchIs DEF Varied, Batches
    <3>3. PICK made2 \in Nat : made2 = MadeInAll' /\ made2 \in {made1, made1 + 1}
      BY <2>2, <3>1, <3>2, TouchTotal
    <3>4. PICK y \in Nat : y = Cardinality(batch') /\ x = y + 1
      <4>1. Cardinality(batch) \in Nat /\ Cardinality(batch \ {c}) = Cardinality(batch) - 1
        BY BatchIs
      <4>2. Cardinality(batch \ {c}) \in Nat BY BatchIs, JobCount
      <4> QED BY <2>4, <3>1, <4>1, <4>2
    <3>5. k = Len(todo') BY <2>3, <3>2
    <3>6. engine = "augment" => made2 + y + kv <= lv
      <4>1. ASSUME made1 + x + kv <= lv PROVE made2 + y + kv <= lv
        <5>1. x = y + 1 /\ made2 <= made1 + 1 BY <3>3, <3>4
        <5> QED BY <5>1, <4>1
      <4> QED BY <2>7, <4>1
    <3>7. engine = "indictts" => made2 + y < limit + Variants
      <4>1. ASSUME made1 + x < limit + Variants PROVE made2 + y < limit + Variants
        <5>1. x = y + 1 /\ made2 <= made1 + 1 BY <3>3, <3>4
        <5> QED BY <1>2, <5>1, <4>1
      <4> QED BY <2>7, <4>1
    <3> QED BY <2>5, <2>8, <3>2, <3>3, <3>4, <3>5, <3>6, <3>7
  <2> QED BY <2>1, <2>9, <2>10, <2>11, <2>12 DEF JobStep
<1>7. CASE Job /\ limit = 0
  <2>1. limit' = limit BY <1>7, JobIs DEF JobStep
  <2> QED BY <1>7, <2>1 DEF InTotal
<1>8. CASE \E l \in {0, Limit} : StartRun(l)
  <2>1. todo' = <<>> /\ batch' = {} /\ made' = [negative \in BOOLEAN |-> 0]
    BY <1>8 DEF StartRun, UnderWay
  <2> QED BY <1>4, <2>1
<1> QED BY <1>3, <1>4, <1>5, <1>6, <1>7, <1>8 DEF Next, EndRun, Interrupted, CalmDown, vars

\* What the invariants say of what was made.
LEMMA WithinLimit ==
  ASSUME TypeOK, ByCategory, InTotal
  PROVE  NewClipsBounded /\ LooserLimit
<1> SUFFICES ASSUME limit # 0 PROVE NewClipsBounded /\ LooserLimit
  BY DEF NewClipsBounded, LooserLimit
<1> USE DEF LooserLimit
<1>1. limit \in Limits /\ limit \in Nat \ {0} /\ Variants \in Nat \ {0}
  BY LimitIs, ClipAssumption DEF TypeOK
<1>2. engine \notin {"kokoro", "parler", "pipergen"} BY <1>1 DEF Limits
<1>3. PICK a \in Nat : a = PosMade BY MadeIs
<1>4. PICK b \in Nat : b = NegMade BY MadeIs
<1>5. MadeInAll = a + b /\ made[FALSE] = a /\ made[TRUE] = b
  BY <1>3, <1>4, MadeIs DEF PosMade, NegMade
<1>6. PICK lw \in Nat : lw = limit * Weight BY <1>1, WeightIs
<1>7. ASSUME engine \in {"espeak", "sapi", "piper", "gtts"} PROVE a <= lw /\ b <= lw
  <2>1. PICK m \in 0 .. Len(todo), p \in 0 .. Variants, n \in 0 .. Variants :
          /\ PosMade + p + m * Weight <= limit * Weight
          /\ NegMade + n + (Len(todo) - m) * Weight <= limit * Weight
    BY <1>7 DEF ByCategory
  <2>2. Len(todo) \in Nat BY LenProperties DEF TypeOK
  <2>3. Weight \in Nat BY WeightIs
  <2>4. PICK x \in Nat : x = m * Weight BY <2>2, <2>3
  <2>5. PICK y \in Nat : y = (Len(todo) - m) * Weight BY <2>2, <2>3
  <2>6. a + p + x <= lw /\ b + n + y <= lw BY <1>3, <1>4, <1>6, <2>1, <2>4, <2>5
  <2> QED BY <1>1, <2>6
<1>8. PICK x \in Nat : x = Cardinality(batch) BY BatchCount
<1>9. CASE engine \in {"espeak", "sapi", "piper"}
  <2>1. lw = limit BY <1>1, <1>6, <1>9 DEF Weight
  <2>2. \A n \in BOOLEAN : made[n] <= limit BY <1>5, <1>7, <1>9, <2>1
  <2> QED BY <1>9, <2>2 DEF NewClipsBounded
<1>10. CASE engine = "gtts"
  <2>1. lw = limit * Variants BY <1>6, <1>10 DEF Weight
  <2>2. \A n \in BOOLEAN : made[n] <= limit * Variants BY <1>5, <1>7, <1>10, <2>1
  <2> QED BY <1>10, <2>2 DEF NewClipsBounded
<1>11. CASE engine \in {"bark", "sarvam"}
  BY <1>11 DEF InTotal, NewClipsBounded
<1>12. CASE engine = "indictts"
  <2>1. (a + b) + x < limit + Variants BY <1>5, <1>8, <1>12 DEF InTotal
  <2>2. a + b < limit + Variants BY <1>1, <2>1
  <2> QED BY <1>5, <1>12, <2>2 DEF NewClipsBounded
<1>13. CASE engine = "augment"
  <2>1. PICK k \in Nat : k = Len(todo) * Variants
    <3>1. Len(todo) \in Nat BY LenProperties DEF TypeOK
    <3> QED BY <3>1, <1>1
  <2>2. PICK lv \in Nat : lv = limit * Variants BY <1>1
  <2>3. (a + b) + x + k <= lv BY <1>5, <1>8, <1>13, <2>1, <2>2 DEF InTotal
  <2>4. a + b <= lv BY <2>3
  <2> QED BY <1>5, <1>13, <2>2, <2>4 DEF NewClipsBounded
<1> QED BY <1>2, <1>9, <1>10, <1>11, <1>12, <1>13 DEF TypeOK, Engines

\* A run told to make a few clips makes no more than that: per category (espeak, SAPI,
\* Piper), in all (Bark, Sarvam), or the copies of so many clips (augment.py).
THEOREM ClipsBounded == Spec => []NewClipsBounded
<1>1. Init => ByCategory /\ InTotal BY DEF Init, ByCategory, InTotal
<1>2. TypeOK /\ UnderWay /\ ByCategory /\ InTotal /\ [Next]_vars => (ByCategory /\ InTotal)'
  BY CategoryStep, TotalStep
<1>3. TypeOK /\ ByCategory /\ InTotal => NewClipsBounded BY WithinLimit
<1> QED BY ClipTypesHold, <1>1, <1>2, <1>3, PTL DEF Spec

\* What gTTS and IndicTTS keep to, although not to what their documents say: every speed
\* of so many phrases, and what is asked for or less than a phrase more.
THEOREM ClipsLooselyBounded == Spec => []LooserLimit
<1>1. Init => ByCategory /\ InTotal BY DEF Init, ByCategory, InTotal
<1>2. TypeOK /\ UnderWay /\ ByCategory /\ InTotal /\ [Next]_vars => (ByCategory /\ InTotal)'
  BY CategoryStep, TotalStep
<1>3. TypeOK /\ ByCategory /\ InTotal => LooserLimit BY WithinLimit
<1> QED BY ClipTypesHold, <1>1, <1>2, <1>3, PTL DEF Spec
=============================================================================
