----------------------------- MODULE ListsProofs -----------------------------
(***************************************************************************)
(* TLAPS proofs about the lists of the page, for any tours, photos, loads, *)
(* removals and entries of the history.  TourList: removals settle once    *)
(* and take nothing with them.  TourData: the galleries are right and keep *)
(* their photos.  Layers: layers, dialogs and history agree.  ListView:    *)
(* the list shows what was searched, and its URL brings it back.           *)
(***************************************************************************)
EXTENDS TourList, TourData, Layers, ListView, FiniteSetTheorems, SequenceTheorems,
        WellFoundedInduction, TLAPS

-----------------------------------------------------------------------------
(* Filters. *)

\* A set with 0 and with the successor of each of its numbers has every number.
LEMMA SetInduction ==
  ASSUME NEW S, 0 \in S, \A n \in Nat : n \in S => n + 1 \in S
  PROVE  \A n \in Nat : n \in S
<1> DEFINE T == Nat \ S
<1>1. ASSUME T # {} PROVE FALSE
  <2>1. T \subseteq Nat
    OBVIOUS
  <2>2. PICK m \in T : \A k \in T : <<k, m>> \notin OpToRel(<, Nat)
    BY <1>1, <2>1, WFMin, NatLessThanWellFounded, Zenon
  <2>3. \A k \in T : ~(k < m)
    BY <2>2, Zenon DEF OpToRel
  <2>4. m # 0 /\ m \in Nat
    OBVIOUS
  <2>5. m - 1 \in Nat /\ m - 1 < m /\ (m - 1) + 1 = m
    BY <2>4
  <2>6. m - 1 \in S
    BY <2>3, <2>5
  <2> QED BY <2>5, <2>6
<1> QED BY <1>1

RunOf(f, S, first, step) ==
  f \in [Nat -> S] /\ f[0] = first /\ \A n \in Nat \ {0} : f[n] = step[<<n, f[n - 1]>>]

\* A function given by its first value and a step from each value to the next exists.
LEMMA RunExists ==
  ASSUME NEW S, NEW first \in S, NEW step \in [Nat \X S -> S]
  PROVE  \E f : RunOf(f, S, first, step)
<1> DEFINE Run(f, n) == f \in [0..n -> S] /\ f[0] = first /\ \A i \in 1..n : f[i] = step[<<i, f[i - 1]>>]
           Good == {n \in Nat : \E f : Run(f, n)}
<1>1. 0 \in Good
  <2>1. Run([i \in 0..0 |-> first], 0)
    OBVIOUS
  <2> QED BY <2>1
<1>2. ASSUME NEW n \in Nat, n \in Good PROVE n + 1 \in Good
  <2>1. PICK f : Run(f, n)
    BY <1>2
  <2> DEFINE g == [i \in 0..(n + 1) |-> IF i = n + 1 THEN step[<<n + 1, f[n]>>] ELSE f[i]]
  <2>2. step[<<n + 1, f[n]>>] \in S
    BY <2>1
  <2>3. g \in [0..(n + 1) -> S] /\ g[0] = first
    BY <2>1, <2>2
  <2>4. ASSUME NEW i \in 1..(n + 1) PROVE g[i] = step[<<i, g[i - 1]>>]
    <3>1. CASE i = n + 1
      <4>1. g[i] = step[<<n + 1, f[n]>>] /\ g[i - 1] = f[n]
        BY <3>1
      <4> QED BY <4>1, <3>1
    <3>2. CASE i \in 1..n
      <4>1. g[i] = f[i] /\ g[i - 1] = f[i - 1]
        BY <3>2
      <4> QED BY <4>1, <3>2, <2>1
    <3> QED BY <3>1, <3>2
  <2>5. Run(g, n + 1)
    BY <2>3, <2>4
  <2> HIDE DEF Run
  <2> QED BY <2>5
<1>3. \A n \in Nat : n \in Good
  <2> HIDE DEF Good
  <2> QED BY <1>1, <1>2, SetInduction
<1>4. \A n \in Nat : \E f : Run(f, n)
  <2> HIDE DEF Run
  <2> QED BY <1>3
\* Two runs agree where both are defined.
<1>5. ASSUME NEW n \in Nat, NEW f, Run(f, n), NEW m \in Nat, NEW g, Run(g, m)
      PROVE  \A i \in Nat : i <= n /\ i <= m => f[i] = g[i]
  <2> DEFINE Same == {i \in Nat : i <= n /\ i <= m => f[i] = g[i]}
  <2>1. 0 \in Same
    BY <1>5
  <2>2. ASSUME NEW i \in Nat, i \in Same PROVE i + 1 \in Same
    <3> SUFFICES ASSUME i + 1 <= n, i + 1 <= m PROVE f[i + 1] = g[i + 1]
      OBVIOUS
    <3>1. f[i] = g[i] /\ i + 1 \in 1..n /\ i + 1 \in 1..m /\ (i + 1) - 1 = i
      BY <2>2
    <3>2. f[i + 1] = step[<<i + 1, f[i]>>] /\ g[i + 1] = step[<<i + 1, g[i]>>]
      BY <1>5, <3>1
    <3> QED BY <3>1, <3>2
  <2> HIDE DEF Same
  <2>3. \A i \in Nat : i \in Same
    BY <2>1, <2>2, SetInduction
  <2>4. ASSUME NEW i \in Nat, i \in Same PROVE i <= n /\ i <= m => f[i] = g[i]
    BY <2>4 DEF Same
  <2> HIDE DEF Run
  <2> QED BY <2>3, <2>4
<1> DEFINE run == [n \in Nat |-> CHOOSE f : Run(f, n)]
           all == [n \in Nat |-> run[n][n]]
<1>6. \A n \in Nat : Run(run[n], n)
  <2> HIDE DEF Run
  <2> QED BY <1>4
<1>7. all \in [Nat -> S] /\ all[0] = first
  <2>1. ASSUME NEW n \in Nat PROVE run[n][n] \in S
    <3> HIDE DEF run
    <3>1. run[n] \in [0..n -> S] /\ n \in 0..n
      BY <1>6
    <3> QED BY <3>1
  <2>2. run[0][0] = first
    BY <1>6
  <2>3. all = [n \in Nat |-> run[n][n]]
    OBVIOUS
  <2> HIDE DEF run, all
  <2>4. all \in [Nat -> S]
    BY <2>1, <2>3
  <2>5. all[0] = first
    BY <2>2, <2>3
  <2> QED BY <2>4, <2>5
<1>8. ASSUME NEW n \in Nat \ {0} PROVE all[n] = step[<<n, all[n - 1]>>]
  <2>1. n \in Nat /\ n - 1 \in Nat /\ n \in 1..n /\ n - 1 <= n
    OBVIOUS
  <2>2. Run(run[n], n) /\ Run(run[n - 1], n - 1)
    BY <1>6, <2>1
  <2>3. run[n][n] = step[<<n, run[n][n - 1]>>]
    BY <2>1, <2>2
  <2>4. run[n][n - 1] = run[n - 1][n - 1]
    <3> HIDE DEF Run, run
    <3> QED BY <1>5, <2>1, <2>2
  <2>5. all[n] = run[n][n] /\ all[n - 1] = run[n - 1][n - 1]
    <3> HIDE DEF run
    <3> QED BY <2>1
  <2> HIDE DEF run, all, Run
  <2> QED BY <2>3, <2>4, <2>5
<1> HIDE DEF all
<1> QED BY <1>7, <1>8 DEF RunOf

\* Filtered, unfolded.
LEMMA FilteredRuns ==
  ASSUME NEW list, NEW S
  PROVE  \E kept \in [Nat -> Seq({list[n] : n \in Nat})] :
           /\ kept[0] = <<>>
           /\ \A n \in Nat \ {0} :
                kept[n] = IF list[n] \in S THEN Append(kept[n - 1], list[n]) ELSE kept[n - 1]
           /\ Filtered(list, S) = kept[Len(list)]
<1> DEFINE V == {list[n] : n \in Nat}
           step == [x \in Nat \X Seq(V) |-> IF list[x[1]] \in S THEN Append(x[2], list[x[1]]) ELSE x[2]]
           Unfolds(f) == f = [n \in Nat |-> IF n = 0 THEN <<>>
                                ELSE IF list[n] \in S THEN Append(f[n - 1], list[n]) ELSE f[n - 1]]
           run == CHOOSE f : Unfolds(f)
<1>1. step \in [Nat \X Seq(V) -> Seq(V)]
  <2>1. ASSUME NEW n \in Nat, NEW s \in Seq(V) PROVE Append(s, list[n]) \in Seq(V)
    <3>1. list[n] \in V
      OBVIOUS
    <3> HIDE DEF V
    <3> QED BY <3>1, AppendProperties
  <2> HIDE DEF V
  <2> QED BY <2>1
<1>2. <<>> \in Seq(V)
  BY EmptySeq
<1>3. PICK f \in [Nat -> Seq(V)] : f[0] = <<>> /\ \A n \in Nat \ {0} : f[n] = step[<<n, f[n - 1]>>]
  <2>1. PICK T, st : T = Seq(V) /\ st = step
    OBVIOUS
  <2> HIDE DEF step, V
  <2>2. st \in [Nat \X T -> T] /\ <<>> \in T
    BY <1>1, <1>2, <2>1
  <2>3. PICK f : RunOf(f, T, <<>>, st)
    BY <2>2, RunExists
  <2> QED BY <2>1, <2>3 DEF RunOf
<1>4. \A n \in Nat \ {0} : n - 1 \in Nat
  OBVIOUS
<1>5. \A n \in Nat \ {0} : f[n] = IF list[n] \in S THEN Append(f[n - 1], list[n]) ELSE f[n - 1]
  <2> HIDE DEF V
  <2> QED BY <1>3, <1>4
<1>6. Unfolds(f)
  BY <1>3, <1>5
<1>7. Unfolds(run)
  <2> HIDE DEF Unfolds
  <2> QED BY <1>6
<1>8. Filtered(list, S) = run[Len(list)]
  BY DEF Filtered
<1>9. run[0] = <<>> /\ \A n \in Nat \ {0} :
        run[n] = IF list[n] \in S THEN Append(run[n - 1], list[n]) ELSE run[n - 1]
  <2> HIDE DEF run
  <2> QED BY <1>7
<1>10. run \in [Nat -> Seq(V)]
  <2>1. DOMAIN run = Nat /\ run = [n \in Nat |-> run[n]]
    <3> HIDE DEF run
    <3> QED BY <1>7
  <2> DEFINE Same == {n \in Nat : run[n] = f[n]}
  <2>2. 0 \in Same
    BY <1>3, <1>9
  <2>3. ASSUME NEW n \in Nat, n \in Same PROVE n + 1 \in Same
    <3> HIDE DEF run
    <3>1. n + 1 \in Nat \ {0} /\ (n + 1) - 1 = n
      OBVIOUS
    <3> QED BY <1>5, <1>9, <2>3, <3>1
  <2>4. \A n \in Nat : n \in Same
    <3> HIDE DEF Same
    <3> QED BY <2>2, <2>3, SetInduction
  <2>5. \A n \in Nat : run[n] = f[n]
    <3> HIDE DEF run
    <3> QED BY <2>4
  <2> HIDE DEF run, V
  <2> QED BY <1>3, <2>1, <2>5
<1> HIDE DEF run
<1> QED BY <1>8, <1>9, <1>10


\* Where each element of what a filter keeps comes from: place.
Picks(F, list, S, n, place) ==
  /\ place \in [1..Len(F) -> 1..n]
  /\ \A i \in 1..Len(F) : F[i] = list[place[i]] /\ F[i] \in S
  /\ \A i, j \in 1..Len(F) : i < j => place[i] < place[j]
  /\ \A k \in 1..n : list[k] \in S => \E i \in 1..Len(F) : place[i] = k

\* A filter keeps what is in the set, in its order.
LEMMA FilteredPicks ==
  ASSUME NEW T, NEW list \in Seq(T), NEW S
  PROVE  /\ Filtered(list, S) \in Seq(T)
         /\ \E place : Picks(Filtered(list, S), list, S, Len(list), place)
<1>1. PICK kept \in [Nat -> Seq({list[n] : n \in Nat})] :
           /\ kept[0] = <<>>
           /\ \A n \in Nat \ {0} :
                kept[n] = IF list[n] \in S THEN Append(kept[n - 1], list[n]) ELSE kept[n - 1]
           /\ Filtered(list, S) = kept[Len(list)]
  BY FilteredRuns
<1>2. PICK m \in Nat : m = Len(list) /\ \A i \in 1..m : list[i] \in T
  BY LenProperties, ElementOfSeq
<1> DEFINE Right(n) == kept[n] \in Seq(T) /\ \E place : Picks(kept[n], list, S, n, place)
           Good == {n \in Nat : n <= m => Right(n)}
<1>3. 0 \in Good
  <2>1. kept[0] = <<>> /\ <<>> \in Seq(T) /\ Len(<<>>) = 0
    BY <1>1, EmptySeq
  <2>2. Picks(kept[0], list, S, 0, <<>>)
    BY <2>1 DEF Picks
  <2> HIDE DEF Picks
  <2> QED BY <2>1, <2>2
<1>4. ASSUME NEW n \in Nat, n \in Good PROVE n + 1 \in Good
  <2> SUFFICES ASSUME n + 1 <= m PROVE Right(n + 1)
    OBVIOUS
  <2>1. Right(n) /\ n + 1 \in 1..m /\ (n + 1) - 1 = n /\ n + 1 \in Nat \ {0}
    BY <1>4
  <2>2. PICK s, place, x : s = kept[n] /\ x = list[n + 1] /\ Picks(s, list, S, n, place)
    BY <2>1
  <2>3. s \in Seq(T) /\ x \in T
    BY <1>2, <2>1, <2>2
  <2>4. CASE x \notin S
    <3>1. kept[n + 1] = s
      BY <1>1, <2>1, <2>2, <2>4
    <3>2. Picks(s, list, S, n + 1, place)
      <4>1. PICK l \in Nat : l = Len(s)
        BY <2>3, LenProperties
      <4> QED BY <2>2, <2>4, <4>1 DEF Picks
    <3> HIDE DEF Picks
    <3> QED BY <2>3, <3>1, <3>2
  <2>5. CASE x \in S
    <3>1. PICK t : t = Append(s, x)
      OBVIOUS
    <3>2. kept[n + 1] = t
      BY <1>1, <2>1, <2>2, <2>5, <3>1
    <3>3. PICK l \in Nat : l = Len(s)
      BY <2>3, LenProperties
    <3>4. t \in Seq(T) /\ Len(t) = l + 1 /\ (\A i \in 1..l : t[i] = s[i]) /\ t[l + 1] = x
      BY <2>3, <3>1, <3>3, AppendProperties
    <3> DEFINE more == [i \in 1..(l + 1) |-> IF i = l + 1 THEN n + 1 ELSE place[i]]
    <3>5. place \in [1..l -> 1..n]
      BY <2>2, <3>3 DEF Picks
    <3>6. more \in [1..(l + 1) -> 1..(n + 1)]
      BY <3>5
    <3>7. \A i \in 1..l : more[i] = place[i] /\ place[i] \in 1..n
      BY <3>5
    <3>8. more[l + 1] = n + 1
      OBVIOUS
    <3> HIDE DEF more
    <3>9. \A i \in 1..(l + 1) : t[i] = list[more[i]] /\ t[i] \in S
      <4>1. \A i \in 1..l : t[i] = list[more[i]] /\ t[i] \in S
        BY <2>2, <3>3, <3>4, <3>7 DEF Picks
      <4>2. t[l + 1] = list[more[l + 1]] /\ t[l + 1] \in S
        BY <2>2, <2>5, <3>4, <3>8
      <4> QED BY <4>1, <4>2
    <3>10. ASSUME NEW i \in 1..(l + 1), NEW j \in 1..(l + 1), i < j PROVE more[i] < more[j]
      <4>1. CASE j = l + 1
        <5>1. i \in 1..l /\ more[j] = n + 1
          BY <3>8, <3>10, <4>1
        <5>2. more[i] \in 1..n
          BY <3>7, <5>1
        <5> QED BY <5>1, <5>2
      <4>2. CASE j # l + 1
        <5>1. i \in 1..l /\ j \in 1..l
          BY <3>10, <4>2
        <5>2. place[i] < place[j]
          BY <2>2, <3>3, <3>10, <5>1 DEF Picks
        <5> QED BY <3>7, <5>1, <5>2
      <4> QED BY <4>1, <4>2
    <3>11. ASSUME NEW k \in 1..(n + 1), list[k] \in S PROVE \E i \in 1..(l + 1) : more[i] = k
      <4>1. CASE k = n + 1
        BY <3>8, <4>1
      <4>2. CASE k # n + 1
        <5>1. k \in 1..n
          BY <4>2
        <5>2. PICK i \in 1..l : place[i] = k
          BY <2>2, <3>3, <3>11, <5>1 DEF Picks
        <5>3. i \in 1..(l + 1) /\ more[i] = k
          BY <3>7, <5>2
        <5> QED BY <5>3
      <4> QED BY <4>1, <4>2
    <3>12. Picks(t, list, S, n + 1, more)
      BY <3>4, <3>6, <3>9, <3>10, <3>11 DEF Picks
    <3> HIDE DEF Picks
    <3> QED BY <3>2, <3>4, <3>12
  <2> QED BY <2>4, <2>5
<1>5. \A n \in Nat : n \in Good
  <2> HIDE DEF Good
  <2> QED BY <1>3, <1>4, SetInduction
<1>6. Right(m)
  <2> HIDE DEF Right
  <2> QED BY <1>5
<1> QED BY <1>1, <1>2, <1>6

\* What a filter keeps, and that it keeps it as often as it was there.
LEMMA FilteredKeeps ==
  ASSUME NEW T, NEW list \in Seq(T), NEW S
  PROVE  /\ Filtered(list, S) \in Seq(T)
         /\ ToSet(Filtered(list, S)) = ToSet(list) \cap S
         /\ IsInjective(list) => IsInjective(Filtered(list, S))
<1>1. PICK F : F = Filtered(list, S)
  OBVIOUS
<1>2. F \in Seq(T) /\ \E place : Picks(F, list, S, Len(list), place)
  BY <1>1, FilteredPicks
<1>3. PICK place : Picks(F, list, S, Len(list), place)
  BY <1>2
<1>4. PICK l \in Nat, m \in Nat : l = Len(F) /\ DOMAIN F = 1..l /\ m = Len(list) /\ DOMAIN list = 1..m
  BY <1>2, LenProperties
<1>5. /\ place \in [1..l -> 1..m]
      /\ \A i \in 1..l : F[i] = list[place[i]] /\ F[i] \in S
      /\ \A i, j \in 1..l : i < j => place[i] < place[j]
      /\ \A k \in 1..m : list[k] \in S => \E i \in 1..l : place[i] = k
  BY <1>3, <1>4 DEF Picks
<1>6. {F[i] : i \in 1..l} = {list[i] : i \in 1..m} \cap S
  <2>1. ASSUME NEW x \in {F[i] : i \in 1..l} PROVE x \in {list[i] : i \in 1..m} \cap S
    BY <1>5
  <2>2. ASSUME NEW x \in {list[i] : i \in 1..m} \cap S PROVE x \in {F[i] : i \in 1..l}
    <3>1. PICK k \in 1..m : x = list[k] /\ list[k] \in S
      OBVIOUS
    <3>2. PICK i \in 1..l : place[i] = k
      BY <1>5, <3>1
    <3> QED BY <1>5, <3>1, <3>2
  <2> QED BY <2>1, <2>2
<1>7. ASSUME \A i, j \in 1..m : list[i] = list[j] => i = j, NEW i \in 1..l, NEW j \in 1..l, F[i] = F[j]
      PROVE  i = j
  <2>1. place[i] = place[j]
    BY <1>5, <1>7, SMTT(30)
  <2>2. ~(i < j) /\ ~(j < i)
    BY <1>5, <2>1
  <2> QED BY <2>2
<1>8. ToSet(F) = ToSet(list) \cap S
  BY <1>4, <1>6 DEF ToSet
<1>9. IsInjective(list) => IsInjective(F)
  BY <1>4, <1>7 DEF IsInjective
<1> QED BY <1>1, <1>2, <1>8, <1>9

-----------------------------------------------------------------------------
(* TourList. *)

\* A finite set as a list: each element once.
LEMMA ListOfSet ==
  ASSUME NEW S, IsFiniteSet(S)
  PROVE  /\ SetToSeq(S) \in Seq(S) /\ IsInjective(SetToSeq(S)) /\ ToSet(SetToSeq(S)) = S
<1>1. PICK n \in Nat : n = Cardinality(S) /\ ExistsBijection(1..n, S)
  BY FS_CardinalityType
<1>2. PICK f \in Bijection(1..n, S) : TRUE
  BY <1>1 DEF ExistsBijection
<1>3. f \in [1..n -> S] /\ IsInjective(f)
  BY <1>2 DEF Bijection, Injection
<1>4. PICK s : s = SetToSeq(S)
  OBVIOUS
<1>5. s \in [1..n -> S] /\ IsInjective(s)
  <2>1. s = CHOOSE g \in [1..n -> S] : IsInjective(g)
    BY <1>1, <1>4 DEF SetToSeq
  <2> HIDE DEF IsInjective
  <2> QED BY <1>3, <2>1
<1>6. s \in Injection(1..n, S)
  BY <1>5 DEF Injection
<1>7. IsFiniteSet(1..n) /\ Cardinality(1..n) = n
  BY FS_Interval
<1>8. s \in Surjection(1..n, S)
  BY <1>1, <1>6, <1>7, FS_Injection
<1>9. \A x \in S : \E i \in 1..n : s[i] = x
  BY <1>8 DEF Surjection
<1>10. DOMAIN s = 1..n /\ s \in Seq(S)
  BY <1>5
<1>11. ToSet(s) = S
  BY <1>5, <1>9, <1>10 DEF ToSet
<1> QED BY <1>4, <1>5, <1>10, <1>11

-----------------------------------------------------------------------------
LoadSteps == {"none", "asked", "answered", "body", "listed", "done"}
RequestSteps == {"queued", "sent", "handled", "gone", "failed"}

ListTyped ==
  /\ tours \in Seq(Tours) /\ loading \in BOOLEAN /\ loadFailed \in BOOLEAN
  /\ load \in [1..Loads -> [step : LoadSteps, read : SUBSET Tours, skip : SUBSET Tours]]
  /\ link \in Tours \cup {NoTour}

\* The panel, with the photos of the selected tour or none yet.
PanelRight ==
  /\ selected \in Tours \cup {NoTour} /\ gallery \in Tours \cup {NoTour} /\ panel \in BOOLEAN
  /\ details \subseteq Tours
  /\ GalleryIsSelected

SelectTyped == selectMode \in BOOLEAN /\ checked \subseteq Tours /\ asked \in Seq(Tours)

UndoTyped ==
  /\ pending \subseteq 1..Removals /\ timers \subseteq 1..Removals /\ undone \subseteq 1..Removals
  /\ commits \in [1..Removals -> Nat] /\ batch \in [1..Removals -> Seq(Tours)]
  /\ request \in [1..Removals -> Seq(RequestSteps)]

\* What pends has its timer and has not ended; what was never confirmed neither pends nor ended.
EntriesRight ==
  /\ timers = pending
  /\ \A r \in pending : r \notin undone /\ commits[r] = 0
  /\ \A r \in 1..Removals : batch[r] = <<>> => r \notin pending /\ r \notin undone /\ commits[r] = 0
  /\ EndsOnce

\* A DELETE is of the tour it was made for; once handled, the server no longer holds it.
RequestsRight ==
  /\ stored \subseteq Tours
  /\ \A r \in 1..Removals : request[r] # <<>> =>
       /\ DOMAIN request[r] = DOMAIN batch[r]
       /\ \A i \in DOMAIN request[r] :
            request[r][i] \in {"handled", "gone"} => batch[r][i] \notin stored

PageRight == page \in {"shown", "hidden", "closed"} /\ HiddenHoldsNothing

ListInv ==
  /\ ListTyped /\ PanelRight /\ SelectTyped /\ UndoTyped /\ EntriesRight /\ RequestsRight /\ PageRight

\* A step that touches no removal.
LEMMA Quiet ==
  ASSUME UndoTyped, EntriesRight, RequestsRight, PageRight, UNCHANGED undoVars,
         stored' \subseteq stored, page' = page
  PROVE  UndoTyped' /\ EntriesRight' /\ RequestsRight' /\ PageRight'
<1> USE DEF undoVars
<1>1. UndoTyped'
  BY DEF UndoTyped
<1>2. EntriesRight'
  BY DEF EntriesRight, EndsOnce
<1>3. RequestsRight'
  BY DEF RequestsRight
<1>4. PageRight'
  BY DEF PageRight, HiddenHoldsNothing
<1> QED BY <1>1, <1>2, <1>3, <1>4

\* Removing tours from a list leaves tours.
LEMMA FilteredTours ==
  ASSUME NEW list \in Seq(Tours), NEW S
  PROVE  Filtered(list, S) \in Seq(Tours)
BY FilteredKeeps

\* The steps that load the list keep the invariant.
LEMMA LoadMoves ==
  ASSUME ListInv, NEW l \in 1..Loads,
         LoadTours(l) \/ ServerReads(l) \/ HeadersArrive(l) \/ BodyArrives(l) \/ LoadFails(l)
  PROVE  ListInv'
<1>1. UNCHANGED <<panelVars, selectVars, asked, undoVars>> /\ stored' = stored /\ page' = page
  BY DEF LoadTours, ServerReads, HeadersArrive, BodyArrives, LoadFails
<1>2. PanelRight' /\ SelectTyped'
  BY <1>1 DEF ListInv, PanelRight, SelectTyped, GalleryIsSelected, panelVars, selectVars
<1>3. UndoTyped' /\ EntriesRight' /\ RequestsRight' /\ PageRight'
  BY <1>1, Quiet DEF ListInv
<1>4. load[l].read \subseteq Tours /\ stored \subseteq Tours
  BY DEF ListInv, ListTyped, RequestsRight
<1>5. PendingTours \subseteq Tours
  <2>1. \A r \in pending : batch[r] \in Seq(Tours)
    BY DEF ListInv, UndoTyped
  <2>2. \A r \in pending : Ids(batch[r]) \subseteq Tours
    BY <2>1, ElementOfSeq, LenProperties DEF Ids, ToSet
  <2> QED BY <2>2 DEF PendingTours
<1>6. ListTyped'
  <2>1. CASE LoadTours(l)
    BY <2>1 DEF LoadTours, ListInv, ListTyped, LoadSteps
  <2>2. CASE ServerReads(l)
    BY <2>2, <1>4 DEF ServerReads, ListInv, ListTyped, LoadSteps
  <2>3. CASE HeadersArrive(l)
    BY <2>3, <1>5 DEF HeadersArrive, ListInv, ListTyped, LoadSteps
  <2>4. CASE BodyArrives(l)
    <3>1. ListOrder \in Seq(Tours)
      BY TourListAssumption, ListOfSet DEF ListOrder
    <3>2. tours' \in Seq(Tours)
      BY <2>4, <3>1, FilteredTours DEF BodyArrives
    <3> QED BY <2>4, <3>2 DEF BodyArrives, ListInv, ListTyped, LoadSteps
  <2>5. CASE LoadFails(l)
    <3>1. tours' \in Seq(Tours)
      BY <2>5, EmptySeq DEF LoadFails
    <3> QED BY <2>5, <3>1, ZenonT(60) DEF LoadFails, ListInv, ListTyped, LoadSteps
  <2> QED BY <2>1, <2>2, <2>3, <2>4, <2>5
<1> QED BY <1>2, <1>3, <1>6 DEF ListInv

\* Selecting nothing is a selection.
LEMMA Selected ==
  ASSUME PanelRight, NEW t \in Tours, Select(t) PROVE PanelRight'
BY DEF PanelRight, Select, GalleryIsSelected

\* A closed panel is one that may be.
LEMMA Closed ==
  ASSUME PanelRight, ClosePanel PROVE PanelRight'
BY DEF PanelRight, ClosePanel, GalleryIsSelected

\* The tours of a list are tours.
LEMMA IdsTyped ==
  ASSUME ListTyped PROVE Ids(tours) \subseteq Tours
BY ElementOfSeq, LenProperties DEF ListTyped, Ids, ToSet

\* The step that opens the tour of the link keeps it.
LEMMA DeepLinkMoves ==
  ASSUME ListInv, NEW l \in 1..Loads, OpenDeepLink(l) PROVE ListInv'
<1>1. UNCHANGED <<selectVars, asked, undoVars>> /\ stored' = stored /\ page' = page
  BY DEF OpenDeepLink
<1>2. SelectTyped'
  BY <1>1 DEF ListInv, SelectTyped, selectVars
<1>3. UndoTyped' /\ EntriesRight' /\ RequestsRight' /\ PageRight'
  BY <1>1, Quiet DEF ListInv
<1>4. ListTyped'
  BY DEF OpenDeepLink, ListInv, ListTyped, LoadSteps
<1>5. PanelRight'
  <2>1. CASE link \in Ids(tours)
    BY <2>1, IdsTyped, Selected DEF OpenDeepLink, ListInv
  <2>2. CASE link \notin Ids(tours)
    BY <2>2 DEF OpenDeepLink, ListInv, PanelRight, GalleryIsSelected, panelVars
  <2> QED BY <2>1, <2>2
<1> QED BY <1>2, <1>3, <1>4, <1>5 DEF ListInv

\* Selecting and browsing keep it.
LEMMA BrowseMoves ==
  ASSUME ListInv, NEW t \in Tours, ActivateRow(t) \/ DetailArrives(t) \/ OtherTabDeletes(t)
  PROVE  ListInv'
<1>1. UNCHANGED <<listVars, asked, undoVars>> /\ stored' \subseteq stored /\ page' = page
  BY DEF ActivateRow, DetailArrives, OtherTabDeletes
<1>2. ListTyped'
  BY <1>1 DEF ListInv, ListTyped, listVars
<1>3. UndoTyped' /\ EntriesRight' /\ RequestsRight' /\ PageRight'
  BY <1>1, Quiet DEF ListInv
<1>4. SelectTyped'
  BY <1>1 DEF ActivateRow, DetailArrives, OtherTabDeletes, ListInv, SelectTyped, selectVars, Toggled
<1>5. PanelRight'
  <2>1. CASE ActivateRow(t)
    <3>1. CASE Select(t)
      BY <3>1, Selected DEF ListInv
    <3>2. CASE ClosePanel
      BY <3>2, Closed DEF ListInv
    <3>3. CASE UNCHANGED panelVars
      BY <3>3 DEF ListInv, PanelRight, GalleryIsSelected, panelVars
    <3> QED BY <2>1, <3>1, <3>2, <3>3 DEF ActivateRow
  <2>2. CASE DetailArrives(t)
    BY <2>2 DEF DetailArrives, ListInv, PanelRight, GalleryIsSelected
  <2>3. CASE OtherTabDeletes(t)
    BY <2>3 DEF OtherTabDeletes, ListInv, PanelRight, GalleryIsSelected, panelVars
  <2> QED BY <2>1, <2>2, <2>3
<1> QED BY <1>2, <1>3, <1>4, <1>5 DEF ListInv

\* The dialogs that ask keep it.
LEMMA DialogMoves ==
  ASSUME ListInv,
         CloseDetailPanel \/ EnterSelectMode \/ ExitSelectMode \/ AskRemoval \/ CancelRemoval
  PROVE  ListInv'
<1>1. UNCHANGED <<listVars, undoVars>> /\ stored' = stored /\ page' = page
  BY DEF CloseDetailPanel, EnterSelectMode, ExitSelectMode, AskRemoval, CancelRemoval
<1>2. ListTyped'
  BY <1>1 DEF ListInv, ListTyped, listVars
<1>3. UndoTyped' /\ EntriesRight' /\ RequestsRight' /\ PageRight'
  BY <1>1, Quiet DEF ListInv
<1>4. SelectTyped'
  <2>1. Ids(tours) \subseteq Tours /\ tours \in Seq(Tours)
    BY IdsTyped DEF ListInv, ListTyped
  <2>2. CASE AskRemoval
    <3>1. \A t \in Ids(tours) : <<t>> \in Seq(Tours)
      BY <2>1
    <3>2. Filtered(tours, checked) \in Seq(Tours)
      BY <2>1, FilteredTours
    <3> QED BY <2>2, <3>1, <3>2 DEF AskRemoval, ListInv, SelectTyped, selectVars
  <2>3. CASE CancelRemoval
    BY <2>3, EmptySeq DEF CancelRemoval, ListInv, SelectTyped, selectVars
  <2>4. CASE CloseDetailPanel \/ EnterSelectMode \/ ExitSelectMode
    BY <2>1, <2>4
    DEF CloseDetailPanel, EnterSelectMode, ExitSelectMode, ListInv, SelectTyped, selectVars, Toggled
  <2> QED BY <2>2, <2>3, <2>4
<1>5. PanelRight'
  <2>1. CASE CloseDetailPanel
    BY <2>1, Closed DEF CloseDetailPanel, ListInv
  <2>2. CASE UNCHANGED panelVars
    BY <2>2 DEF ListInv, PanelRight, GalleryIsSelected, panelVars
  <2> QED BY <2>1, <2>2 DEF EnterSelectMode, ExitSelectMode, AskRemoval, CancelRemoval
<1> QED BY <1>2, <1>3, <1>4, <1>5 DEF ListInv

\* The answer to the dialog, which begins a removal, keeps it.
LEMMA ConfirmMoves ==
  ASSUME ListInv, NEW r \in 1..Removals, ConfirmRemoval(r) PROVE ListInv'
<1> USE DEF ConfirmRemoval
<1>1. PICK a \in Seq(Tours) : a = asked /\ a # <<>>
  BY DEF ListInv, SelectTyped
<1>2. /\ batch \in [1..Removals -> Seq(Tours)] /\ batch' = [batch EXCEPT ![r] = a]
      /\ batch[r] = <<>>
  BY <1>1 DEF ListInv, UndoTyped
<1>3. batch' \in [1..Removals -> Seq(Tours)] /\ batch'[r] = a
      /\ \A q \in 1..Removals : q # r => batch'[q] = batch[q]
  BY <1>1, <1>2
<1>4. r \notin pending /\ r \notin undone /\ commits[r] = 0
  BY <1>2 DEF ListInv, EntriesRight
<1>5. request[r] = <<>>
  <2>1. request[r] \in Seq(RequestSteps)
    BY DEF ListInv, UndoTyped
  <2>2. request[r] # <<>> => DOMAIN request[r] = DOMAIN batch[r]
    BY DEF ListInv, RequestsRight
  <2>3. DOMAIN request[r] = 1..Len(request[r]) /\ Len(request[r]) \in Nat /\ Len(<<>>) = 0 /\ DOMAIN <<>> = 1..0
    BY <2>1, LenProperties, EmptySeq
  <2>4. request[r] # <<>> => Len(request[r]) # 0
    BY <2>1, EmptySeq
  <2>5. Len(request[r]) # 0 => 1 \in 1..Len(request[r])
    BY <2>3
  <2> QED BY <1>2, <2>2, <2>3, <2>4, <2>5
<1>6. ListTyped'
  <2>1. tours' \in Seq(Tours)
    BY FilteredTours DEF ListInv, ListTyped, Without
  <2> QED BY <2>1 DEF ListInv, ListTyped
<1>7. PanelRight'
  <2>1. CASE UNCHANGED panelVars
    BY <2>1 DEF ListInv, PanelRight, GalleryIsSelected, panelVars
  <2>2. CASE ClosePanel
    BY <2>2, Closed DEF ListInv
  <2> QED BY <2>1, <2>2
<1>8. SelectTyped'
  BY EmptySeq DEF ListInv, SelectTyped
<1>9. UndoTyped'
  BY <1>3 DEF ListInv, UndoTyped
<1>10. EntriesRight'
  BY <1>1, <1>3, <1>4 DEF ListInv, EntriesRight, EndsOnce
<1>11. RequestsRight'
  BY <1>3, <1>5 DEF ListInv, RequestsRight
<1>12. PageRight'
  BY DEF ListInv, PageRight, HiddenHoldsNothing
<1> QED BY <1>6, <1>7, <1>8, <1>9, <1>10, <1>11, <1>12 DEF ListInv

\* What a step of the removals leaves alone.
LEMMA Frame ==
  ASSUME ListInv, UNCHANGED <<load, loading, loadFailed, link, panelVars, selectVars, asked>>
  PROVE  PanelRight' /\ SelectTyped' /\ (tours' \in Seq(Tours) => ListTyped')
<1>1. PanelRight'
  BY DEF ListInv, PanelRight, GalleryIsSelected, panelVars
<1>2. SelectTyped'
  BY DEF ListInv, SelectTyped, selectVars
<1>3. tours' \in Seq(Tours) => ListTyped'
  BY DEF ListInv, ListTyped
<1> QED BY <1>1, <1>2, <1>3

\* Committing a removal asks the server for each of its tours once.
LEMMA Committed ==
  ASSUME ListInv, NEW committed \in SUBSET pending, Commit(committed), stored' = stored
  PROVE  UndoTyped' /\ EntriesRight' /\ RequestsRight'
<1>1. /\ pending \subseteq 1..Removals /\ timers = pending /\ undone \subseteq 1..Removals
      /\ commits \in [1..Removals -> Nat] /\ batch \in [1..Removals -> Seq(Tours)]
      /\ request \in [1..Removals -> Seq(RequestSteps)]
  BY DEF ListInv, UndoTyped, EntriesRight
<1>2. /\ \A r \in 1..Removals : commits'[r] = commits[r] + (IF r \in committed THEN 1 ELSE 0)
      /\ commits' \in [1..Removals -> Nat]
  BY <1>1 DEF Commit
<1>3. ASSUME NEW r \in 1..Removals, r \in committed
      PROVE  request'[r] \in Seq(RequestSteps) /\ DOMAIN request'[r] = DOMAIN batch[r]
             /\ \A i \in DOMAIN request'[r] : request'[r][i] = "queued"
  <2>1. request'[r] = [i \in DOMAIN batch[r] |-> "queued"]
    BY <1>1, <1>3 DEF Commit
  <2>2. PICK n \in Nat : DOMAIN batch[r] = 1..n
    BY <1>1, LenProperties
  <2> QED BY <2>1, <2>2 DEF RequestSteps
<1>4. \A r \in 1..Removals : r \notin committed => request'[r] = request[r]
  BY <1>1 DEF Commit
<1>5. request' \in [1..Removals -> Seq(RequestSteps)]
  <2>1. request' = [r \in 1..Removals |-> request'[r]]
    BY <1>1 DEF Commit
  <2> QED BY <1>1, <1>3, <1>4, <2>1
<1>6. UndoTyped'
  BY <1>1, <1>2, <1>5 DEF UndoTyped, Commit
<1>7. EntriesRight'
  BY <1>1, <1>2 DEF ListInv, EntriesRight, EndsOnce, Commit
<1>8. RequestsRight'
  BY <1>3, <1>4 DEF ListInv, RequestsRight, Commit
<1> QED BY <1>6, <1>7, <1>8

\* The steps that commit keep it.
LEMMA CommitMoves ==
  ASSUME ListInv, Hide \/ \E r \in 1..Removals : TimerFires(r)
  PROVE  ListInv'
<1>1. CASE Hide
  <2>1. /\ UNCHANGED <<stored, listVars, panelVars, selectVars, asked>>
        /\ page' = "hidden" /\ Commit(pending)
    BY <1>1 DEF Hide
  <2>2. UndoTyped' /\ EntriesRight' /\ RequestsRight'
    BY <2>1, Committed
  <2>3. PageRight'
    BY <2>1 DEF Commit, ListInv, EntriesRight, PageRight, HiddenHoldsNothing
  <2> QED BY <2>1, <2>2, <2>3, Frame DEF ListInv, ListTyped, listVars
<1>2. CASE \E r \in 1..Removals : TimerFires(r)
  <2>1. PICK r \in 1..Removals : TimerFires(r)
    BY <1>2
  <2>2. /\ UNCHANGED <<stored, listVars, panelVars, selectVars, asked, page>>
        /\ Commit({r}) /\ {r} \in SUBSET pending
    BY <2>1 DEF TimerFires, ListInv, EntriesRight
  <2>3. UndoTyped' /\ EntriesRight' /\ RequestsRight'
    BY <2>2, Committed
  <2>4. PageRight'
    BY <2>2 DEF Commit, ListInv, PageRight, HiddenHoldsNothing
  <2> QED BY <2>2, <2>3, <2>4, Frame DEF ListInv, ListTyped, listVars
<1> QED BY <1>1, <1>2

\* Hiding, showing and closing the tab keep it.
LEMMA TabMoves ==
  ASSUME ListInv, Show \/ CloseTab PROVE ListInv'
<1>1. UNCHANGED <<stored, listVars, panelVars, selectVars, asked, undoVars>>
      /\ page = "hidden" /\ page' \in {"shown", "closed"}
  BY DEF Show, CloseTab
<1>2. PanelRight' /\ SelectTyped' /\ ListTyped'
  BY <1>1, Frame DEF ListInv, ListTyped, listVars
<1>3. UndoTyped'
  BY <1>1 DEF ListInv, UndoTyped, undoVars
<1>4. EntriesRight'
  BY <1>1 DEF ListInv, EntriesRight, EndsOnce, undoVars
<1>5. RequestsRight'
  BY <1>1 DEF ListInv, RequestsRight, undoVars
<1>6. PageRight'
  BY <1>1 DEF ListInv, PageRight, HiddenHoldsNothing, undoVars
<1> QED BY <1>2, <1>3, <1>4, <1>5, <1>6 DEF ListInv

\* Undoing keeps it.
LEMMA UndoMoves ==
  ASSUME ListInv, NEW r \in 1..Removals, Undo(r) PROVE ListInv'
<1>1. PanelRight' /\ SelectTyped' /\ ListTyped'
  <2>1. tours' \in Seq(Tours)
    <3>1. tours \in Seq(Tours) /\ batch[r] \in Seq(Tours)
      BY DEF ListInv, ListTyped, UndoTyped
    <3> QED BY <3>1, ConcatProperties DEF Undo
  <2> QED BY <2>1, Frame DEF Undo
<1>2. UndoTyped'
  BY DEF Undo, ListInv, UndoTyped
<1>3. EntriesRight'
  BY DEF Undo, ListInv, UndoTyped, EntriesRight, EndsOnce
<1>4. RequestsRight'
  BY DEF Undo, ListInv, RequestsRight
<1>5. PageRight'
  BY DEF Undo, ListInv, PageRight, HiddenHoldsNothing
<1> QED BY <1>1, <1>2, <1>3, <1>4, <1>5 DEF ListInv

\* A step of one DELETE.
LEMMA RequestMoves ==
  ASSUME ListInv, NEW r \in 1..Removals, SendDelete(r) \/ ServerDeletes(r) \/ DeleteAnswered(r)
  PROVE  ListInv'
<1>1. UNCHANGED <<listVars, panelVars, selectVars, asked, batch, pending, timers, undone, commits, page>>
  BY DEF SendDelete, ServerDeletes, DeleteAnswered
<1>2. PICK i \in DOMAIN request[r], step \in RequestSteps :
        /\ request' = [request EXCEPT ![r][i] = step]
        /\ \/ stored' = stored /\ step \notin {"handled", "gone"}
           \/ stored' = stored /\ request[r][i] \in {"handled", "gone"}
           \/ stored' = stored \ {batch[r][i]}
  BY DEF SendDelete, ServerDeletes, DeleteAnswered, InFlight, RequestSteps
<1>3. request \in [1..Removals -> Seq(RequestSteps)]
  BY DEF ListInv, UndoTyped
<1>4. PICK s \in Seq(RequestSteps), n \in Nat :
        s = request[r] /\ n = Len(s) /\ DOMAIN s = 1..n /\ s \in [1..n -> RequestSteps] /\ i \in 1..n
  BY <1>2, <1>3, LenProperties
<1>5. PICK t : t = [s EXCEPT ![i] = step]
  OBVIOUS
<1>6. t \in [1..n -> RequestSteps] /\ t[i] = step /\ \A j \in 1..n : j # i => t[j] = s[j]
  BY <1>4, <1>5
<1>7. t \in Seq(RequestSteps) /\ DOMAIN t = 1..n
  BY <1>6
<1>8. request' \in [1..Removals -> Seq(RequestSteps)] /\ request'[r] = t
      /\ \A q \in 1..Removals : q # r => request'[q] = request[q]
  <2>1. request' = [request EXCEPT ![r] = t]
    BY <1>2, <1>4, <1>5
  <2> QED BY <1>3, <1>7, <2>1
<1>9. PanelRight' /\ SelectTyped' /\ ListTyped'
  BY <1>1, Frame DEF ListInv, ListTyped, listVars
<1>10. UndoTyped'
  BY <1>1, <1>8 DEF ListInv, UndoTyped
<1>11. EntriesRight'
  BY <1>1 DEF ListInv, EntriesRight, EndsOnce
<1>12. RequestsRight'
  <2>1. stored' \subseteq stored
    BY <1>2
  <2>2. s # <<>>
    BY <1>4, EmptySeq
  <2>3. /\ DOMAIN s = DOMAIN batch[r]
        /\ \A j \in 1..n : s[j] \in {"handled", "gone"} => batch[r][j] \notin stored
    BY <1>4, <2>2 DEF ListInv, RequestsRight
  <2>4. /\ DOMAIN t = DOMAIN batch[r]
        /\ \A j \in 1..n : t[j] \in {"handled", "gone"} => batch[r][j] \notin stored'
    BY <1>2, <1>4, <1>6, <1>7, <2>1, <2>3
  <2>5. \A q \in 1..Removals : q # r /\ request[q] # <<>> =>
          /\ DOMAIN request[q] = DOMAIN batch[q]
          /\ \A j \in DOMAIN request[q] : request[q][j] \in {"handled", "gone"} => batch[q][j] \notin stored'
    BY <2>1 DEF ListInv, RequestsRight
  <2> QED BY <1>1, <1>7, <1>8, <2>1, <2>4, <2>5 DEF ListInv, RequestsRight
<1>13. PageRight'
  BY <1>1 DEF ListInv, PageRight, HiddenHoldsNothing
<1> QED BY <1>9, <1>10, <1>11, <1>12, <1>13 DEF ListInv

\* Settling a removal keeps it.
LEMMA BatchMoves ==
  ASSUME ListInv, NEW r \in 1..Removals, BatchSettles(r) PROVE ListInv'
<1> USE DEF BatchSettles
<1>1. request \in [1..Removals -> Seq(RequestSteps)] /\ batch[r] \in Seq(Tours) /\ tours \in Seq(Tours)
  BY DEF ListInv, ListTyped, UndoTyped
<1>2. request' \in [1..Removals -> Seq(RequestSteps)] /\ request'[r] = <<>>
      /\ \A q \in 1..Removals : q # r => request'[q] = request[q]
  BY <1>1, EmptySeq
<1>3. PanelRight' /\ SelectTyped' /\ ListTyped'
  <2>1. Filtered(batch[r], Failures(r)) \in Seq(Tours)
    BY <1>1, FilteredTours
  <2>2. tours' \in Seq(Tours)
    BY <1>1, <2>1, ConcatProperties
  <2> QED BY <2>2, Frame
<1>4. UndoTyped'
  BY <1>2 DEF ListInv, UndoTyped
<1>5. EntriesRight'
  BY DEF ListInv, EntriesRight, EndsOnce
<1>6. RequestsRight'
  BY <1>2 DEF ListInv, RequestsRight
<1>7. PageRight'
  BY DEF ListInv, PageRight, HiddenHoldsNothing
<1> QED BY <1>3, <1>4, <1>5, <1>6, <1>7 DEF ListInv

\* A new page has it.
LEMMA ListStarts == TourListInit => ListInv
<1> SUFFICES ASSUME TourListInit PROVE ListInv
  OBVIOUS
<1> USE DEF TourListInit
<1>1. ListTyped
  BY EmptySeq DEF ListTyped, LoadSteps
<1>2. PanelRight /\ SelectTyped
  BY EmptySeq DEF PanelRight, SelectTyped, GalleryIsSelected
<1>3. UndoTyped
  BY EmptySeq DEF UndoTyped
<1>4. EntriesRight
  BY DEF EntriesRight, EndsOnce
<1>5. RequestsRight /\ PageRight
  BY DEF RequestsRight, PageRight, HiddenHoldsNothing
<1> QED BY <1>1, <1>2, <1>3, <1>4, <1>5 DEF ListInv

\* Every step keeps it.
LEMMA ListStays == ListInv /\ [TourListNext]_tourListVars => ListInv'
<1> SUFFICES ASSUME ListInv, [TourListNext]_tourListVars PROVE ListInv'
  OBVIOUS
<1>1. CASE Loading
  BY <1>1, LoadMoves, DeepLinkMoves DEF Loading
<1>2. CASE Removing
  BY <1>2, ConfirmMoves, CommitMoves, UndoMoves, RequestMoves, BatchMoves DEF Removing
<1>3. CASE Browsing
  BY <1>3, BrowseMoves DEF Browsing
<1>4. CASE CloseDetailPanel \/ EnterSelectMode \/ ExitSelectMode \/ AskRemoval \/ CancelRemoval
  BY <1>4, DialogMoves
<1>5. CASE Hide \/ Show \/ CloseTab
  BY <1>5, CommitMoves, TabMoves
<1>6. CASE UNCHANGED tourListVars
  <2>1. UNCHANGED <<stored, listVars, panelVars, selectVars, asked, undoVars, page>>
    BY <1>6 DEF tourListVars
  <2>2. PanelRight' /\ SelectTyped' /\ ListTyped'
    BY <2>1, Frame DEF ListInv, ListTyped, listVars
  <2> QED BY <2>1, <2>2, Quiet DEF ListInv
<1> QED BY <1>1, <1>2, <1>3, <1>4, <1>5, <1>6 DEF TourListNext

\* It always holds.
LEMMA ListInvariant == TourListSpec => []ListInv
BY ListStarts, ListStays, PTL DEF TourListSpec

\* A removal ends once and takes nothing with it, however many there are,
\* whatever the panel, refetches and the tab do meanwhile (pendingActions.js,
\* tourRemoval.js).
THEOREM RemovalsAlwaysSound == TourListSpec => []RemovalsSound
<1>1. ListInv => RemovalsSound
  <2>1. ListInv => TourListTypeOK
    BY DEF ListInv, ListTyped, PanelRight, SelectTyped, UndoTyped, RequestsRight, PageRight,
           LoadSteps, RequestSteps, TourListTypeOK
  <2>2. ListInv => EndsOnce /\ HiddenHoldsNothing /\ GalleryIsSelected
    BY DEF ListInv, EntriesRight, PageRight, PanelRight
  <2> QED BY <2>1, <2>2 DEF RemovalsSound
<1> QED BY <1>1, ListInvariant, PTL

\* A step that empties the requests of a removal settles it.
LEMMA Emptied ==
  ASSUME ListInv, [TourListNext]_tourListVars, NEW r \in 1..Removals,
         request[r] # <<>>, request'[r] = <<>>
  PROVE  BatchSettles(r)
<1>1. request \in [1..Removals -> Seq(RequestSteps)] /\ batch \in [1..Removals -> Seq(Tours)]
  BY DEF ListInv, UndoTyped
<1>2. request' # request
  OBVIOUS
<1>3. ASSUME NEW committed \in SUBSET pending, Commit(committed) PROVE FALSE
  <2>1. r \in committed
    BY <1>1, <1>3 DEF Commit
  <2>2. batch[r] # <<>> /\ batch[r] \in Seq(Tours)
    BY <1>1, <2>1 DEF ListInv, EntriesRight
  <2>3. request'[r] = [i \in DOMAIN batch[r] |-> "queued"]
    BY <1>1, <1>3, <2>1 DEF Commit
  <2>4. 1 \in DOMAIN batch[r]
    BY <2>2, EmptySeq, LenProperties
  <2>5. DOMAIN request'[r] = DOMAIN batch[r] /\ DOMAIN <<>> = {}
    BY <2>3
  <2> QED BY <2>4, <2>5
<1>4. ASSUME NEW q \in 1..Removals, SendDelete(q) \/ ServerDeletes(q) \/ DeleteAnswered(q) PROVE FALSE
  <2>1. PICK i \in DOMAIN request[q], step \in RequestSteps : request' = [request EXCEPT ![q][i] = step]
    BY <1>4 DEF SendDelete, ServerDeletes, DeleteAnswered, InFlight, RequestSteps
  <2>2. DOMAIN request'[r] = DOMAIN request[r]
    BY <1>1, <2>1
  <2>3. 1 \in DOMAIN request[r]
    BY <1>1, EmptySeq, LenProperties
  <2>4. DOMAIN <<>> = {}
    OBVIOUS
  <2> QED BY <2>2, <2>3, <2>4
<1>5. ASSUME NEW q \in 1..Removals, BatchSettles(q) PROVE q = r
  BY <1>1, <1>5 DEF BatchSettles
<1>6. ASSUME NEW q \in 1..Removals, ConfirmRemoval(q) \/ TimerFires(q) \/ Undo(q) PROVE FALSE
  <2>1. CASE TimerFires(q)
    BY <1>3, <2>1 DEF TimerFires, ListInv, EntriesRight
  <2> QED BY <1>2, <1>6, <2>1 DEF ConfirmRemoval, Undo
<1>7. CASE Removing
  BY <1>4, <1>5, <1>6, <1>7 DEF Removing
<1>8. CASE Loading
  BY <1>2, <1>8 DEF Loading, LoadTours, ServerReads, HeadersArrive, BodyArrives, LoadFails, OpenDeepLink, undoVars
<1>9. CASE Browsing
  BY <1>2, <1>9 DEF Browsing, ActivateRow, DetailArrives, OtherTabDeletes, undoVars
<1>10. CASE CloseDetailPanel \/ EnterSelectMode \/ ExitSelectMode \/ AskRemoval \/ CancelRemoval
  BY <1>2, <1>10 DEF CloseDetailPanel, EnterSelectMode, ExitSelectMode, AskRemoval, CancelRemoval, undoVars
<1>11. CASE Hide
  BY <1>3, <1>11 DEF Hide
<1>12. CASE Show \/ CloseTab \/ UNCHANGED tourListVars
  BY <1>2, <1>12 DEF Show, CloseTab, tourListVars, undoVars
<1> QED BY <1>7, <1>8, <1>9, <1>10, <1>11, <1>12 DEF TourListNext

\* Once the DELETEs of a removal have settled, each of its tours is gone from
\* the server or in the list again, for any number of tours and removals
\* (tourRemoval.js, deleteOnServer).
THEOREM SettledIsRight == TourListSpec => SettledIsGoneOrBack
<1>1. ASSUME ListInv, [TourListNext]_tourListVars, NEW r \in 1..Removals,
             request[r] # <<>>, request'[r] = <<>>
      PROVE  Ids(batch[r]) \cap stored \subseteq Ids(tours')
  <2>1. BatchSettles(r)
    BY <1>1, Emptied
  <2>2. PICK b \in Seq(Tours), f \in {Filtered(batch[r], Failures(r))} : b = batch[r] /\ f = Filtered(b, Failures(r))
    BY <1>1 DEF ListInv, UndoTyped
  <2>3. f \in Seq(Tours) /\ ToSet(f) = ToSet(b) \cap Failures(r)
    BY <2>2, FilteredKeeps
  <2>4. ASSUME NEW t \in ToSet(b) \cap stored PROVE t \in ToSet(f)
    <3>1. PICK i \in DOMAIN b : t = b[i]
      BY DEF ToSet
    <3>2. i \in DOMAIN request[r] /\ request[r][i] \notin {"handled", "gone"}
      BY <1>1, <2>2, <3>1 DEF ListInv, RequestsRight
    <3>3. request[r][i] = "failed"
      BY <2>1, <3>2 DEF BatchSettles, Settled
    <3>4. t \in Failures(r)
      BY <2>2, <3>1, <3>2, <3>3 DEF Failures
    <3> QED BY <2>3, <3>4
  <2>5. tours' = tours \o f /\ tours \in Seq(Tours)
    BY <1>1, <2>1, <2>2 DEF BatchSettles, ListInv, ListTyped
  <2>6. ToSet(f) \subseteq ToSet(tours')
    <3>1. PICK a \in Seq(Tours), c \in {tours \o f} : a = tours /\ c = a \o f /\ c = tours'
      BY <2>5
    <3>2. PICK n \in Nat, m \in Nat : n = Len(a) /\ m = Len(f) /\ DOMAIN f = 1..m
      BY <2>3, LenProperties
    <3>3. c \in Seq(Tours) /\ Len(c) = n + m
          /\ \A k \in 1..(n + m) : c[k] = IF k <= n THEN a[k] ELSE f[k - n]
      <4>1. a \o f \in Seq(Tours) /\ Len(a \o f) = Len(a) + Len(f)
        BY <2>3, ConcatProperties, Zenon
      <4>2. \A k \in 1..(Len(a) + Len(f)) : (a \o f)[k] = IF k <= Len(a) THEN a[k] ELSE f[k - Len(a)]
        BY <2>3, ConcatProperties, Zenon
      <4>3. \A k \in 1..(n + m) : c[k] = IF k <= n THEN a[k] ELSE f[k - n]
        BY <3>1, <3>2, <4>2, Zenon
      <4> QED BY <3>1, <3>2, <4>1, <4>3, Zenon
    <3>4. DOMAIN c = 1..(n + m) /\ \A i \in 1..m : n + i \in 1..(n + m) /\ c[n + i] = f[i]
      <4>1. DOMAIN c = 1..(n + m)
        BY <3>3, LenProperties
      <4>2. ASSUME NEW i \in 1..m PROVE n + i \in 1..(n + m) /\ c[n + i] = f[i]
        <5>1. n + i \in 1..(n + m) /\ ~(n + i <= n) /\ (n + i) - n = i
          OBVIOUS
        <5> QED BY <3>3, <5>1
      <4> QED BY <4>1, <4>2
    <3>5. ToSet(f) \subseteq ToSet(c)
      BY <3>2, <3>4, ZenonT(90) DEF ToSet
    <3> QED BY <3>1, <3>5
  <2> QED BY <2>2, <2>4, <2>6 DEF Ids
<1>2. ListInv /\ [TourListNext]_tourListVars =>
        [\A r \in 1..Removals : request[r] # <<>> /\ request'[r] = <<>> =>
           Ids(batch[r]) \cap stored \subseteq Ids(tours')]_tourListVars
  BY <1>1
<1> QED BY <1>2, ListInvariant, PTL DEF TourListSpec, SettledIsGoneOrBack

-----------------------------------------------------------------------------
(* TourData. *)

Answer == [photos : Seq(Photos), known : BOOLEAN]
ObjectType == [images : Seq(Photos), loaded : BOOLEAN, detailLoaded : BOOLEAN, fresh : BOOLEAN]
LoadType == [of : 1..Objects, early : BOOLEAN, asked : BOOLEAN, answer : Answer]
DetailType == [step : {"idle", "asked"}, of : 1..Objects, answer : Answer, retries : BOOLEAN]
RemovalType == [of : 1..Objects, step :
                  {"none", "pending", "undone", "sent", "handled", "gone", "failed"}]

\* images has every photo with coordinates of which no removal, of those in taken, began.
HasPins(images, taken) == \A p \in Pinned : taken[p].step = "none" => p \in Range(images)

\* A list of photos, each once; answers and loaded lists also have the pins.
Once(images) == images \in Seq(Photos) /\ IsInjective(images)
ObjectRight(v, taken) ==
  v \in ObjectType /\ Once(v.images) /\ (v.fresh \/ v.detailLoaded => HasPins(v.images, taken))
AnswerRight(a, taken) == a \in Answer /\ Once(a.photos) /\ (a.known => HasPins(a.photos, taken))

ObjectsRight ==
  object \in [1..Objects -> ObjectType] /\ \A o \in 1..Objects : ObjectRight(object[o], removal)
QueueRight ==
  queue \in Seq(LoadType) /\ \A i \in DOMAIN queue : AnswerRight(queue[i].answer, removal)
DetailsRight ==
  detail \in [1..DetailLoads -> DetailType]
    /\ \A d \in 1..DetailLoads : AnswerRight(detail[d].answer, removal)
\* The server holds what is not being removed.
RemovalsRight ==
  /\ removal \in [Photos -> RemovalType] /\ server \subseteq Photos
  /\ \A p \in Photos : removal[p].step = "none" => p \in server
BoxRight ==
  /\ boxOpen \in BOOLEAN /\ box \in Seq(Photos) /\ at \in Nat \ {0} /\ boxAsks \subseteq Photos
  /\ LightboxInRange
PlaceRight == current \in 1..Objects /\ open \in BOOLEAN

DataInv ==
  ObjectsRight /\ QueueRight /\ DetailsRight /\ RemovalsRight /\ BoxRight /\ PlaceRight

\* No removal that began is forgotten.
Begun == \A p \in Photos : removal'[p].step = "none" => removal[p].step = "none"

\* A list with the pins keeps them, as removals are never forgotten.
LEMMA PinsStay ==
  ASSUME Begun, NEW images, HasPins(images, removal)
  PROVE  HasPins(images, removal')
BY DEF Begun, HasPins, Photos

\* A step that leaves the tour objects alone keeps what they hold.
LEMMA ObjectsStay ==
  ASSUME ObjectsRight, Begun, object' = object
  PROVE  ObjectsRight'
<1>1. \A o \in 1..Objects : ObjectRight(object[o], removal')
  BY PinsStay DEF ObjectsRight, ObjectRight
<1> QED BY <1>1 DEF ObjectsRight

\* A step that sets one object to a right one keeps it.
LEMMA ObjectSet ==
  ASSUME ObjectsRight, Begun, NEW o \in 1..Objects, NEW v, ObjectRight(v, removal'),
         object' = [object EXCEPT ![o] = v]
  PROVE  ObjectsRight'
<1>1. \A q \in 1..Objects : ObjectRight(object[q], removal')
  BY PinsStay DEF ObjectsRight, ObjectRight
<1>2. object \in [1..Objects -> ObjectType] /\ v \in ObjectType
  BY DEF ObjectsRight, ObjectRight
<1>3. object' \in [1..Objects -> ObjectType] /\ object'[o] = v
      /\ \A q \in 1..Objects : q # o => object'[q] = object[q]
  BY <1>2
<1>4. \A q \in 1..Objects : ObjectRight(object'[q], removal')
  BY <1>1, <1>3
<1> QED BY <1>3, <1>4 DEF ObjectsRight

\* An answer that was right stays right.
LEMMA AnswersStay ==
  ASSUME Begun, NEW a, AnswerRight(a, removal) PROVE AnswerRight(a, removal')
BY PinsStay DEF AnswerRight

\* A step that leaves the queue alone keeps it.
LEMMA QueueStays ==
  ASSUME QueueRight, Begun, queue' = queue
  PROVE  QueueRight'
<1>1. \A i \in DOMAIN queue : AnswerRight(queue[i].answer, removal')
  BY AnswersStay DEF QueueRight
<1> QED BY <1>1 DEF QueueRight

\* A step that leaves the loads of details alone keeps them.
LEMMA DetailsStay ==
  ASSUME DetailsRight, Begun, detail' = detail
  PROVE  DetailsRight'
<1>1. \A d \in 1..DetailLoads : AnswerRight(detail[d].answer, removal')
  BY AnswersStay DEF DetailsRight
<1> QED BY <1>1 DEF DetailsRight

\* A step that sets one load to a right one keeps them.
LEMMA DetailSet ==
  ASSUME DetailsRight, NEW d \in 1..DetailLoads, NEW v \in DetailType,
         AnswerRight(v.answer, removal), detail' = [detail EXCEPT ![d] = v], removal' = removal
  PROVE  DetailsRight'
<1>1. detail' \in [1..DetailLoads -> DetailType] /\ detail'[d] = v
      /\ \A e \in 1..DetailLoads : e # d => detail'[e] = detail[e]
  BY DEF DetailsRight
<1>2. \A e \in 1..DetailLoads : AnswerRight(detail'[e].answer, removal)
  BY <1>1 DEF DetailsRight
<1> QED BY <1>1, <1>2 DEF DetailsRight

\* A step that leaves the removals alone keeps them.
LEMMA RemovalsStay ==
  ASSUME RemovalsRight, server' = server, removal' = removal
  PROVE  RemovalsRight' /\ Begun
BY DEF RemovalsRight, Begun

\* A step that takes one removal on keeps them.
LEMMA RemovalSet ==
  ASSUME RemovalsRight, NEW p \in Photos, NEW v \in RemovalType, v.step # "none",
         removal' = [removal EXCEPT ![p] = v], server' \in {server, server \ {p}}
  PROVE  RemovalsRight' /\ Begun
<1>1. removal' \in [Photos -> RemovalType] /\ removal'[p] = v
      /\ \A q \in Photos : q # p => removal'[q] = removal[q]
  BY DEF RemovalsRight
<1> QED BY <1>1 DEF RemovalsRight, Begun

\* A step that leaves the lightbox alone keeps it.
LEMMA BoxStays ==
  ASSUME BoxRight, UNCHANGED boxVars PROVE BoxRight'
BY DEF BoxRight, LightboxInRange, boxVars

-----------------------------------------------------------------------------
\* What the server answers has each of its photos once, with the pins.
LEMMA ServerListRight ==
  ASSUME RemovalsRight
  PROVE  /\ Once(ServerList) /\ HasPins(ServerList, removal)
         /\ Once(Filtered(ServerList, Pinned)) /\ HasPins(Filtered(ServerList, Pinned), removal)
<1>1. IsFiniteSet(Photos)
  BY TourDataAssumption, FS_Union DEF Photos
<1>2. PICK all : all = SetToSeq(Photos) /\ all \in Seq(Photos) /\ IsInjective(all) /\ ToSet(all) = Photos
  BY <1>1, ListOfSet
<1>3. PICK list : list = ServerList /\ list = Filtered(all, server)
  BY <1>2 DEF ServerList
<1>4. list \in Seq(Photos) /\ IsInjective(list) /\ ToSet(list) = Photos \cap server
  BY <1>2, <1>3, FilteredKeeps
<1>5. PICK pins : pins = Filtered(list, Pinned)
  OBVIOUS
<1>6. pins \in Seq(Photos) /\ IsInjective(pins) /\ ToSet(pins) = (Photos \cap server) \cap Pinned
  BY <1>4, <1>5, FilteredKeeps
<1>7. \A s : ToSet(s) = Range(s)
  BY DEF ToSet, Range
<1>8. HasPins(list, removal) /\ HasPins(pins, removal)
  BY <1>4, <1>6, <1>7 DEF HasPins, RemovalsRight, Photos
<1> QED BY <1>3, <1>4, <1>5, <1>6, <1>8 DEF Once

\* An object and a load that hold nothing are right.
LEMMA BlankRight ==
  AnswerRight(Unread, removal) /\ ObjectRight(Blank, removal) /\ Idle \in DetailType
<1>1. Once(<<>>)
  BY EmptySeq DEF Once, IsInjective
<1>2. 1 \in 1..Objects
  BY TourDataAssumption
<1> QED BY <1>1, <1>2, EmptySeq
        DEF AnswerRight, ObjectRight, Unread, Blank, Idle, DetailType, Answer, ObjectType

\* An index cut to a list is an index of it.
LEMMA Clamped ==
  ASSUME NEW i \in Nat \ {0}, NEW length \in Nat
  PROVE  /\ clampIndex(i, length) \in Nat \ {0}
         /\ length # 0 => clampIndex(i, length) \in 1..length
BY DEF clampIndex

\* The render queue of the map.
LEMMA MapMoves ==
  ASSUME DataInv, MapStarts \/ MapApplies \/ MapFails \/ (\E early \in BOOLEAN : RenderAll(early))
                    \/ \E i \in 1..MapLoads : MapRead(i)
  PROVE  DataInv'
<1>1. UNCHANGED <<server, current, open, detail, removal, boxVars>>
  BY DEF MapStarts, MapApplies, MapFails, RenderAll, MapRead
<1>2. RemovalsRight' /\ Begun
  BY <1>1, RemovalsStay DEF DataInv
<1>3. DetailsRight' /\ BoxRight' /\ PlaceRight'
  BY <1>1, <1>2, DetailsStay, BoxStays DEF DataInv, PlaceRight
<1>4. queue \in Seq(LoadType) /\ \A i \in DOMAIN queue : AnswerRight(queue[i].answer, removal)
  BY DEF DataInv, QueueRight
<1>5. PICK q \in Seq(LoadType), n \in Nat : q = queue /\ n = Len(q) /\ DOMAIN q = 1..n
  BY <1>4, LenProperties
<1>6. \A i \in 1..n : q[i] \in LoadType /\ AnswerRight(q[i].answer, removal)
  BY <1>4, <1>5, ElementOfSeq
<1>7. \A i \in 1..n : /\ q[i].of \in 1..Objects
                      /\ q[i].answer \in Answer
                      /\ q[i] = [of |-> q[i].of, early |-> q[i].early, asked |-> q[i].asked, answer |-> q[i].answer]
  BY <1>6 DEF LoadType
<1>8. ASSUME queue # <<>>
      PROVE  /\ 1 \in 1..n /\ Head(queue) = q[1]
             /\ (queue' = Tail(queue) => QueueRight')
  <2>1. 1 \in 1..n /\ Head(queue) = q[1]
    BY <1>5, <1>8, EmptySeq
  <2>2. PICK t : t = Tail(q)
    OBVIOUS
  <2>3. t \in Seq(LoadType) /\ Len(t) = n - 1 /\ \A i \in 1..(n - 1) : t[i] = q[i + 1]
    BY <1>5, <1>8, <2>2, HeadTailProperties
  <2>4. DOMAIN t = 1..(n - 1)
    BY <2>3, LenProperties
  <2>5. \A i \in 1..(n - 1) : i + 1 \in 1..n
    BY <1>5
  <2>6. \A i \in DOMAIN t : AnswerRight(t[i].answer, removal)
    BY <1>6, <2>3, <2>4, <2>5
  <2> QED BY <1>1, <1>5, <2>1, <2>2, <2>3, <2>6 DEF QueueRight
<1>9. ASSUME NEW i \in 1..n, NEW v \in LoadType, AnswerRight(v.answer, removal), queue' = [queue EXCEPT ![i] = v]
      PROVE  QueueRight'
  <2>1. PICK t : t = [q EXCEPT ![i] = v]
    OBVIOUS
  <2>2. q \in [1..n -> LoadType]
    BY <1>5
  <2>3. t \in [1..n -> LoadType] /\ t[i] = v /\ \A j \in 1..n : j # i => t[j] = q[j]
    BY <1>9, <2>1, <2>2
  <2>4. t \in Seq(LoadType) /\ DOMAIN t = 1..n
    BY <2>3
  <2> QED BY <1>1, <1>5, <1>6, <1>9, <2>1, <2>3, <2>4 DEF QueueRight
<1>10. CASE \E early \in BOOLEAN : RenderAll(early)
  <2>1. PICK early \in BOOLEAN : RenderAll(early)
    BY <1>10
  <2>2. PICK v, t : v = [of |-> current, early |-> early, asked |-> FALSE, answer |-> Unread]
                    /\ t = Append(q, v)
    OBVIOUS
  <2>3. v \in LoadType /\ AnswerRight(v.answer, removal)
    BY <2>2, BlankRight DEF LoadType, AnswerRight, DataInv, PlaceRight
  <2>4. t \in Seq(LoadType) /\ Len(t) = n + 1 /\ (\A i \in 1..n : t[i] = q[i]) /\ t[n + 1] = v
    BY <1>5, <2>2, <2>3, AppendProperties
  <2>5. DOMAIN t = 1..(n + 1)
    BY <2>4, LenProperties
  <2>6. \A i \in 1..(n + 1) : i = n + 1 \/ i \in 1..n
    BY <1>5
  <2>7. \A i \in DOMAIN t : AnswerRight(t[i].answer, removal)
    BY <1>6, <2>3, <2>4, <2>5, <2>6
  <2>8. queue' = t /\ object' = object
    BY <1>5, <2>1, <2>2 DEF RenderAll
  <2>9. QueueRight'
    BY <1>1, <2>4, <2>7, <2>8 DEF QueueRight
  <2> QED BY <1>2, <1>3, <2>8, <2>9, ObjectsStay DEF DataInv
<1>11. CASE MapStarts
  <2>1. queue # <<>> /\ object' = object
    BY <1>11 DEF MapStarts
  <2>2. CASE queue' = [queue EXCEPT ![1].asked = TRUE]
    <3>1. PICK v : v = [q[1] EXCEPT !.asked = TRUE]
      OBVIOUS
    <3>2. q[1] \in LoadType
      BY <1>6, <1>8, <2>1
    <3>3. v \in LoadType /\ v.answer = q[1].answer
      BY <3>1, <3>2 DEF LoadType
    <3>4. queue' = [queue EXCEPT ![1] = v]
      BY <1>5, <2>2, <3>1
    <3>5. QueueRight'
      BY <1>6, <1>8, <1>9, <2>1, <3>3, <3>4
    <3> QED BY <1>2, <1>3, <2>1, <3>5, ObjectsStay DEF DataInv
  <2>3. CASE queue' = Tail(queue)
    BY <1>2, <1>3, <1>8, <2>1, <2>3, ObjectsStay DEF DataInv
  <2> QED BY <1>11, <2>2, <2>3 DEF MapStarts
<1>12. CASE \E i \in 1..MapLoads : MapRead(i)
  <2>1. PICK i \in 1..n : queue' = [queue EXCEPT ![i].answer = Read(Filtered(ServerList, Pinned))]
                          /\ object' = object
    BY <1>5, <1>12 DEF MapRead
  <2>2. PICK a : a = Read(Filtered(ServerList, Pinned)) /\ AnswerRight(a, removal)
    <3>1. PICK pins : pins = Filtered(ServerList, Pinned) /\ Once(pins) /\ HasPins(pins, removal)
      BY ServerListRight DEF DataInv
    <3>2. AnswerRight(Read(pins), removal)
      BY <3>1 DEF AnswerRight, Answer, Read, Once
    <3> QED BY <3>1, <3>2
  <2>3. PICK v : v = [of |-> q[i].of, early |-> q[i].early, asked |-> q[i].asked, answer |-> a]
    OBVIOUS
  <2>4. v \in LoadType /\ v.answer = a
    BY <1>6, <2>2, <2>3 DEF LoadType, AnswerRight
  <2>5. [q[i] EXCEPT !.answer = a] = v
    BY <1>6, <2>2, <2>3 DEF LoadType, AnswerRight
  <2>6. queue' = [queue EXCEPT ![i] = v]
    BY <1>5, <2>1, <2>2, <2>5
  <2>7. QueueRight'
    BY <1>9, <2>2, <2>4, <2>6
  <2> QED BY <1>2, <1>3, <2>1, <2>7, ObjectsStay DEF DataInv
<1>13. CASE MapApplies
  <2>1. queue # <<>> /\ queue' = Tail(queue)
    BY <1>13 DEF MapApplies
  <2>2. PICK o, fresh : o = Head(queue).of /\ fresh = Head(queue).answer.photos
    OBVIOUS
  <2>3. o \in 1..Objects /\ Head(queue).answer.known /\ Once(fresh) /\ HasPins(fresh, removal)
    BY <1>6, <1>7, <1>8, <1>13, <2>1, <2>2 DEF MapApplies, AnswerRight
  <2>4. PICK images : images = refreshedImages(o, fresh)
    OBVIOUS
  <2>5. Once(images) /\ HasPins(images, removal)
    BY <2>3, <2>4 DEF refreshedImages, DataInv, ObjectsRight, ObjectRight
  <2>6. PICK v : v = [images |-> images, loaded |-> TRUE, detailLoaded |-> FALSE, fresh |-> TRUE]
    OBVIOUS
  <2>7. ObjectRight(v, removal)
    BY <2>5, <2>6 DEF ObjectRight, ObjectType, Once
  <2>8. object' = [object EXCEPT ![o] = v]
    BY <1>13, <2>2, <2>4, <2>6 DEF MapApplies
  <2>9. ObjectsRight'
    BY <1>1, <1>2, <2>3, <2>7, <2>8, ObjectSet DEF DataInv
  <2> QED BY <1>2, <1>3, <1>8, <2>1, <2>9 DEF DataInv
<1>14. CASE MapFails
  <2>1. queue # <<>> /\ queue' = Tail(queue)
    BY <1>14 DEF MapFails
  <2>2. PICK o \in 1..Objects : object' = [object EXCEPT ![o].loaded = TRUE]
    BY <1>7, <1>8, <1>14, <2>1 DEF MapFails
  <2>3. PICK v : v = [object[o] EXCEPT !.loaded = TRUE]
    OBVIOUS
  <2>4. ObjectRight(v, removal)
    BY <2>3 DEF DataInv, ObjectsRight, ObjectRight, ObjectType
  <2>5. ObjectsRight'
    BY <1>1, <1>2, <2>2, <2>3, <2>4, ObjectSet DEF DataInv
  <2> QED BY <1>2, <1>3, <1>8, <2>1, <2>5 DEF DataInv
<1> QED BY <1>10, <1>11, <1>12, <1>13, <1>14

\* A load that starts or waits keeps the invariant.
LEMMA StartsDetails ==
  ASSUME DataInv, NEW d \in 1..DetailLoads, NEW retries \in BOOLEAN, StartsDetail(d, retries),
         removal' = removal
  PROVE  DetailsRight'
<1>1. CASE UNCHANGED detail
  BY <1>1, DetailsStay DEF DataInv, Begun
<1>2. CASE detail' = [detail EXCEPT ![d] =
             [step |-> "asked", of |-> current, answer |-> Unread, retries |-> retries]]
  <2>1. PICK v : v = [step |-> "asked", of |-> current, answer |-> Unread, retries |-> retries]
    OBVIOUS
  <2>2. v \in DetailType /\ v.answer = Unread
    BY <2>1, BlankRight DEF DetailType, AnswerRight, DataInv, PlaceRight
  <2> QED BY <1>2, <2>1, <2>2, BlankRight, DetailSet DEF DataInv
<1> QED BY <1>1, <1>2 DEF StartsDetail

\* What the lightbox goes on with.
LEMMA BoxSet ==
  ASSUME BoxRight, NEW images \in Seq(Photos), boxOpen' = boxOpen, boxAsks' = boxAsks,
         BoxShows(images) \/ UNCHANGED <<box, at>>
  PROVE  BoxRight'
<1>1. CASE box' = images /\ at' = clampIndex(at, Len(images))
  <2>1. PICK i \in Nat \ {0}, n \in Nat : i = at /\ n = Len(images) /\ DOMAIN images = 1..n
    BY LenProperties DEF BoxRight
  <2>2. clampIndex(i, n) \in Nat \ {0} /\ (n # 0 => clampIndex(i, n) \in 1..n)
    BY Clamped
  <2>3. images # <<>> => n # 0
    BY <2>1, EmptySeq
  <2> QED BY <1>1, <2>1, <2>2, <2>3 DEF BoxRight, LightboxInRange
<1>2. CASE UNCHANGED <<box, at>>
  BY <1>2 DEF BoxRight, LightboxInRange
<1> QED BY <1>1, <1>2 DEF BoxShows

\* The loads of details keep the invariant.
LEMMA DetailMoves ==
  ASSUME DataInv, NEW d \in 1..DetailLoads,
         OpenTour(d) \/ RetryImages(d) \/ DetailRead(d) \/ DetailApplies(d) \/ DetailFails(d)
  PROVE  DataInv'
<1>1. UNCHANGED <<server, current, queue, removal, boxOpen, boxAsks>> /\ open' \in {open, TRUE}
  BY DEF OpenTour, RetryImages, DetailRead, DetailApplies, DetailFails, boxVars
<1>2. RemovalsRight' /\ Begun
  BY <1>1, RemovalsStay DEF DataInv
<1>3. QueueRight' /\ PlaceRight'
  BY <1>1, <1>2, QueueStays DEF DataInv, PlaceRight
<1>4. detail[d] \in DetailType /\ AnswerRight(detail[d].answer, removal)
  BY DEF DataInv, DetailsRight
<1>5. CASE OpenTour(d)
  <2>1. ObjectsRight' /\ BoxRight'
    BY <1>2, <1>5, ObjectsStay, BoxStays DEF OpenTour, DataInv
  <2>2. DetailsRight'
    BY <1>5, StartsDetails DEF OpenTour
  <2> QED BY <1>2, <1>3, <2>1, <2>2 DEF DataInv
<1>6. CASE RetryImages(d)
  <2>1. PICK o \in 1..Objects : o = current
    BY DEF DataInv, PlaceRight
  <2>2. PICK v : v = [object[o] EXCEPT !.fresh = FALSE]
    OBVIOUS
  <2>3. ObjectRight(v, removal)
    BY <2>2 DEF DataInv, ObjectsRight, ObjectRight, ObjectType
  <2>4. object' = [object EXCEPT ![o] = v]
    BY <1>6, <2>1, <2>2 DEF RetryImages
  <2>5. ObjectsRight'
    BY <1>1, <1>2, <2>3, <2>4, ObjectSet DEF DataInv
  <2>6. BoxRight'
    BY <1>6, BoxStays DEF RetryImages, DataInv
  <2>7. DetailsRight'
    BY <1>1, <1>6, StartsDetails DEF RetryImages, DataInv, BoxRight
  <2> QED BY <1>2, <1>3, <2>5, <2>6, <2>7 DEF DataInv
<1>7. CASE DetailRead(d)
  <2>1. PICK a : a = Read(ServerList) /\ AnswerRight(a, removal)
    <3>1. PICK list : list = ServerList /\ Once(list) /\ HasPins(list, removal)
      BY ServerListRight DEF DataInv
    <3>2. AnswerRight(Read(list), removal)
      BY <3>1 DEF AnswerRight, Answer, Read, Once
    <3> QED BY <3>1, <3>2
  <2>2. PICK v : v = [detail[d] EXCEPT !.answer = a]
    OBVIOUS
  <2>3. v \in DetailType /\ v.answer = a
    BY <1>4, <2>1, <2>2 DEF DetailType, AnswerRight
  <2>4. detail' = [detail EXCEPT ![d] = v]
    BY <1>7, <2>1, <2>2 DEF DetailRead
  <2>5. DetailsRight'
    BY <1>1, <2>1, <2>3, <2>4, DetailSet DEF DataInv
  <2>6. ObjectsRight' /\ BoxRight'
    BY <1>2, <1>7, ObjectsStay, BoxStays DEF DetailRead, DataInv
  <2> QED BY <1>2, <1>3, <2>5, <2>6 DEF DataInv
<1>8. ASSUME DetailApplies(d) \/ DetailFails(d) PROVE DetailsRight'
  <2>1. detail' = [detail EXCEPT ![d] = Idle]
    BY <1>8 DEF DetailApplies, DetailFails
  <2>2. Idle.answer = Unread
    BY DEF Idle
  <2> QED BY <1>1, <2>1, <2>2, BlankRight, DetailSet DEF DataInv
<1>9. CASE DetailApplies(d)
  <2>1. PICK o \in 1..Objects, images \in {detail[d].answer.photos} : o = detail[d].of /\ images = detail[d].answer.photos
    BY <1>4 DEF DetailType
  <2>2. Once(images) /\ HasPins(images, removal)
    BY <1>4, <1>9, <2>1 DEF DetailApplies, AnswerRight
  <2>3. PICK v : v = [images |-> images, loaded |-> TRUE, detailLoaded |-> TRUE, fresh |-> TRUE]
    OBVIOUS
  <2>4. ObjectRight(v, removal)
    BY <2>2, <2>3 DEF ObjectRight, ObjectType, Once
  <2>5. object' = [object EXCEPT ![o] = v]
    BY <1>9, <2>1, <2>3 DEF DetailApplies
  <2>6. ObjectsRight'
    BY <1>1, <1>2, <2>4, <2>5, ObjectSet DEF DataInv
  <2>7. BoxShows(images) \/ UNCHANGED <<box, at>>
    BY <1>9, <2>1 DEF DetailApplies
  <2>8. BoxRight'
    BY <1>1, <2>2, <2>7, BoxSet DEF Once, DataInv
  <2> QED BY <1>2, <1>3, <1>8, <1>9, <2>6, <2>8 DEF DataInv
<1>10. CASE DetailFails(d)
  <2>1. PICK o \in 1..Objects, images \in Seq(Photos) : o = detail[d].of /\ images = object[o].images
    BY <1>4 DEF DetailType, DataInv, ObjectsRight, ObjectRight, Once
  <2>2. PICK v : v = [object[o] EXCEPT !.loaded = TRUE]
    OBVIOUS
  <2>3. ObjectRight(v, removal)
    BY <2>2 DEF DataInv, ObjectsRight, ObjectRight, ObjectType
  <2>4. object' = [object EXCEPT ![o] = v]
    BY <1>10, <2>1, <2>2 DEF DetailFails
  <2>5. ObjectsRight'
    BY <1>1, <1>2, <2>3, <2>4, ObjectSet DEF DataInv
  <2>6. BoxShows(images) \/ UNCHANGED <<box, at>>
    BY <1>10, <2>1 DEF DetailFails
  <2>7. BoxRight'
    BY <1>1, <2>6, BoxSet DEF DataInv
  <2> QED BY <1>2, <1>3, <1>8, <1>10, <2>5, <2>7 DEF DataInv
<1> QED BY <1>5, <1>6, <1>7, <1>9, <1>10

\* Opening, closing and refetching tours keep it.
LEMMA TourMoves ==
  ASSUME DataInv, CloseTour \/ Expire \/ Refetch PROVE DataInv'
<1>1. UNCHANGED <<server, queue, detail, removal, boxVars>>
  BY DEF CloseTour, Expire, Refetch, loadVars
<1>2. RemovalsRight' /\ Begun
  BY <1>1, RemovalsStay DEF DataInv
<1>3. QueueRight' /\ DetailsRight' /\ BoxRight'
  BY <1>1, <1>2, QueueStays, DetailsStay, BoxStays DEF DataInv
<1>4. PlaceRight'
  <2>1. PICK c \in 1..Objects : c = current
    BY DEF DataInv, PlaceRight
  <2>2. current' = c \/ (c < Objects /\ current' = c + 1)
    BY <2>1 DEF CloseTour, Expire, Refetch
  <2>3. current' \in 1..Objects
    BY <2>2, TourDataAssumption
  <2>4. open' = FALSE \/ open' = open
    BY DEF CloseTour, Expire, Refetch
  <2> QED BY <2>3, <2>4 DEF DataInv, PlaceRight
<1>5. ObjectsRight'
  <2>1. CASE CloseTour \/ Refetch
    BY <1>2, <2>1, ObjectsStay DEF CloseTour, Refetch, loadVars, DataInv
  <2>2. CASE Expire
    <3>1. PICK o \in 1..Objects : o = current
      BY DEF DataInv, PlaceRight
    <3>2. PICK v : v = [object[o] EXCEPT !.fresh = FALSE]
      OBVIOUS
    <3>3. ObjectRight(v, removal)
      BY <3>2 DEF DataInv, ObjectsRight, ObjectRight, ObjectType
    <3>4. object' = [object EXCEPT ![o] = v]
      BY <2>2, <3>1, <3>2 DEF Expire
    <3> QED BY <1>1, <1>2, <3>3, <3>4, ObjectSet DEF DataInv
  <2> QED BY <2>1, <2>2
<1> QED BY <1>2, <1>3, <1>4, <1>5 DEF DataInv

\* A photo goes from the list of the current object, and its removal begins.
LEMMA Scheduled ==
  ASSUME DataInv, NEW p \in Photos, Schedules(p), UNCHANGED <<server, queue, detail>>
  PROVE  ObjectsRight' /\ QueueRight' /\ DetailsRight' /\ RemovalsRight'
<1>1. PICK o \in 1..Objects : o = current
  BY DEF DataInv, PlaceRight
<1>2. PICK r : r = [step |-> "pending", of |-> o] /\ r \in RemovalType /\ r.step = "pending"
  <2>1. [step |-> "pending", of |-> o] \in RemovalType
    BY DEF RemovalType
  <2> QED BY <2>1
<1>3. removal' = [removal EXCEPT ![p] = r]
  BY <1>1, <1>2 DEF Schedules
<1>4. RemovalsRight' /\ Begun
  BY <1>2, <1>3, RemovalSet DEF DataInv
<1>5. QueueRight' /\ DetailsRight'
  BY <1>4, QueueStays, DetailsStay DEF DataInv
<1>6. ObjectRight(object[o], removal)
  BY DEF DataInv, ObjectsRight
<1>7. PICK old \in Seq(Photos), new \in {withoutImage(object[o].images, p)} :
        old = object[o].images /\ new = withoutImage(old, p) /\ IsInjective(old)
  BY <1>6 DEF ObjectRight, Once
<1>8. new \in Seq(Photos) /\ IsInjective(new) /\ ToSet(new) = ToSet(old) \ {p}
  <2>1. new \in Seq(Photos) /\ IsInjective(new) /\ ToSet(new) = ToSet(old) \cap (Photos \ {p})
    BY <1>7, FilteredKeeps DEF withoutImage
  <2>2. ToSet(old) \subseteq Photos
    BY <1>7, ElementOfSeq, LenProperties DEF ToSet
  <2> QED BY <2>1, <2>2
<1>9. Range(new) = Range(old) \ {p}
  BY <1>8 DEF ToSet, Range
<1>10. \A q \in Photos : removal'[q].step = "none" => q # p /\ removal[q].step = "none"
  BY <1>2, <1>3 DEF DataInv, RemovalsRight
<1>11. PICK v : v = [object[o] EXCEPT !.images = new]
  OBVIOUS
<1>12. v \in ObjectType /\ v.images = new /\ (v.fresh \/ v.detailLoaded <=> object[o].fresh \/ object[o].detailLoaded)
  BY <1>6, <1>8, <1>11 DEF ObjectRight, ObjectType
<1>13. ObjectRight(v, removal')
  BY <1>6, <1>7, <1>8, <1>9, <1>10, <1>12 DEF ObjectRight, Once, HasPins, Photos
<1>14. object' = [object EXCEPT ![o] = v]
  BY <1>1, <1>7, <1>11 DEF Schedules
<1>15. ObjectsRight'
  BY <1>4, <1>13, <1>14, ObjectSet DEF DataInv
<1> QED BY <1>4, <1>5, <1>15

\* A photo comes back into the list of the object it was taken from.
LEMMA ComesBack ==
  ASSUME DataInv, NEW p \in Photos, Restored(p), RemovalsRight', Begun, removal[p].step # "none"
  PROVE  ObjectsRight'
<1>1. PICK o \in 1..Objects : o = removal[p].of
  BY DEF DataInv, RemovalsRight, RemovalType
<1>2. ObjectRight(object[o], removal)
  BY DEF DataInv, ObjectsRight
<1>3. PICK old \in Seq(Photos), new \in {IF object[o].loaded THEN withImageRestored(object[o].images, p)
                                            ELSE object[o].images} :
        /\ old = object[o].images /\ IsInjective(old)
        /\ new = IF object[o].loaded THEN withImageRestored(old, p) ELSE old
  BY <1>2 DEF ObjectRight, Once
<1>4. new \in Seq(Photos) /\ IsInjective(new) /\ Range(old) \subseteq Range(new)
  <2>1. CASE new = Append(old, p) /\ p \notin Range(old)
    <3>1. PICK n \in Nat : n = Len(old) /\ DOMAIN old = 1..n
      BY LenProperties
    <3>2. new \in Seq(Photos) /\ Len(new) = n + 1 /\ (\A i \in 1..n : new[i] = old[i]) /\ new[n + 1] = p
      BY <2>1, <3>1, AppendProperties
    <3>3. DOMAIN new = 1..(n + 1)
      BY <3>2, LenProperties
    <3>4. \A i \in 1..(n + 1) : i = n + 1 \/ i \in 1..n
      BY <3>1
    <3>5. \A i \in 1..n : old[i] # p
      BY <2>1, <3>1 DEF Range
    <3>6. IsInjective(new)
      <4>1. ASSUME NEW i \in 1..(n + 1), NEW j \in 1..(n + 1), new[i] = new[j] PROVE i = j
        <5>1. CASE i \in 1..n /\ j \in 1..n
          <6>1. old[i] = old[j]
            BY <3>2, <4>1, <5>1
          <6> QED BY <1>3, <3>1, <5>1, <6>1 DEF IsInjective
        <5>2. CASE i = n + 1 \/ j = n + 1
          BY <3>2, <3>4, <3>5, <4>1, <5>2
        <5> QED BY <3>4, <5>1, <5>2
      <4> QED BY <3>3, <4>1 DEF IsInjective
    <3>7. Range(old) \subseteq Range(new)
      <4>1. \A i \in 1..n : i \in 1..(n + 1)
        OBVIOUS
      <4> QED BY <3>1, <3>2, <3>3, <4>1 DEF Range
    <3> QED BY <3>2, <3>6, <3>7
  <2>2. CASE new = old
    BY <1>3, <2>2
  <2> QED BY <1>3, <2>1, <2>2 DEF withImageRestored
<1>5. PICK v : v = [object[o] EXCEPT !.images = new]
  OBVIOUS
<1>6. v \in ObjectType /\ v.images = new /\ (v.fresh \/ v.detailLoaded <=> object[o].fresh \/ object[o].detailLoaded)
  BY <1>2, <1>4, <1>5 DEF ObjectRight, ObjectType
<1>7. ObjectRight(v, removal)
  BY <1>2, <1>3, <1>4, <1>6 DEF ObjectRight, Once, HasPins
<1>8. ObjectRight(v, removal')
  BY <1>7, PinsStay DEF ObjectRight
<1>9. object' = [object EXCEPT ![o] = v]
  BY <1>1, <1>3, <1>5 DEF Restored
<1> QED BY <1>8, <1>9, ObjectSet DEF DataInv

\* The removals keep the invariant.
LEMMA RemovalMoves ==
  ASSUME DataInv, NEW p \in Photos,
         \/ RemoveFromGallery(p) \/ UndoRemoval(p) \/ CommitRemoval(p)
         \/ ServerRemoves(p) \/ RemovalAnswered(p) \/ RemovalFails(p)
  PROVE  DataInv'
<1>1. UNCHANGED <<current, open, queue, detail, boxVars>>
  BY DEF RemoveFromGallery, UndoRemoval, CommitRemoval, ServerRemoves, RemovalAnswered, RemovalFails, loadVars
<1>2. BoxRight' /\ PlaceRight'
  BY <1>1, BoxStays DEF DataInv, PlaceRight
<1>3. CASE RemoveFromGallery(p)
  BY <1>1, <1>2, <1>3, Scheduled DEF RemoveFromGallery, DataInv
<1>4. ASSUME NEW step \in {"undone", "sent", "handled", "gone", "failed"},
             removal' = [removal EXCEPT ![p].step = step], server' \in {server, server \ {p}}
      PROVE  RemovalsRight' /\ Begun /\ QueueRight' /\ DetailsRight'
  <2>1. PICK v : v = [removal[p] EXCEPT !.step = step]
    OBVIOUS
  <2>2. v \in RemovalType /\ v.step # "none"
    BY <2>1 DEF DataInv, RemovalsRight, RemovalType
  <2>3. RemovalsRight' /\ Begun
    BY <1>4, <2>1, <2>2, RemovalSet DEF DataInv
  <2> QED BY <1>1, <2>3, QueueStays, DetailsStay DEF DataInv
<1>5. CASE UndoRemoval(p) \/ RemovalFails(p)
  <2>1. /\ Restored(p) /\ server' = server /\ removal[p].step # "none"
        /\ \E step \in {"undone", "failed"} : removal' = [removal EXCEPT ![p].step = step]
    BY <1>5 DEF UndoRemoval, RemovalFails
  <2>2. RemovalsRight' /\ Begun /\ QueueRight' /\ DetailsRight'
    BY <1>4, <2>1
  <2> QED BY <1>2, <2>1, <2>2, ComesBack DEF DataInv
<1>6. CASE CommitRemoval(p) \/ ServerRemoves(p) \/ RemovalAnswered(p)
  <2>1. /\ server' \in {server, server \ {p}} /\ object' = object
        /\ \E step \in {"sent", "handled", "gone"} : removal' = [removal EXCEPT ![p].step = step]
    BY <1>6 DEF CommitRemoval, ServerRemoves, RemovalAnswered, loadVars
  <2>2. RemovalsRight' /\ Begun /\ QueueRight' /\ DetailsRight'
    BY <1>4, <2>1
  <2> QED BY <1>2, <2>1, <2>2, ObjectsStay DEF DataInv
<1> QED BY <1>3, <1>5, <1>6

\* The lightbox keeps it.
LEMMA LightboxMoves ==
  ASSUME DataInv, Lightbox PROVE DataInv'
<1>1. PICK b \in Seq(Photos), n \in Nat, i \in Nat \ {0} :
        b = box /\ n = Len(b) /\ DOMAIN b = 1..n /\ i = at
  BY LenProperties DEF DataInv, BoxRight
<1>2. ASSUME UNCHANGED <<server, current, open, loadVars, removal>>
      PROVE  ObjectsRight' /\ QueueRight' /\ DetailsRight' /\ RemovalsRight' /\ PlaceRight'
  <2>1. RemovalsRight' /\ Begun
    BY <1>2, RemovalsStay DEF DataInv
  <2> QED BY <1>2, <2>1, ObjectsStay, QueueStays, DetailsStay DEF loadVars, DataInv, PlaceRight
<1>3. CASE OpenLightbox
  <2>1. PICK images \in Seq(Photos) : box' = images
    BY <1>3 DEF OpenLightbox, DataInv, PlaceRight, ObjectsRight, ObjectRight, Once
  <2>2. at' \in Nat \ {0} /\ at' \in DOMAIN box'
    BY <1>3, <2>1, LenProperties DEF OpenLightbox
  <2>3. BoxRight'
    BY <1>3, <2>1, <2>2 DEF OpenLightbox, DataInv, BoxRight, LightboxInRange
  <2> QED BY <1>2, <1>3, <2>3 DEF OpenLightbox, DataInv
<1>4. CASE \E step \in {-1, 1} : StepPhoto(step)
  <2>1. PICK step \in {-1, 1} : StepPhoto(step)
    BY <1>4
  <2>2. n # 0
    BY <1>1, <2>1, EmptySeq DEF StepPhoto
  <2>3. wrapIndex(i, step, n) \in 1..n
    <3>1. PICK k \in Int : k = i - 1 + step + n
      OBVIOUS
    <3>2. k % n \in 0..(n - 1)
      BY <2>2
    <3> QED BY <3>1, <3>2 DEF wrapIndex
  <2>4. box' = b /\ at' = wrapIndex(i, step, n)
    BY <1>1, <2>1 DEF StepPhoto
  <2>5. BoxRight'
    BY <1>1, <2>1, <2>3, <2>4 DEF StepPhoto, DataInv, BoxRight, LightboxInRange
  <2> QED BY <1>2, <2>1, <2>5 DEF StepPhoto, DataInv
<1>5. CASE CloseLightbox
  <2>1. boxOpen' = FALSE /\ box' = <<>> /\ at' = 1 /\ boxAsks' = boxAsks /\ <<>> \in Seq(Photos)
    BY <1>5, EmptySeq DEF CloseLightbox
  <2>2. LightboxInRange' /\ boxOpen' \in BOOLEAN
    BY <2>1 DEF LightboxInRange
  <2>3. BoxRight'
    BY <2>1, <2>2 DEF DataInv, BoxRight
  <2> QED BY <1>2, <1>5, <2>3 DEF CloseLightbox, DataInv
<1>6. CASE AskBoxRemoval \/ CancelBoxRemoval
  <2>1. boxAsks' \subseteq Photos
    BY <1>1, <1>6, ElementOfSeq DEF AskBoxRemoval, CancelBoxRemoval
  <2>2. BoxRight'
    BY <1>6, <2>1 DEF AskBoxRemoval, CancelBoxRemoval, DataInv, BoxRight, LightboxInRange
  <2> QED BY <1>2, <1>6, <2>2 DEF AskBoxRemoval, CancelBoxRemoval, DataInv
<1>7. CASE ConfirmBoxRemoval
  <2>1. PICK p \in Photos : Schedules(p)
    BY <1>7 DEF ConfirmBoxRemoval, DataInv, BoxRight
  <2>2. ObjectsRight' /\ QueueRight' /\ DetailsRight' /\ RemovalsRight'
    BY <1>7, <2>1, Scheduled DEF ConfirmBoxRemoval
  <2>3. PlaceRight'
    BY <1>7 DEF ConfirmBoxRemoval, DataInv, PlaceRight
  <2>4. PICK new : new = box' /\ new = IF i \in DOMAIN b THEN RemoveAt(b, i) ELSE b
    BY <1>1, <1>7 DEF ConfirmBoxRemoval
  <2>5. new \in Seq(Photos)
    <3>1. CASE i \in 1..n
      <4>1. PICK l, r : l = SubSeq(b, 1, i - 1) /\ r = SubSeq(b, i + 1, n)
        OBVIOUS
      <4>2. l \in Seq(Photos) /\ r \in Seq(Photos)
        BY <1>1, <3>1, <4>1, SubSeqProperties
      <4>3. l \o r \in Seq(Photos)
        BY <4>2, ConcatProperties
      <4> QED BY <1>1, <2>4, <3>1, <4>1, <4>3 DEF RemoveAt
    <3>2. CASE i \notin 1..n
      BY <1>1, <2>4, <3>2
    <3> QED BY <3>1, <3>2
  <2>6. PICK m \in Nat : m = Len(new) /\ DOMAIN new = 1..m
    BY <2>5, LenProperties
  <2>7. clampIndex(i, m) \in Nat \ {0} /\ (m # 0 => clampIndex(i, m) \in 1..m)
    BY Clamped
  <2>8. new # <<>> => m # 0
    BY <2>5, <2>6, EmptySeq
  <2>9. at' = clampIndex(i, m) /\ boxAsks' = {} /\ boxOpen' = (new # <<>>)
    BY <1>1, <1>7, <2>4, <2>6 DEF ConfirmBoxRemoval
  <2>10. boxOpen' \in BOOLEAN
    BY <2>9
  <2>11. BoxRight'
    BY <2>4, <2>5, <2>6, <2>7, <2>8, <2>9, <2>10 DEF BoxRight, LightboxInRange
  <2> QED BY <2>2, <2>3, <2>11 DEF DataInv
<1> QED BY <1>3, <1>4, <1>5, <1>6, <1>7 DEF Lightbox

\* A new page has it.
LEMMA DataStarts == TourDataInit => DataInv
<1> SUFFICES ASSUME TourDataInit PROVE DataInv
  OBVIOUS
<1> USE DEF TourDataInit
<1>1. 1 \in 1..Objects
  BY TourDataAssumption
<1>2. ObjectsRight
  <2>1. Blank \in ObjectType /\ ~Blank.fresh /\ ~Blank.detailLoaded /\ Once(Blank.images)
    BY EmptySeq DEF Blank, ObjectType, Once, IsInjective
  <2>2. \A taken : ObjectRight(Blank, taken)
    BY <2>1 DEF ObjectRight
  <2> QED BY <2>1, <2>2 DEF ObjectsRight
<1>3. QueueRight
  BY EmptySeq DEF QueueRight
<1>4. DetailsRight
  <2>1. Idle.answer = Unread
    BY DEF Idle
  <2> QED BY <2>1, BlankRight DEF DetailsRight
<1>5. RemovalsRight
  BY <1>1 DEF RemovalsRight, RemovalType
<1>6. BoxRight /\ PlaceRight
  <2>1. boxOpen = FALSE /\ box = <<>> /\ at = 1 /\ boxAsks = {} /\ <<>> \in Seq(Photos)
    BY EmptySeq
  <2>2. LightboxInRange /\ boxOpen \in BOOLEAN
    BY <2>1 DEF LightboxInRange
  <2>3. BoxRight
    BY <2>1, <2>2 DEF BoxRight
  <2> QED BY <1>1, <2>3 DEF PlaceRight
<1> QED BY <1>2, <1>3, <1>4, <1>5, <1>6 DEF DataInv

\* Every step keeps it.
LEMMA DataStays == DataInv /\ [TourDataNext]_tourDataVars => DataInv'
<1> SUFFICES ASSUME DataInv, [TourDataNext]_tourDataVars PROVE DataInv'
  OBVIOUS
<1>1. CASE MapLoad \/ \E early \in BOOLEAN : RenderAll(early)
  BY <1>1, MapMoves DEF MapLoad
<1>2. CASE DetailLoad
  BY <1>2, DetailMoves DEF DetailLoad
<1>3. CASE CloseTour \/ Expire \/ Refetch
  BY <1>3, TourMoves
<1>4. CASE Removal
  BY <1>4, RemovalMoves DEF Removal
<1>5. CASE Lightbox
  BY <1>5, LightboxMoves
<1>6. CASE UNCHANGED tourDataVars
  <2>1. UNCHANGED <<server, current, object, open, queue, detail, removal, boxVars>>
    BY <1>6 DEF tourDataVars, loadVars
  <2>2. RemovalsRight' /\ Begun
    BY <2>1, RemovalsStay DEF DataInv
  <2> QED BY <2>1, <2>2, ObjectsStay, QueueStays, DetailsStay, BoxStays DEF DataInv, PlaceRight
<1> QED BY <1>1, <1>2, <1>3, <1>4, <1>5, <1>6
        DEF TourDataNext, MapDataNext, LightboxNext, Photographs

\* It always holds.
LEMMA DataInvariant == TourDataSpec => []DataInv
BY DataStarts, DataStays, PTL DEF TourDataSpec

(* The photos of a tour are right, for any photos, objects and loads, after overlapping loads of *)
(* the map, of details and removals (mapData.js, tourData.js, photoRemoval.js).                  *)
THEOREM PhotosAlwaysSound == TourDataSpec => []PhotosSound
<1>1. DataInv => TourDataTypeOK
  BY DEF DataInv, ObjectsRight, QueueRight, DetailsRight, RemovalsRight, BoxRight, PlaceRight,
         ObjectType, LoadType, DetailType, RemovalType, Answer, TourDataTypeOK
<1>2. DataInv => PutBackOnce
  <2> SUFFICES ASSUME DataInv, NEW o \in 1..Objects, NEW p \in Photos
               PROVE  Occurrences(p, object[o].images) <= 1
    BY DEF PutBackOnce, Images
  <2>1. PICK images : images = object[o].images /\ IsInjective(images)
    BY DEF DataInv, ObjectsRight, ObjectRight, Once
  <2>2. PICK where : where = {i \in DOMAIN images : images[i] = p}
    OBVIOUS
  <2>3. \A i, j \in where : i = j
    BY <2>1, <2>2 DEF IsInjective
  <2>4. Cardinality(where) <= 1
    <3>1. CASE where = {}
      BY <3>1, FS_EmptySet
    <3>2. CASE where # {}
      <4>1. PICK i : i \in where
        BY <3>2
      <4>2. where = {i}
        BY <2>3, <4>1
      <4>3. Cardinality({i}) = 1
        BY FS_Singleton
      <4> QED BY <4>2, <4>3
    <3> QED BY <3>1, <3>2
  <2> QED BY <2>1, <2>2, <2>4 DEF Occurrences
<1>3. DataInv => FreshHasPins
  BY DEF DataInv, ObjectsRight, ObjectRight, HasPins, FreshHasPins
<1>4. DataInv => LightboxInRange
  BY DEF DataInv, BoxRight
<1> QED BY <1>1, <1>2, <1>3, <1>4, DataInvariant, PTL DEF PhotosSound

(* The map's answer takes no photo out of a loaded gallery, in any order of answers (mapData.js, *)
(* refreshedImages).                                                                            *)
THEOREM GalleriesKept == TourDataSpec => GalleryKept
<1>1. ASSUME DataInv, [TourDataNext]_tourDataVars, NEW o \in 1..Objects,
             object[o].detailLoaded, ~object'[o].detailLoaded
      PROVE  object'[o].images = object[o].images
  <2>1. object \in [1..Objects -> ObjectType]
    BY <1>1 DEF DataInv, ObjectsRight
  <2>2. object' # object
    BY <1>1
  <2>4. CASE MapApplies
    <3>1. PICK q, fresh : q = Head(queue).of /\ fresh = Head(queue).answer.photos
      OBVIOUS
    <3>2. object' = [object EXCEPT ![q] = [images |-> refreshedImages(q, fresh), loaded |-> TRUE,
                                           detailLoaded |-> FALSE, fresh |-> TRUE]]
      BY <2>4, <3>1 DEF MapApplies
    <3> QED BY <1>1, <2>1, <3>2 DEF refreshedImages
  <2>5. CASE MapFails
    <3>1. PICK q : object' = [object EXCEPT ![q].loaded = TRUE]
      BY <2>5 DEF MapFails
    <3> QED BY <1>1, <2>1, <3>1 DEF ObjectType
  <2>6. CASE MapStarts \/ (\E early \in BOOLEAN : RenderAll(early)) \/ \E i \in 1..MapLoads : MapRead(i)
    BY <2>2, <2>6 DEF MapStarts, RenderAll, MapRead
  <2>7. CASE \E d \in 1..DetailLoads : OpenTour(d) \/ DetailRead(d)
    BY <2>2, <2>7 DEF OpenTour, DetailRead
  <2>8. CASE \E d \in 1..DetailLoads : RetryImages(d)
    BY <1>1, <2>1, <2>8 DEF RetryImages, ObjectType
  <2>9. CASE \E d \in 1..DetailLoads : DetailFails(d)
    <3>1. PICK q : object' = [object EXCEPT ![q].loaded = TRUE]
      BY <2>9 DEF DetailFails
    <3> QED BY <1>1, <2>1, <3>1 DEF ObjectType
  <2>10. CASE \E d \in 1..DetailLoads : DetailApplies(d)
    <3>1. PICK q, images : object' = [object EXCEPT ![q] =
            [images |-> images, loaded |-> TRUE, detailLoaded |-> TRUE, fresh |-> TRUE]]
      BY <2>10 DEF DetailApplies
    <3> QED BY <1>1, <2>1, <3>1
  <2>11. CASE CloseTour \/ Refetch \/ UNCHANGED tourDataVars
    BY <2>2, <2>11 DEF CloseTour, Refetch, tourDataVars, loadVars
  <2>12. CASE Expire
    BY <1>1, <2>1, <2>12 DEF Expire, ObjectType
  <2>13. ASSUME NEW q, NEW images, object' = [object EXCEPT ![q].images = images] PROVE FALSE
    BY <1>1, <2>1, <2>13 DEF ObjectType
  <2>14. CASE Removal
    <3>1. PICK p \in Photos : \/ Schedules(p) \/ Restored(p)
                              \/ CommitRemoval(p) \/ ServerRemoves(p) \/ RemovalAnswered(p)
      BY <2>14 DEF Removal, RemoveFromGallery, UndoRemoval, RemovalFails
    <3>2. CASE Schedules(p)
      <4>1. PICK q, images : q = current /\ images = withoutImage(object[current].images, p)
        OBVIOUS
      <4>2. object' = [object EXCEPT ![q].images = images]
        BY <3>2, <4>1 DEF Schedules
      <4> QED BY <2>13, <4>2
    <3>3. CASE Restored(p)
      <4>1. PICK q, images : q = removal[p].of
                /\ images = IF object[q].loaded THEN withImageRestored(object[q].images, p) ELSE object[q].images
        OBVIOUS
      <4>2. object' = [object EXCEPT ![q].images = images]
        BY <3>3, <4>1 DEF Restored
      <4> QED BY <2>13, <4>2
    <3> QED BY <2>2, <3>1, <3>2, <3>3 DEF CommitRemoval, ServerRemoves, RemovalAnswered, loadVars
  <2>15. CASE Lightbox
    <3>1. CASE ConfirmBoxRemoval
      <4>1. PICK p : Schedules(p)
        BY <3>1 DEF ConfirmBoxRemoval
      <4>2. PICK q, images : q = current /\ images = withoutImage(object[current].images, p)
        OBVIOUS
      <4>3. object' = [object EXCEPT ![q].images = images]
        BY <4>1, <4>2 DEF Schedules
      <4> QED BY <2>13, <4>3
    <3> QED BY <2>2, <2>15, <3>1
        DEF Lightbox, OpenLightbox, CloseLightbox, AskBoxRemoval, CancelBoxRemoval, StepPhoto, loadVars
  <2> QED BY <1>1, <2>4, <2>5, <2>6, <2>7, <2>8, <2>9, <2>10, <2>11, <2>12, <2>14, <2>15
          DEF TourDataNext, MapDataNext, LightboxNext, Photographs, MapLoad, DetailLoad
<1>2. DataInv /\ [TourDataNext]_tourDataVars =>
        [\A o \in 1..Objects : object[o].detailLoaded /\ ~object'[o].detailLoaded =>
           object'[o].images = object[o].images]_tourDataVars
  BY <1>1
<1> QED BY <1>2, DataInvariant, PTL DEF TourDataSpec, GalleryKept

-----------------------------------------------------------------------------
(* Layers. *)

Layer == Modals \cup {"panel", "map"}
Ways == {"back", "forward"}

\* Each Back of the page that is still to come is among those the browser was asked for.
Ahead(own, ways) ==
  \E g \in [1..own -> 1..Len(ways)] :
    /\ \A i \in 1..own : ways[g[i]] = "back"
    /\ \A i, j \in 1..own : i < j => g[i] < g[j]

\* Each open dialog has its layer, with no layer of a dialog below it above that.
LayerOf(p, j, stack, modals) ==
  /\ p \in DOMAIN stack /\ stack[p] = modals[j]
  /\ \A q \in DOMAIN stack, i \in DOMAIN modals : q > p /\ i <= j => stack[q] # modals[i]
Stacked(stack, modals) == \A j \in DOMAIN modals : \E p : LayerOf(p, j, stack, modals)

\* The page is at an entry deep enough for its layers and its own Backs still to come.
RouterRight(stack, own, ways, modals, place) ==
  /\ stack \in Seq(Layer) /\ own \in Nat /\ ways \in Seq(Ways)
  /\ Len(stack) + own < place
  /\ Ahead(own, ways) /\ Stacked(stack, modals)

HistoryRight ==
  /\ entries \in Seq(0..MaxEntries) /\ here \in DOMAIN entries
  /\ \A i \in DOMAIN entries : entries[i] < i

Asks(modals) == "confirm" \in ToSet(modals)
DialogsRight ==
  /\ openModals \in Seq(Modals) /\ IsInjective(openModals)
  /\ shown \subseteq Layer /\ signedIn \in BOOLEAN
  /\ asker \in {"none", "page", "lightbox"} /\ (asker # "none" <=> Asks(openModals))

LayersInv ==
  RouterRight(layerStack, ownBacks, traversals, openModals, here) /\ HistoryRight /\ DialogsRight

-----------------------------------------------------------------------------
\* Backs to come, when the browser is asked for more, and when it has done one.
LEMMA AheadAsked ==
  ASSUME NEW own \in Nat, NEW ways \in Seq(Ways), Ahead(own, ways), NEW way \in Ways
  PROVE  /\ Ahead(own, Append(ways, way))
         /\ way = "back" => Ahead(own + 1, Append(ways, way))
<1>1. PICK n \in Nat, more \in {Append(ways, way)} : n = Len(ways) /\ more = Append(ways, way)
  BY LenProperties
<1>2. Len(more) = n + 1 /\ (\A i \in 1..n : more[i] = ways[i]) /\ more[n + 1] = way
  BY <1>1, AppendProperties
<1>3. PICK g \in [1..own -> 1..n] : /\ \A i \in 1..own : ways[g[i]] = "back"
                                    /\ \A i, j \in 1..own : i < j => g[i] < g[j]
  BY <1>1 DEF Ahead
<1>4. g \in [1..own -> 1..(n + 1)] /\ \A i \in 1..own : g[i] \in 1..n
  BY <1>3
<1>5. Ahead(own, more)
  BY <1>2, <1>3, <1>4, ZenonT(60) DEF Ahead
<1>6. ASSUME way = "back" PROVE Ahead(own + 1, more)
  <2> DEFINE h == [i \in 1..(own + 1) |-> IF i = own + 1 THEN n + 1 ELSE g[i]]
  <2>1. h \in [1..(own + 1) -> 1..(n + 1)]
    BY <1>4
  <2>2. h[own + 1] = n + 1 /\ \A i \in 1..own : h[i] = g[i]
    OBVIOUS
  <2> HIDE DEF h
  <2>3. \A i \in 1..(own + 1) : i = own + 1 \/ i \in 1..own
    OBVIOUS
  <2>4. \A i \in 1..(own + 1) : more[h[i]] = "back"
    BY <1>2, <1>3, <1>4, <1>6, <2>2, <2>3, ZenonT(60)
  <2>5. ASSUME NEW i \in 1..(own + 1), NEW j \in 1..(own + 1), i < j PROVE h[i] < h[j]
    <3>1. i \in 1..own
      BY <2>5
    <3>2. CASE j = own + 1
      <4>1. h[i] \in 1..n /\ h[j] = n + 1
        BY <1>4, <2>2, <3>1, <3>2
      <4> QED BY <4>1
    <3>3. CASE j \in 1..own
      BY <1>3, <2>2, <2>5, <3>1, <3>3
    <3> QED BY <2>3, <3>2, <3>3
  <2> QED BY <1>2, <2>1, <2>4, <2>5 DEF Ahead
<1> QED BY <1>1, <1>5, <1>6

\* Backs to come, when the browser has done one of its traversals.
LEMMA AheadDone ==
  ASSUME NEW own \in Nat, NEW ways \in Seq(Ways), ways # <<>>, Ahead(own, ways)
  PROVE  /\ own > 0 => Ahead(own - 1, Tail(ways))
         /\ Head(ways) = "forward" => Ahead(own, Tail(ways))
<1>1. PICK n \in Nat, rest \in {Tail(ways)} : n = Len(ways) /\ rest = Tail(ways)
  BY LenProperties
<1>2. Len(rest) = n - 1 /\ (\A i \in 1..(n - 1) : rest[i] = ways[i + 1]) /\ Head(ways) = ways[1] /\ n >= 1
  BY <1>1, HeadTailProperties, EmptySeq
<1>3. PICK g \in [1..own -> 1..n] : /\ \A i \in 1..own : ways[g[i]] = "back"
                                    /\ \A i, j \in 1..own : i < j => g[i] < g[j]
  BY <1>1 DEF Ahead
<1>4. ASSUME own > 0 PROVE Ahead(own - 1, rest)
  <2> DEFINE h == [i \in 1..(own - 1) |-> g[i + 1] - 1]
  <2>1. \A i \in 1..(own - 1) : /\ i + 1 \in 1..own /\ 1 \in 1..own /\ 1 < i + 1
    BY <1>4
  <2>2. \A i \in 1..(own - 1) : g[1] < g[i + 1] /\ g[1] \in 1..n /\ g[i + 1] \in 1..n
    BY <1>3, <2>1
  <2>3. \A i \in 1..(own - 1) : g[i + 1] - 1 \in 1..(n - 1) /\ (g[i + 1] - 1) + 1 = g[i + 1]
    BY <2>2
  <2>4. h \in [1..(own - 1) -> 1..(n - 1)] /\ \A i \in 1..(own - 1) : h[i] = g[i + 1] - 1
    BY <2>3
  <2> HIDE DEF h
  <2>5. ASSUME NEW i \in 1..(own - 1) PROVE rest[h[i]] = "back"
    <3>1. PICK k \in 1..(n - 1) : k = h[i] /\ k + 1 = g[i + 1]
      BY <2>3, <2>4
    <3>2. ways[g[i + 1]] = "back" /\ rest[k] = ways[k + 1]
      BY <1>2, <1>3, <2>1
    <3> QED BY <3>1, <3>2
  <2>6. ASSUME NEW i \in 1..(own - 1), NEW j \in 1..(own - 1), i < j PROVE h[i] < h[j]
    <3>1. g[i + 1] < g[j + 1]
      BY <1>3, <2>1, <2>6
    <3> QED BY <2>2, <2>4, <3>1, SMTT(30)
  <2> QED BY <1>2, <1>4, <2>4, <2>5, <2>6 DEF Ahead
<1>5. ASSUME Head(ways) = "forward" PROVE Ahead(own, rest)
  <2> DEFINE h == [i \in 1..own |-> g[i] - 1]
  <2>1. \A i \in 1..own : g[i] \in 1..n /\ g[i] # 1
    BY <1>2, <1>3, <1>5
  <2>2. \A i \in 1..own : g[i] - 1 \in 1..(n - 1) /\ (g[i] - 1) + 1 = g[i]
    BY <2>1
  <2>3. h \in [1..own -> 1..(n - 1)] /\ \A i \in 1..own : h[i] = g[i] - 1
    BY <2>2
  <2> HIDE DEF h
  <2>4. \A i \in 1..own : rest[h[i]] = "back"
    BY <1>2, <1>3, <2>2, <2>3, ZenonT(40)
  <2>5. \A i, j \in 1..own : i < j => h[i] < h[j]
    BY <1>3, <2>1, <2>3
  <2> QED BY <1>2, <2>3, <2>4, <2>5 DEF Ahead
<1> QED BY <1>1, <1>4, <1>5

\* No Back of the page is to come, whatever the browser was asked for.
LEMMA NoneAhead ==
  ASSUME NEW ways \in Seq(Ways) PROVE Ahead(0, ways)
<1>1. [i \in 1..0 |-> 1] \in [1..0 -> 1..Len(ways)]
  OBVIOUS
<1>2. PICK g : g \in [1..0 -> 1..Len(ways)]
  BY <1>1
<1>3. 1..0 = {}
  OBVIOUS
<1> QED BY <1>2, <1>3 DEF Ahead

\* Backs of the page that are to come are no more than the Backs to come.
LEMMA AheadCounted ==
  ASSUME NEW own \in Nat, NEW ways \in Seq(Ways), Ahead(own, ways)
  PROVE  own <= Len(Filtered(ways, {"back"}))
<1>1. PICK n \in Nat, f \in {Filtered(ways, {"back"})} : n = Len(ways) /\ f = Filtered(ways, {"back"})
  BY LenProperties
<1>2. f \in Seq(Ways) /\ \E place : Picks(f, ways, {"back"}, n, place)
  BY <1>1, FilteredPicks
<1>11. PICK m \in Nat : m = Len(f)
  BY <1>2, LenProperties
<1>3. PICK place : m = Len(f) /\ Picks(f, ways, {"back"}, n, place)
  BY <1>2, <1>11
<1>4. PICK g \in [1..own -> 1..n] : /\ \A i \in 1..own : ways[g[i]] = "back"
                                    /\ \A i, j \in 1..own : i < j => g[i] < g[j]
  BY <1>1 DEF Ahead
<1> DEFINE h == [i \in 1..own |-> CHOOSE k \in 1..m : place[k] = g[i]]
<1>5. \A i \in 1..own : \E k \in 1..m : place[k] = g[i]
  BY <1>3, <1>4 DEF Picks
<1>6. \A i \in 1..own : h[i] \in 1..m /\ place[h[i]] = g[i]
  BY <1>5
<1>7. h \in [1..own -> 1..m]
  BY <1>5
<1> HIDE DEF h
<1>8. \A i, j \in 1..own : h[i] = h[j] => i = j
  <2> SUFFICES ASSUME NEW i \in 1..own, NEW j \in 1..own, h[i] = h[j] PROVE i = j
    OBVIOUS
  <2>1. g[i] = g[j]
    BY <1>6
  <2>2. ~(g[i] < g[j]) /\ ~(g[j] < g[i])
    BY <1>4, <2>1
  <2>3. ~(i < j) /\ ~(j < i)
    BY <1>4, <2>2
  <2> QED BY <2>3
<1>9. h \in Injection(1..own, 1..m)
  BY <1>7, <1>8 DEF Injection, IsInjective
<1>10. /\ IsFiniteSet(1..m) /\ Cardinality(1..m) = m /\ Cardinality(1..own) = own
  <2>1. \A k \in Nat : (IF 1 > k THEN 0 ELSE k - 1 + 1) = k
    OBVIOUS
  <2>2. 1 \in Int /\ m \in Int /\ own \in Int
    OBVIOUS
  <2> QED BY <2>1, <2>2, FS_Interval
<1>12. Cardinality(1..own) <= Cardinality(1..m)
  BY <1>9, <1>10, FS_Injection
<1> QED BY <1>1, <1>3, <1>10, <1>12

-----------------------------------------------------------------------------
\* The layers and the dialogs, when either are fewer or more.
LEMMA FewerModals ==
  ASSUME NEW stack, NEW modals \in Seq(Modals), NEW fewer \in Seq(Modals), Stacked(stack, modals),
         NEW place \in [1..Len(fewer) -> 1..Len(modals)],
         \A i \in 1..Len(fewer) : fewer[i] = modals[place[i]],
         \A i, j \in 1..Len(fewer) : i < j => place[i] < place[j]
  PROVE  Stacked(stack, fewer)
<1>1. PICK n \in Nat, m \in Nat : n = Len(fewer) /\ DOMAIN fewer = 1..n /\ m = Len(modals) /\ DOMAIN modals = 1..m
  BY LenProperties
<1>2. ASSUME NEW j \in 1..n PROVE \E p : LayerOf(p, j, stack, fewer)
  <2>1. place[j] \in 1..m /\ fewer[j] = modals[place[j]]
    BY <1>1
  <2>2. PICK p : LayerOf(p, place[j], stack, modals)
    BY <1>1, <2>1 DEF Stacked
  <2>3. ASSUME NEW i \in 1..n, i <= j PROVE place[i] \in 1..m /\ place[i] <= place[j] /\ fewer[i] = modals[place[i]]
    <3>1. place[i] \in 1..m /\ fewer[i] = modals[place[i]]
      BY <1>1
    <3>2. CASE i = j
      BY <2>1, <3>1, <3>2
    <3>3. CASE i < j
      <4>1. place[i] < place[j]
        BY <1>1, <3>3
      <4> QED BY <2>1, <3>1, <4>1
    <3> QED BY <2>3, <3>2, <3>3
  <2>4. LayerOf(p, j, stack, fewer)
    BY <1>1, <2>1, <2>2, <2>3 DEF LayerOf
  <2> QED BY <2>4
<1> QED BY <1>1, <1>2 DEF Stacked

\* The layers are those of the dialogs a filter keeps.
LEMMA FilteredModals ==
  ASSUME NEW stack, NEW modals \in Seq(Modals), Stacked(stack, modals), NEW S
  PROVE  Stacked(stack, Filtered(modals, S))
<1>1. PICK f, n : f = Filtered(modals, S) /\ n = Len(modals)
  OBVIOUS
<1>2. f \in Seq(Modals) /\ \E place : Picks(f, modals, S, n, place)
  BY <1>1, FilteredPicks
<1>3. PICK place : Picks(f, modals, S, n, place)
  BY <1>2
<1> QED BY <1>1, <1>2, <1>3, FewerModals DEF Picks

\* Layers may be cut off above those of the dialogs.
LEMMA Lowered ==
  ASSUME NEW stack \in Seq(Layer), NEW lower \in Seq(Layer), NEW modals \in Seq(Modals),
         Stacked(stack, modals), Len(lower) <= Len(stack),
         \A i \in 1..Len(lower) : lower[i] = stack[i],
         \A q \in (Len(lower) + 1)..Len(stack) : stack[q] \notin ToSet(modals)
  PROVE  Stacked(lower, modals)
<1>1. PICK n \in Nat, k \in Nat : n = Len(stack) /\ DOMAIN stack = 1..n /\ k = Len(lower) /\ DOMAIN lower = 1..k
  BY LenProperties
<1>2. ASSUME NEW j \in DOMAIN modals PROVE \E p : LayerOf(p, j, lower, modals)
  <2>1. PICK p : LayerOf(p, j, stack, modals)
    BY DEF Stacked
  <2>2. p \in 1..n /\ stack[p] \in ToSet(modals)
    BY <1>1, <2>1 DEF LayerOf, ToSet
  <2>3. p \notin (k + 1)..n
    BY <1>1, <2>2
  <2>4. p \in 1..k /\ k <= n
    BY <1>1, <2>2, <2>3
  <2>5. \A q \in 1..k : q \in 1..n /\ lower[q] = stack[q]
    BY <1>1, <2>4
  <2>6. LayerOf(p, j, lower, modals)
    BY <1>1, <2>1, <2>4, <2>5 DEF LayerOf
  <2> QED BY <2>6
<1> QED BY <1>2 DEF Stacked

\* A layer that is no open dialog's may be put on top.
LEMMA Raised ==
  ASSUME NEW stack \in Seq(Layer), NEW modals \in Seq(Modals), Stacked(stack, modals),
         NEW layer \in Layer, layer \notin ToSet(modals)
  PROVE  Stacked(Append(stack, layer), modals)
<1>1. PICK n \in Nat, more \in {Append(stack, layer)} : n = Len(stack) /\ DOMAIN stack = 1..n /\ more = Append(stack, layer)
  BY LenProperties
<1>2. /\ more \in Seq(Layer) /\ Len(more) = n + 1
      /\ (\A i \in 1..n : more[i] = stack[i]) /\ more[n + 1] = layer
  BY <1>1, AppendProperties
<1>3. DOMAIN more = 1..(n + 1)
  BY <1>2, LenProperties
<1>4. \A q \in 1..(n + 1) : q = n + 1 \/ q \in 1..n
  OBVIOUS
<1>5. \A i \in DOMAIN modals : modals[i] # layer
  BY DEF ToSet
<1>6. \A i \in 1..n : i \in 1..(n + 1)
  OBVIOUS
<1>7. ASSUME NEW j \in DOMAIN modals PROVE \E p : LayerOf(p, j, more, modals)
  <2>1. PICK p : LayerOf(p, j, stack, modals)
    BY DEF Stacked
  <2>2. p \in 1..n /\ stack[p] = modals[j]
    BY <1>1, <2>1 DEF LayerOf
  <2>3. ASSUME NEW q \in 1..(n + 1), NEW i \in DOMAIN modals, q > p, i <= j PROVE more[q] # modals[i]
    <3>1. CASE q = n + 1
      BY <1>2, <1>5, <3>1
    <3>2. CASE q \in 1..n
      BY <1>1, <1>2, <2>1, <2>3, <3>2 DEF LayerOf
    <3> QED BY <1>4, <3>1, <3>2
  <2>4. LayerOf(p, j, more, modals)
    BY <1>2, <1>3, <1>6, <2>2, <2>3 DEF LayerOf
  <2> QED BY <2>4
<1>8. Stacked(more, modals)
  BY <1>7 DEF Stacked
<1> QED BY <1>1, <1>8

\* A dialog may be opened with its layer on top.
LEMMA Opened ==
  ASSUME NEW stack \in Seq(Layer), NEW modals \in Seq(Modals), Stacked(stack, modals),
         NEW modal \in Modals, modal \notin ToSet(modals)
  PROVE  Stacked(Append(stack, modal), Append(modals, modal))
<1>1. PICK n \in Nat, more \in {Append(stack, modal)} : n = Len(stack) /\ more = Append(stack, modal)
  BY LenProperties
<1>2. /\ more \in Seq(Layer) /\ Len(more) = n + 1 /\ more[n + 1] = modal
  BY <1>1, AppendProperties DEF Layer
<1>3. DOMAIN more = 1..(n + 1)
  BY <1>2, LenProperties
<1>4. PICK m \in Nat, all \in {Append(modals, modal)} : m = Len(modals) /\ DOMAIN modals = 1..m /\ all = Append(modals, modal)
  BY LenProperties
<1>5. /\ all \in Seq(Modals) /\ Len(all) = m + 1
      /\ (\A i \in 1..m : all[i] = modals[i]) /\ all[m + 1] = modal
  BY <1>4, AppendProperties
<1>6. DOMAIN all = 1..(m + 1)
  BY <1>5, LenProperties
<1>7. Stacked(more, modals)
  <2>1. modal \in Layer
    BY DEF Layer
  <2> QED BY <1>1, <2>1, Raised
<1>8. ASSUME NEW j \in 1..(m + 1) PROVE \E p : LayerOf(p, j, more, all)
  <2>1. CASE j = m + 1
    <3>1. n + 1 \in 1..(n + 1) /\ \A q \in 1..(n + 1) : ~(q > n + 1)
      OBVIOUS
    <3>2. LayerOf(n + 1, j, more, all)
      BY <1>2, <1>3, <1>5, <2>1, <3>1 DEF LayerOf
    <3> QED BY <3>2
  <2>2. CASE j \in 1..m
    <3>1. PICK p : LayerOf(p, j, more, modals)
      BY <1>4, <1>7, <2>2 DEF Stacked
    <3>2. \A i \in 1..(m + 1) : i <= j => i \in 1..m
      BY <2>2
    <3>3. LayerOf(p, j, more, all)
      BY <1>4, <1>5, <1>6, <2>2, <3>1, <3>2 DEF LayerOf
    <3> QED BY <3>3
  <2>3. j = m + 1 \/ j \in 1..m
    OBVIOUS
  <2> QED BY <2>1, <2>2, <2>3
<1> QED BY <1>1, <1>4, <1>6, <1>8 DEF Stacked

-----------------------------------------------------------------------------
\* The router at a state r of its handler.
RouterOk(r, modals) == RouterRight(r.stack, r.own, r.asked, modals, here)

\* Releasing a layer whose dialog is closed is right.
LEMMA ReleasedRight ==
  ASSUME NEW modals \in Seq(Modals), here \in Int, NEW r, RouterOk(r, modals),
         NEW layer, layer \notin ToSet(modals)
  PROVE  RouterOk(Released(r, layer), modals)
<1>1. CASE r.stack # <<>> /\ Last(r.stack) = layer
  <2>1. PICK stack \in Seq(Layer), own \in Nat, ways \in Seq(Ways) :
          stack = r.stack /\ own = r.own /\ ways = r.asked
    BY DEF RouterOk, RouterRight
  <2>2. PICK n \in Nat, place \in Int : n = Len(stack) /\ place = here /\ n + own < place
    BY <2>1, LenProperties DEF RouterOk, RouterRight
  <2>3. Ahead(own, ways) /\ Stacked(stack, modals)
    BY <2>1 DEF RouterOk, RouterRight
  <2>4. n # 0 /\ stack[n] = layer
    BY <1>1, <2>1, <2>2, EmptySeq DEF Last
  <2>5. PICK lower : lower = Front(stack)
    OBVIOUS
  <2>6. lower \in Seq(Layer) /\ Len(lower) = n - 1 /\ \A i \in 1..(n - 1) : lower[i] = stack[i]
    BY <2>2, <2>4, <2>5, SubSeqProperties DEF Front
  <2>7. Stacked(lower, modals)
    <3>1. \A q \in (Len(lower) + 1)..Len(stack) : q = n
      BY <2>2, <2>4, <2>6
    <3>2. Len(lower) <= Len(stack) /\ \A i \in 1..Len(lower) : lower[i] = stack[i]
      BY <2>2, <2>6
    <3> QED BY <2>3, <2>4, <2>6, <3>1, <3>2, Lowered
  <2>8. Append(ways, "back") \in Seq(Ways) /\ Ahead(own + 1, Append(ways, "back"))
    BY <2>3, AheadAsked, AppendProperties DEF Ways
  <2>9. Released(r, layer) = [stack |-> lower, own |-> own + 1, asked |-> Append(ways, "back")]
    BY <1>1, <2>1, <2>5 DEF Released
  <2>10. own + 1 \in Nat /\ Len(lower) + (own + 1) < here
    BY <2>2, <2>6
  <2>11. RouterRight(lower, own + 1, Append(ways, "back"), modals, here)
    BY <2>6, <2>7, <2>8, <2>10 DEF RouterRight
  <2> QED BY <2>9, <2>11 DEF RouterOk
<1>2. CASE ~(r.stack # <<>> /\ Last(r.stack) = layer)
  BY <1>2 DEF Released
<1> QED BY <1>1, <1>2

\* The router between handlers is at the start of one.
LEMMA RouterIs == RouterOk(Router, openModals) <=> RouterRight(layerStack, ownBacks, traversals, openModals, here)
BY DEF RouterOk, Router

\* A handler that ends without a new layer.
LEMMA Routed ==
  ASSUME HistoryRight, NEW r, NEW modals, RouterOk(r, modals), Routes(r)
  PROVE  RouterRight(layerStack', ownBacks', traversals', modals, here') /\ HistoryRight'
BY DEF HistoryRight, RouterOk, Routes

\* A handler that ends with a new layer: its entry is at the page's new place.
LEMMA Pushed ==
  ASSUME HistoryRight, LayersAssumption, NEW r, NEW modals, RouterOk(r, modals), NEW layer \in Layer, Pushes(r, layer),
         NEW after, Stacked(Append(r.stack, layer), after)
  PROVE  RouterRight(layerStack', ownBacks', traversals', after, here') /\ HistoryRight'
<1>1. PICK stack \in Seq(Layer), own \in Nat, ways \in Seq(Ways) :
        stack = r.stack /\ own = r.own /\ ways = r.asked /\ Ahead(own, ways)
  BY DEF RouterOk, RouterRight
<1>2. PICK n \in Nat, h \in Nat : n = Len(stack) /\ h = here /\ n + own < h
  BY <1>1, LenProperties DEF RouterOk, RouterRight, HistoryRight
<1>3. PICK more : more = Append(stack, layer)
  OBVIOUS
<1>4. more \in Seq(Layer) /\ Len(more) = n + 1
  BY <1>2, <1>3, AppendProperties
<1>5. /\ layerStack' = more /\ ownBacks' = own /\ traversals' = ways /\ here' = h + 1 /\ h < MaxEntries
      /\ entries' = Append(SubSeq(entries, 1, h), n + 1)
  BY <1>1, <1>2, <1>3, <1>4 DEF Pushes
<1>6. RouterRight(layerStack', ownBacks', traversals', after, here')
  <2>1. Len(more) + own < h + 1
    BY <1>2, <1>4
  <2> QED BY <1>1, <1>3, <1>4, <1>5, <2>1 DEF RouterRight
<1>7. HistoryRight'
  <2>1. MaxEntries \in Nat
    BY DEF LayersAssumption
  <2>2. PICK old \in Seq(0..MaxEntries), k \in Nat : old = entries /\ k = Len(old) /\ DOMAIN old = 1..k /\ h \in 1..k
    BY <1>2, LenProperties DEF HistoryRight
  <2>3. \A i \in 1..k : old[i] < i
    BY <2>2 DEF HistoryRight
  <2>4. PICK cut : cut = SubSeq(old, 1, h)
    OBVIOUS
  <2>5. cut \in Seq(0..MaxEntries) /\ Len(cut) = h /\ \A i \in 1..h : cut[i] = old[i]
    BY <2>2, <2>4, SubSeqProperties
  <2>6. n + 1 \in 0..MaxEntries /\ n + 1 < h + 1
    BY <1>2, <1>5, <2>1
  <2>7. PICK new : new = Append(cut, n + 1)
    OBVIOUS
  <2>11. PICK d \in 0..MaxEntries : d = n + 1
    BY <2>6
  <2>8. /\ new \in Seq(0..MaxEntries) /\ Len(new) = h + 1
        /\ (\A i \in 1..h : new[i] = cut[i]) /\ new[h + 1] = n + 1
    <3>1. PICK D : D = 0..MaxEntries
      OBVIOUS
    <3>2. cut \in Seq(D) /\ d \in D /\ new = Append(cut, d)
      BY <2>5, <2>7, <2>11, <3>1
    <3>3. /\ new \in Seq(D) /\ Len(new) = Len(cut) + 1
          /\ (\A i \in 1..Len(cut) : new[i] = cut[i]) /\ new[Len(cut) + 1] = d
      BY <3>2, AppendProperties
    <3> QED BY <2>5, <2>11, <3>1, <3>3
  <2>9. DOMAIN new = 1..(h + 1) /\ h + 1 \in 1..(h + 1)
    BY <2>8, LenProperties
  <2>10. ASSUME NEW i \in 1..(h + 1) PROVE new[i] < i
    <3>1. CASE i = h + 1
      BY <2>6, <2>8, <3>1
    <3>2. CASE i \in 1..h
      <4>1. new[i] = old[i] /\ i \in 1..k
        BY <2>2, <2>5, <2>8, <3>2
      <4> QED BY <2>3, <4>1
    <3> QED BY <3>1, <3>2
  <2> QED BY <1>5, <2>2, <2>4, <2>7, <2>8, <2>9, <2>10 DEF HistoryRight
<1> QED BY <1>6, <1>7

-----------------------------------------------------------------------------
\* The open dialogs, fewer and more.
LEMMA ContainsIs ==
  ASSUME NEW modals \in Seq(Modals), NEW modal
  PROVE  Contains(modals, modal) <=> modal \in ToSet(modals)
BY LenProperties DEF Contains, ToSet

\* Closing any of the dialogs.
LEMMA SomeClosed ==
  ASSUME LayersInv, NEW closed
  PROVE  \E fewer \in Seq(Modals) :
           /\ fewer = ModalsWithout(closed) /\ IsInjective(fewer) /\ ToSet(fewer) = ToSet(openModals) \ closed
           /\ RouterOk(Router, fewer)
<1>1. PICK modals \in Seq(Modals) : modals = openModals /\ IsInjective(modals)
  BY DEF LayersInv, DialogsRight
<1>2. PICK fewer : fewer = Filtered(modals, Modals \ closed)
  OBVIOUS
<1>3. fewer \in Seq(Modals) /\ IsInjective(fewer) /\ ToSet(fewer) = ToSet(modals) \cap (Modals \ closed)
  BY <1>1, <1>2, FilteredKeeps
<1>4. ToSet(modals) \subseteq Modals
  BY ElementOfSeq, LenProperties DEF ToSet
<1>5. Stacked(layerStack, fewer)
  BY <1>1, <1>2, FilteredModals DEF LayersInv, RouterRight
<1>6. RouterOk(Router, fewer)
  BY <1>5 DEF LayersInv, RouterOk, RouterRight, Router
<1> QED BY <1>1, <1>2, <1>3, <1>4, <1>6 DEF ModalsWithout

\* The top dialog is open.
LEMMA TopIs ==
  ASSUME DialogsRight, openModals # <<>>
  PROVE  Top \in ToSet(openModals) /\ Top \in Modals
<1>1. PICK modals \in Seq(Modals), n \in Nat : modals = openModals /\ n = Len(modals) /\ DOMAIN modals = 1..n
  BY LenProperties DEF DialogsRight
<1>2. n \in 1..n
  BY <1>1, EmptySeq
<1>3. Top = modals[n]
  BY <1>1 DEF Top, Last
<1> QED BY <1>1, <1>2, <1>3, ElementOfSeq DEF ToSet

\* Closing the top dialog.
LEMMA TopClosed ==
  ASSUME LayersInv, openModals # <<>>
  PROVE  \E fewer \in Seq(Modals) :
           /\ fewer = Front(openModals) /\ IsInjective(fewer) /\ ToSet(fewer) = ToSet(openModals) \ {Top}
           /\ RouterOk(Router, fewer)
<1>1. PICK modals \in Seq(Modals), n \in Nat :
        modals = openModals /\ n = Len(modals) /\ DOMAIN modals = 1..n /\ IsInjective(modals)
  BY LenProperties DEF LayersInv, DialogsRight
<1>2. n # 0
  BY <1>1, EmptySeq
<1>3. PICK fewer : fewer = Front(modals)
  OBVIOUS
<1>4. fewer \in Seq(Modals) /\ Len(fewer) = n - 1 /\ \A i \in 1..(n - 1) : fewer[i] = modals[i]
  BY <1>1, <1>2, <1>3, SubSeqProperties DEF Front
<1>5. DOMAIN fewer = 1..(n - 1) /\ \A i \in 1..(n - 1) : i \in 1..n
  BY <1>2, <1>4, LenProperties
<1>6. IsInjective(fewer)
  BY <1>1, <1>4, <1>5 DEF IsInjective
<1>7. Top = modals[n] /\ n \in 1..n
  BY <1>1, <1>2 DEF Top, Last
<1>8. ToSet(fewer) = ToSet(modals) \ {Top}
  <2>1. ASSUME NEW x \in ToSet(fewer) PROVE x \in ToSet(modals) \ {Top}
    <3>1. PICK i \in 1..(n - 1) : x = fewer[i]
      BY <1>5 DEF ToSet
    <3>2. x = modals[i] /\ i \in 1..n /\ i # n
      BY <1>4, <1>5, <3>1
    <3>3. modals[i] # modals[n]
      BY <1>1, <1>7, <3>2 DEF IsInjective
    <3> QED BY <1>1, <1>7, <3>2, <3>3 DEF ToSet
  <2>2. ASSUME NEW x \in ToSet(modals) \ {Top} PROVE x \in ToSet(fewer)
    <3>1. PICK i \in 1..n : x = modals[i] /\ i # n
      BY <1>1, <1>7 DEF ToSet
    <3>2. i \in 1..(n - 1)
      BY <3>1
    <3> QED BY <1>4, <1>5, <3>1, <3>2 DEF ToSet
  <2> QED BY <2>1, <2>2
<1>9. Stacked(layerStack, fewer)
  <2>1. PICK place : place = [i \in 1..(n - 1) |-> i]
    OBVIOUS
  <2>2. place \in [1..(n - 1) -> 1..n] /\ \A i \in 1..(n - 1) : place[i] = i
    BY <2>1
  <2>3. \A i, j \in 1..(n - 1) : i < j => place[i] < place[j]
    BY <2>2
  <2>4. \A i \in 1..(n - 1) : fewer[i] = modals[place[i]]
    BY <1>4, <2>2
  <2>5. Stacked(layerStack, modals)
    BY <1>1 DEF LayersInv, RouterRight
  <2>6. 1..(n - 1) = 1..Len(fewer) /\ 1..n = 1..Len(modals)
    BY <1>1, <1>4
  <2> QED BY <1>4, <2>2, <2>3, <2>4, <2>5, <2>6, FewerModals
<1>10. RouterOk(Router, fewer)
  BY <1>9 DEF LayersInv, RouterOk, RouterRight, Router
<1> QED BY <1>1, <1>3, <1>4, <1>6, <1>8, <1>10

-----------------------------------------------------------------------------
\* Each action keeps it.
LEMMA TourShown ==
  ASSUME LayersInv, LayersAssumption, ShowTour \/ ShowLongestTour
  PROVE  LayersInv'
<1>1. /\ HistoryRight /\ DialogsRight /\ "panel" \in Layer /\ here \in Int
      /\ \A modals \in Seq(Modals) : "panel" \notin ToSet(modals)
  <2>1. \A modals \in Seq(Modals) : ToSet(modals) \subseteq Modals
    BY LenProperties, ElementOfSeq DEF ToSet
  <2>2. here \in Int
    BY LenProperties DEF LayersInv, HistoryRight
  <2> QED BY <2>1, <2>2 DEF LayersInv, Layer, Modals
<1>2. ASSUME NEW r, NEW fewer \in Seq(Modals), RouterOk(r, fewer), NEW hidden, SelectLayer(r, hidden)
      PROVE  /\ RouterRight(layerStack', ownBacks', traversals', fewer, here') /\ HistoryRight'
             /\ shown' \subseteq Layer /\ asker' = asker /\ signedIn' = signedIn
  <2>1. CASE "panel" \in shown
    BY <1>1, <1>2, <2>1, Routed DEF SelectLayer, DialogsRight
  <2>2. CASE "panel" \notin shown
    <3>1. Stacked(Append(r.stack, "panel"), fewer)
      BY <1>1, <1>2, Raised DEF RouterOk, RouterRight
    <3>2. Pushes(r, "panel")
      BY <1>2, <2>2 DEF SelectLayer
    <3>3. RouterRight(layerStack', ownBacks', traversals', fewer, here') /\ HistoryRight'
      BY <1>1, <1>2, <3>1, <3>2, Pushed
    <3> QED BY <1>1, <1>2, <3>3 DEF SelectLayer, DialogsRight
  <2> QED BY <2>1, <2>2
<1>3. CASE ShowTour
  <2>1. RouterOk(Router, openModals) /\ openModals \in Seq(Modals)
    BY RouterIs DEF LayersInv, DialogsRight
  <2>2. SelectLayer(Router, {}) /\ openModals' = openModals
    BY <1>3 DEF ShowTour
  <2>3. /\ RouterRight(layerStack', ownBacks', traversals', openModals, here') /\ HistoryRight'
        /\ shown' \subseteq Layer /\ asker' = asker /\ signedIn' = signedIn
    BY <1>2, <2>1, <2>2
  <2> QED BY <1>1, <2>2, <2>3 DEF LayersInv, DialogsRight
<1>4. CASE ShowLongestTour
  <2>1. Top = "stats" /\ openModals # <<>>
    BY <1>4 DEF ShowLongestTour, Top
  <2>2. PICK fewer \in Seq(Modals) :
          /\ fewer = Front(openModals) /\ IsInjective(fewer) /\ ToSet(fewer) = ToSet(openModals) \ {Top}
          /\ RouterOk(Router, fewer)
    BY <2>1, TopClosed
  <2>3. RouterOk(Released(Router, "stats"), fewer)
    BY <1>1, <2>1, <2>2, ReleasedRight
  <2>4. SelectLayer(Released(Router, "stats"), {"stats"}) /\ openModals' = fewer
    BY <1>4, <2>2 DEF ShowLongestTour
  <2>5. /\ RouterRight(layerStack', ownBacks', traversals', fewer, here') /\ HistoryRight'
        /\ shown' \subseteq Layer /\ asker' = asker /\ signedIn' = signedIn
    BY <1>2, <2>3, <2>4
  <2>6. Asks(fewer) <=> Asks(openModals)
    BY <2>1, <2>2 DEF Asks
  <2> QED BY <1>1, <2>2, <2>4, <2>5, <2>6 DEF LayersInv, DialogsRight
<1> QED BY <1>3, <1>4

\* A dialog that opens.
LEMMA ModalOpened ==
  ASSUME LayersInv, LayersAssumption, NEW modal \in Modals, OpenModal(modal)
  PROVE  LayersInv'
<1>1. PICK modals \in Seq(Modals), m \in Nat :
        modals = openModals /\ m = Len(modals) /\ DOMAIN modals = 1..m /\ IsInjective(modals)
  BY LenProperties DEF LayersInv, DialogsRight
<1>2. modal \notin ToSet(modals)
  BY <1>1, ContainsIs DEF OpenModal
<1>3. RouterOk(Router, modals) /\ modal \in Layer
  BY <1>1, RouterIs DEF LayersInv, Layer
<1>4. PICK more : more = Append(modals, modal)
  OBVIOUS
<1>5. Stacked(Append(Router.stack, modal), more)
  BY <1>2, <1>3, <1>4, Opened DEF RouterOk, RouterRight
<1>6. RouterRight(layerStack', ownBacks', traversals', more, here') /\ HistoryRight'
  BY <1>3, <1>5, Pushed DEF LayersInv, OpenModal
<1>7. /\ more \in Seq(Modals) /\ Len(more) = m + 1
      /\ (\A i \in 1..m : more[i] = modals[i]) /\ more[m + 1] = modal
  BY <1>1, <1>4, AppendProperties
<1>8. DOMAIN more = 1..(m + 1)
  BY <1>7, LenProperties
<1>9. \A i \in 1..(m + 1) : i = m + 1 \/ i \in 1..m
  OBVIOUS
<1>10. \A i \in 1..m : i \in 1..(m + 1) /\ modals[i] # modal
  BY <1>1, <1>2 DEF ToSet
<1>11. m + 1 \in 1..(m + 1)
  OBVIOUS
<1>12. IsInjective(more)
  BY <1>1, <1>7, <1>8, <1>9, <1>10 DEF IsInjective
<1>13. ToSet(more) = ToSet(modals) \cup {modal}
  BY <1>1, <1>7, <1>8, <1>9, <1>10, <1>11 DEF ToSet
<1>14. openModals' = more /\ shown' = shown \cup {modal} /\ signedIn' = signedIn
  BY <1>1, <1>4 DEF OpenModal, OnTop
<1>15. asker' \in {"none", "page", "lightbox"} /\ (asker' # "none" <=> Asks(more))
  <2>1. asker \in {"none", "page", "lightbox"} /\ (asker # "none" <=> "confirm" \in ToSet(modals))
    BY <1>1 DEF LayersInv, DialogsRight, Asks
  <2>2. CASE modal = "confirm"
    <3>1. asker' \in {"page", "lightbox"}
      BY <2>2 DEF OpenModal, Below
    <3> QED BY <1>13, <2>2, <3>1 DEF Asks
  <2>3. CASE modal # "confirm"
    BY <1>13, <2>1, <2>3 DEF Asks, OpenModal
  <2> QED BY <2>2, <2>3
<1> QED BY <1>3, <1>6, <1>7, <1>12, <1>14, <1>15 DEF LayersInv, DialogsRight

\* The map that opens.
LEMMA MapOpened ==
  ASSUME LayersInv, LayersAssumption, OpenMap
  PROVE  LayersInv'
<1>1. RouterOk(Router, openModals) /\ "map" \in Layer /\ openModals \in Seq(Modals)
  BY RouterIs DEF LayersInv, DialogsRight, Layer
<1>2. "map" \notin ToSet(openModals)
  <2>1. ToSet(openModals) \subseteq Modals
    BY <1>1, LenProperties, ElementOfSeq DEF ToSet
  <2> QED BY <2>1 DEF Modals
<1>3. Stacked(Append(Router.stack, "map"), openModals)
  BY <1>1, <1>2, Raised DEF RouterOk, RouterRight
<1>4. RouterRight(layerStack', ownBacks', traversals', openModals, here') /\ HistoryRight'
  BY <1>1, <1>3, Pushed DEF LayersInv, OpenMap
<1> QED BY <1>1, <1>4 DEF LayersInv, DialogsRight, OpenMap

\* The map that collapses, and leaves its layer.
LEMMA MapCollapsed ==
  ASSUME LayersInv, CollapseMap
  PROVE  LayersInv'
BY DEF LayersInv, CollapseMap, historyVars, HistoryRight, DialogsRight

\* A handler that closes dialogs and ends without a new layer.
LEMMA ReleasedAndRouted ==
  ASSUME LayersInv, NEW r, NEW fewer \in Seq(Modals), RouterOk(r, fewer), Routes(r),
         openModals' = fewer, IsInjective(fewer), shown' \subseteq Layer, signedIn' \in BOOLEAN,
         asker' \in {"none", "page", "lightbox"}, asker' # "none" <=> Asks(fewer)
  PROVE  LayersInv'
<1>1. RouterRight(layerStack', ownBacks', traversals', fewer, here') /\ HistoryRight'
  BY Routed DEF LayersInv
<1> QED BY <1>1 DEF LayersInv, DialogsRight

\* The top dialog, closed by its button or Escape.
LEMMA TopLayerClosed ==
  ASSUME LayersInv, CloseTop
  PROVE  LayersInv'
<1>1. PICK fewer \in Seq(Modals) :
        /\ fewer = Front(openModals) /\ IsInjective(fewer) /\ ToSet(fewer) = ToSet(openModals) \ {Top}
        /\ RouterOk(Router, fewer)
  BY TopClosed DEF CloseTop
<1>2. here \in Int
  BY LenProperties DEF LayersInv, HistoryRight
<1>3. RouterOk(Released(Router, Top), fewer)
  BY <1>1, <1>2, ReleasedRight
<1>4. Top \in ToSet(openModals)
  BY TopIs DEF LayersInv, CloseTop
<1>5. /\ asker \in {"none", "page", "lightbox"} /\ (asker # "none" <=> "confirm" \in ToSet(openModals))
      /\ shown \subseteq Layer /\ signedIn \in BOOLEAN
  BY DEF LayersInv, DialogsRight, Asks
<1>6. asker' \in {"none", "page", "lightbox"} /\ (asker' # "none" <=> Asks(fewer))
  <2>1. asker' = IF Top = "confirm" THEN "none" ELSE asker
    BY DEF CloseTop
  <2> QED BY <1>1, <1>5, <2>1 DEF Asks
<1>7. Routes(Released(Router, Top)) /\ openModals' = fewer /\ shown' \subseteq Layer /\ signedIn' \in BOOLEAN
  BY <1>1, <1>5 DEF CloseTop
<1> QED BY <1>1, <1>3, <1>6, <1>7, ReleasedAndRouted

\* The question, and what its answer closes.
LEMMA QuestionAnswered ==
  ASSUME LayersInv, NEW closes \in BOOLEAN, Confirm(closes)
  PROVE  LayersInv'
<1>1. PICK goes \in {"lightbox", "panel"} : goes = IF asker = "lightbox" THEN "lightbox" ELSE "panel"
  OBVIOUS
<1>2. PICK closed : closed = IF closes THEN {"confirm", goes} ELSE {"confirm"}
  OBVIOUS
<1>3. PICK fewer \in Seq(Modals) :
        /\ fewer = ModalsWithout(closed) /\ IsInjective(fewer) /\ ToSet(fewer) = ToSet(openModals) \ closed
        /\ RouterOk(Router, fewer)
  BY SomeClosed
<1>4. here \in Int /\ shown \subseteq Layer /\ signedIn \in BOOLEAN
  BY LenProperties DEF LayersInv, HistoryRight, DialogsRight
<1>5. PICK answered : answered = Released(Router, "confirm")
  OBVIOUS
<1>6. RouterOk(answered, fewer)
  BY <1>2, <1>3, <1>4, <1>5, ReleasedRight
<1>7. ASSUME closes PROVE RouterOk(Released(answered, goes), fewer)
  BY <1>2, <1>3, <1>4, <1>6, <1>7, ReleasedRight
<1>8. PICK r : r = IF closes /\ goes \in shown THEN Released(answered, goes) ELSE answered
  OBVIOUS
<1>9. RouterOk(r, fewer)
  BY <1>6, <1>7, <1>8
<1>10. Routes(r) /\ openModals' = fewer /\ shown' \subseteq Layer /\ signedIn' \in BOOLEAN /\ asker' = "none"
  BY <1>1, <1>2, <1>3, <1>4, <1>5, <1>8 DEF Confirm
<1>11. ~Asks(fewer)
  BY <1>2, <1>3 DEF Asks
<1> QED BY <1>3, <1>9, <1>10, <1>11, ReleasedAndRouted

\* The panel, closed by its button.
LEMMA PanelClosed ==
  ASSUME LayersInv, ClosePanelLayer
  PROVE  LayersInv'
<1>1. /\ RouterOk(Router, openModals) /\ openModals \in Seq(Modals) /\ here \in Int
      /\ IsInjective(openModals) /\ shown \subseteq Layer /\ signedIn \in BOOLEAN
      /\ asker \in {"none", "page", "lightbox"} /\ (asker # "none" <=> Asks(openModals))
  BY RouterIs, LenProperties DEF LayersInv, HistoryRight, DialogsRight
<1>2. "panel" \notin ToSet(openModals)
  <2>1. ToSet(openModals) \subseteq Modals
    BY <1>1, LenProperties, ElementOfSeq DEF ToSet
  <2> QED BY <2>1 DEF Modals
<1>3. RouterOk(Released(Router, "panel"), openModals)
  BY <1>1, <1>2, ReleasedRight
<1> QED BY <1>1, <1>3, ReleasedAndRouted DEF ClosePanelLayer

\* The session that ends, and what it hides.
LEMMA SessionEnded ==
  ASSUME LayersInv, AccountDeleted \/ SessionExpires
  PROVE  LayersInv'
<1>1. /\ RouterOk(Router, openModals) /\ openModals \in Seq(Modals) /\ here \in Int
      /\ IsInjective(openModals) /\ shown \subseteq Layer /\ signedIn \in BOOLEAN
      /\ asker \in {"none", "page", "lightbox"} /\ (asker # "none" <=> Asks(openModals))
  BY RouterIs, LenProperties DEF LayersInv, HistoryRight, DialogsRight
<1>2. CASE SessionExpires
  BY <1>1, <1>2, ReleasedAndRouted DEF SessionExpires, EndSession
<1>3. CASE AccountDeleted
  <2>1. PICK both : both = {"delete", "profile"} \cap ToSet(openModals)
    OBVIOUS
  <2>2. PICK fewer \in Seq(Modals) :
          /\ fewer = ModalsWithout(both) /\ IsInjective(fewer) /\ ToSet(fewer) = ToSet(openModals) \ both
          /\ RouterOk(Router, fewer)
    BY SomeClosed
  <2>3. PICK first : first = IF "delete" \in both THEN Released(Router, "delete") ELSE Router
    OBVIOUS
  <2>4. RouterOk(first, fewer)
    BY <1>1, <2>2, <2>3, ReleasedRight
  <2>5. PICK r : r = IF "profile" \in both THEN Released(first, "profile") ELSE first
    OBVIOUS
  <2>6. RouterOk(r, fewer)
    BY <1>1, <2>2, <2>4, <2>5, ReleasedRight
  <2>7. EndSession(r, fewer)
    BY <1>3, <2>1, <2>2, <2>3, <2>5 DEF AccountDeleted
  <2>8. Asks(fewer) <=> Asks(openModals)
    BY <2>1, <2>2 DEF Asks
  <2>9. /\ Routes(r) /\ openModals' = fewer /\ shown' \subseteq Layer /\ signedIn' \in BOOLEAN /\ asker' = asker
    BY <1>1, <2>7 DEF EndSession
  <2> QED BY <1>1, <2>2, <2>6, <2>8, <2>9, ReleasedAndRouted
<1> QED BY <1>2, <1>3

-----------------------------------------------------------------------------
\* The browser's steps keep it.
LEMMA Pressed ==
  ASSUME LayersInv, NEW way \in Ways, Press(way)
  PROVE  LayersInv'
<1>1. Ahead(ownBacks, Append(traversals, way)) /\ Append(traversals, way) \in Seq(Ways)
  BY AheadAsked, AppendProperties DEF LayersInv, RouterRight
<1> QED BY <1>1 DEF LayersInv, RouterRight, HistoryRight, DialogsRight, Press

\* What a popstate finds: the browser is at a place, with ways to go.
LEMMA Popped ==
  ASSUME LayersInv, NEW place \in DOMAIN entries, NEW ways \in Seq(Ways),
         ownBacks > 0 => Ahead(ownBacks - 1, ways) /\ here - 1 <= place,
         here' = place, traversals' = ways, Popstate(entries[place]), UNCHANGED <<entries, signedIn>>
  PROVE  LayersInv'
<1>1. PICK stack \in Seq(Layer), own \in Nat, n \in Nat, old \in Nat :
        stack = layerStack /\ own = ownBacks /\ n = Len(stack) /\ DOMAIN stack = 1..n /\ old = here /\ n + own < old
  <2>1. here \in Nat /\ layerStack \in Seq(Layer) /\ ownBacks \in Nat /\ Len(layerStack) + ownBacks < here
    BY LenProperties DEF LayersInv, RouterRight, HistoryRight
  <2>2. Len(layerStack) \in Nat /\ DOMAIN layerStack = 1..Len(layerStack)
    BY <2>1, LenProperties
  <2> QED BY <2>1, <2>2
<1>2. HistoryRight'
  BY DEF LayersInv, HistoryRight
<1>3. place \in Nat /\ entries[place] \in 0..MaxEntries /\ entries[place] < place
  <2>1. PICK E : E = 0..MaxEntries
    OBVIOUS
  <2>2. entries \in Seq(E) /\ entries[place] < place
    BY <2>1 DEF LayersInv, HistoryRight
  <2>3. place \in 1..Len(entries) /\ Len(entries) \in Nat
    BY <2>2, LenProperties
  <2>4. entries[place] \in E
    BY <2>2, <2>3, ElementOfSeq
  <2> QED BY <2>1, <2>2, <2>3, <2>4
<1>4. CASE own > 0
  <2>1. n + (own - 1) < place /\ own - 1 \in Nat
    BY <1>1, <1>3, <1>4
  <2>2. ownBacks' = own - 1 /\ UNCHANGED <<layerStack, openModals, shown, asker>>
    BY <1>1, <1>4 DEF Popstate
  <2> QED BY <1>1, <1>2, <1>4, <2>1, <2>2 DEF LayersInv, RouterRight, DialogsRight
<1>5. CASE own = 0
  <2>1. PICK depth \in Nat : depth = entries[place] /\ depth < place
    BY <1>3
  <2>2. ClosesAbove(depth) /\ ownBacks' = 0
    BY <1>1, <1>5, <2>1 DEF Popstate
  <2>3. PICK k \in Nat : k = (IF depth < n THEN depth ELSE n) /\ k <= n /\ k < place
    BY <1>1, <2>1
  <2>4. PICK kept : kept = SubSeq(stack, 1, k)
    OBVIOUS
  <2>5. kept \in Seq(Layer) /\ Len(kept) = k /\ \A i \in 1..k : kept[i] = stack[i]
    BY <1>1, <2>3, <2>4, SubSeqProperties
  <2>6. PICK above : above = SubSeq(stack, k + 1, n)
    OBVIOUS
  <2>7. above \in Seq(Layer) /\ Len(above) = n - k /\ \A i \in 1..(n - k) : above[i] = stack[k + i]
    <3>1. PICK from \in Nat : from = k + 1 /\ from \in 1..(n + 1)
      BY <2>3
    <3>2. /\ above \in Seq(Layer)
          /\ Len(above) = IF from <= n THEN n - from + 1 ELSE 0
          /\ \A i \in 1..(n - from + 1) : above[i] = stack[from + i - 1]
      <4>1. \A i \in from..n : stack[i] \in Layer
        BY <1>1, <3>1, ElementOfSeq
      <4>2. above = SubSeq(stack, from, n)
        BY <2>6, <3>1
      <4>3. from \in Int /\ n \in Int
        OBVIOUS
      <4>4. above \in Seq(Layer)
        BY <4>1, <4>2, <4>3, SubSeqProperties
      <4>5. Len(above) = IF from <= n THEN n - from + 1 ELSE 0
        BY <4>1, <4>2, <4>3, SubSeqProperties
      <4>6. \A i \in 1..(n - from + 1) : above[i] = stack[from + i - 1]
        BY <4>1, <4>2, <4>3, SubSeqProperties
      <4> QED BY <4>4, <4>5, <4>6
    <3>3. Len(above) = n - k /\ n - from + 1 = n - k
      BY <2>3, <3>1, <3>2, SMTT(30)
    <3>4. \A i \in 1..(n - k) : from + i - 1 = k + i
      BY <3>1
    <3> QED BY <3>2, <3>3, <3>4
  <2>8. PICK closed : closed = ToSet(above)
    OBVIOUS
  <2>9. \A q \in (k + 1)..n : stack[q] \in closed
    <3>1. ASSUME NEW q \in (k + 1)..n PROVE stack[q] \in closed
      <4>1. PICK i \in 1..(n - k) : q = k + i
        <5>1. q - k \in 1..(n - k) /\ q = k + (q - k)
          BY <2>3
        <5> QED BY <5>1
      <4>2. above[i] = stack[q] /\ i \in DOMAIN above
        BY <2>7, <4>1, LenProperties
      <4> QED BY <2>8, <4>2 DEF ToSet
    <3> QED BY <3>1
  <2>10. layerStack' = kept /\ openModals' = ModalsWithout(closed) /\ shown' = shown \ closed
         /\ asker' = AskerAfter(closed)
    BY <1>1, <2>2, <2>3, <2>4, <2>5, <2>6, <2>8 DEF ClosesAbove
  <2>11. PICK fewer \in Seq(Modals) :
          /\ fewer = ModalsWithout(closed) /\ IsInjective(fewer) /\ ToSet(fewer) = ToSet(openModals) \ closed
          /\ RouterOk(Router, fewer)
    BY SomeClosed
  <2>12. Stacked(kept, fewer)
    <3>1. Stacked(stack, fewer)
      BY <1>1, <2>11 DEF RouterOk, RouterRight, Router
    <3>2. \A q \in (Len(kept) + 1)..Len(stack) : stack[q] \notin ToSet(fewer)
      BY <1>1, <2>5, <2>9, <2>11
    <3>3. Len(kept) <= Len(stack) /\ \A i \in 1..Len(kept) : kept[i] = stack[i]
      BY <1>1, <2>3, <2>5
    <3> QED BY <2>5, <3>1, <3>2, <3>3, Lowered
  <2>13. Ahead(0, ways)
    BY NoneAhead
  <2>14. RouterRight(kept, 0, ways, fewer, place)
    BY <1>3, <2>3, <2>5, <2>12, <2>13 DEF RouterRight
  <2>15. asker' \in {"none", "page", "lightbox"} /\ (asker' # "none" <=> Asks(fewer))
    BY <2>10, <2>11 DEF AskerAfter, Asks, LayersInv, DialogsRight
  <2> QED BY <1>2, <2>2, <2>10, <2>11, <2>14, <2>15 DEF LayersInv, DialogsRight
<1> QED BY <1>1, <1>4, <1>5

\* A Back that the browser does.
LEMMA WentBack ==
  ASSUME LayersInv, GoBack
  PROVE  LayersInv'
<1>1. PICK ways \in Seq(Ways), own \in Nat, h \in Nat, n \in Nat :
        /\ ways = traversals /\ own = ownBacks /\ h = here /\ n = Len(entries) /\ DOMAIN entries = 1..n
        /\ Ahead(own, ways) /\ h \in 1..n
  BY LenProperties DEF LayersInv, RouterRight, HistoryRight
<1>2. h > 1 /\ ways # <<>> /\ here' = h - 1
  BY <1>1 DEF GoBack
<1>3. PICK place \in 1..n : place = h - 1
  BY <1>1, <1>2
<1>4. PICK rest \in Seq(Ways) : rest = Tail(ways)
  BY <1>1, <1>2, HeadTailProperties
<1>5. own > 0 => Ahead(own - 1, rest)
  BY <1>1, <1>2, <1>4, AheadDone
<1>6. here' = place /\ traversals' = rest /\ Popstate(entries[place]) /\ UNCHANGED <<entries, signedIn>>
  BY <1>1, <1>2, <1>3, <1>4 DEF GoBack
<1> QED BY <1>1, <1>3, <1>5, <1>6, Popped

\* A Forward that the browser does.
LEMMA WentForward ==
  ASSUME LayersInv, GoForward
  PROVE  LayersInv'
<1>1. PICK ways \in Seq(Ways), own \in Nat, h \in Nat, n \in Nat :
        /\ ways = traversals /\ own = ownBacks /\ h = here /\ n = Len(entries) /\ DOMAIN entries = 1..n
        /\ Ahead(own, ways) /\ h \in 1..n
  BY LenProperties DEF LayersInv, RouterRight, HistoryRight
<1>2. ways # <<>> /\ Head(ways) = "forward"
  BY <1>1 DEF GoForward
<1>3. PICK rest \in Seq(Ways) : rest = Tail(ways)
  BY <1>1, <1>2, HeadTailProperties
<1>4. (own > 0 => Ahead(own - 1, rest)) /\ Ahead(own, rest)
  BY <1>1, <1>2, <1>3, AheadDone
<1>5. CASE h < n
  <2>1. PICK place \in 1..n : place = h + 1
    BY <1>1, <1>5
  <2>2. here' = place /\ traversals' = rest /\ Popstate(entries[place]) /\ UNCHANGED <<entries, signedIn>>
    BY <1>1, <1>3, <1>5, <2>1 DEF GoForward
  <2> QED BY <1>1, <1>4, <2>1, <2>2, Popped
<1>6. CASE ~(h < n)
  BY <1>1, <1>3, <1>4, <1>6 DEF LayersInv, RouterRight, HistoryRight, DialogsRight, GoForward
<1> QED BY <1>5, <1>6

\* No dialog is open on a new page.
LEMMA NewPage ==
  /\ Stacked(<<>>, <<>>) /\ IsInjective(<<>>) /\ ~Asks(<<>>)
  /\ <<>> \in Seq(Modals) /\ <<>> \in Seq(Layer) /\ Len(<<>>) = 0
<1>1. DOMAIN <<>> = {} /\ <<>> \in Seq(Modals) /\ <<>> \in Seq(Layer) /\ Len(<<>>) = 0
  BY EmptySeq
<1> QED BY <1>1 DEF Stacked, IsInjective, Asks, ToSet

\* The page, loaded again or left and come back to.
LEMMA PageLoaded ==
  ASSUME LayersInv, LayersAssumption, ReloadPage \/ LeavePage
  PROVE  LayersInv'
<1>1. traversals' \in Seq(Ways)
  BY EmptySeq DEF ReloadPage, LeavePage, LayersInv, RouterRight
<1>2. LoadPage
  BY DEF ReloadPage, LeavePage
<1>3. HistoryRight'
  <2>6. PICK E : E = 0..MaxEntries
    OBVIOUS
  <2>1. PICK n \in Nat, f \in Seq(E) : n = Len(f) /\ DOMAIN f = 1..n /\ f = entries
    BY <2>6, LenProperties DEF LayersInv, HistoryRight
  <2>2. 0 \in E /\ here \in 1..n /\ \A i \in 1..n : f[i] < i
    BY <2>1, <2>6 DEF LayersAssumption, LayersInv, HistoryRight
  <2>3. PICK g : g = [f EXCEPT ![here] = 0]
    OBVIOUS
  <2>4. g \in Seq(E) /\ DOMAIN g = 1..n
    BY <2>1, <2>2, <2>3, ExceptSeq, LenProperties
  <2>5. \A i \in 1..n : g[i] < i
    BY <2>1, <2>2, <2>3
  <2> QED BY <1>2, <2>1, <2>2, <2>3, <2>4, <2>5, <2>6 DEF LoadPage, HistoryRight
<1>4. Ahead(0, traversals')
  BY <1>1, NoneAhead
<1>5. here' \in Int /\ 0 + 0 < here'
  BY <1>2, LenProperties DEF LoadPage, LayersInv, HistoryRight
<1>6. RouterRight(<<>>, 0, traversals', <<>>, here')
  BY <1>1, <1>4, <1>5, NewPage DEF RouterRight
<1> QED BY <1>2, <1>3, <1>6, NewPage DEF LayersInv, DialogsRight, LoadPage

-----------------------------------------------------------------------------
LayersSpec == LayersInit /\ [][LayersNext]_layersVars

\* The layers' inductive invariant holds: the page is at an entry deep enough
\* for its layers and for its own Backs to come, which are all under way.
THEOREM LayersInvariant == LayersSpec => []LayersInv
<1>0. LayersAssumption
  BY LayersAssumption
<1>1. LayersInit => LayersInv
  <2> SUFFICES ASSUME LayersInit PROVE LayersInv
    OBVIOUS
  <2>1. <<0>> \in Seq(0..MaxEntries) /\ Len(<<0>>) = 1 /\ DOMAIN <<0>> = {1} /\ <<0>>[1] = 0
    BY <1>0 DEF LayersAssumption
  <2>2. HistoryRight
    BY <2>1 DEF LayersInit, HistoryRight
  <2>3. <<>> \in Seq(Ways) /\ Ahead(0, <<>>)
    BY NoneAhead, EmptySeq
  <2>4. RouterRight(<<>>, 0, <<>>, <<>>, 1)
    BY <2>3, NewPage DEF RouterRight
  <2> QED BY <2>2, <2>4, NewPage DEF LayersInit, LayersInv, DialogsRight
<1>2. LayersInv /\ [LayersNext]_layersVars => LayersInv'
  <2> SUFFICES ASSUME LayersInv, [LayersNext]_layersVars PROVE LayersInv'
    OBVIOUS
  <2>1. CASE Opens
    BY <1>0, <2>1, TourShown, ModalOpened, MapOpened DEF Opens
  <2>2. CASE Closes
    BY <2>2, MapCollapsed, TopLayerClosed, QuestionAnswered, PanelClosed, SessionEnded DEF Closes
  <2>3. CASE GoBack
    BY <2>3, WentBack
  <2>4. CASE GoForward
    BY <2>4, WentForward
  <2>5. CASE ReloadPage \/ LeavePage
    BY <1>0, <2>5, PageLoaded
  <2>6. ASSUME NEW way \in Ways, Press(way) PROVE LayersInv'
    BY <2>6, Pressed
  <2>7. CASE UNCHANGED layersVars
    BY <2>7 DEF layersVars, historyVars, LayersInv, HistoryRight, DialogsRight
  <2> QED BY <2>1, <2>2, <2>3, <2>4, <2>5, <2>6, <2>7 DEF LayersNext, Ways
<1> QED BY <1>1, <1>2, PTL DEF LayersSpec

\* The layers, the dialogs, the question and the history always agree,
\* whatever is closed, pressed, reloaded or traversed, and however late.
THEOREM LayersAlwaysAgree == LayersSpec => []LayersAgree
<1>1. LayersInv => LayersAgree
  <2> SUFFICES ASSUME LayersInv PROVE LayersAgree
    OBVIOUS
  <2>1. LayersTypeOK
    <3>1. Layer = Modals \cup {"panel", "map"} /\ Ways = {"back", "forward"}
      BY DEF Layer, Ways
    <3> QED BY <3>1 DEF LayersInv, RouterRight, HistoryRight, DialogsRight, LayersTypeOK
  <2>2. OwnBacksCome
    BY AheadCounted DEF LayersInv, RouterRight, OwnBacksCome
  <2>3. BackStaysOnPage
    <3>1. here \in Nat /\ layerStack \in Seq(Layer) /\ ownBacks \in Nat /\ Len(layerStack) + ownBacks < here
      BY LenProperties DEF LayersInv, RouterRight, HistoryRight
    <3>2. Len(layerStack) \in Nat
      BY <3>1, LenProperties
    <3> QED BY <3>1, <3>2 DEF BackStaysOnPage
  <2>4. SameTop
    <3> SUFFICES ASSUME openModals # <<>>, NEW stacked, stacked = Filtered(layerStack, ToSet(openModals))
                 PROVE  stacked # <<>> /\ Last(stacked) = Last(openModals)
      BY DEF SameTop
    <3>1. PICK stack \in Seq(Layer), n \in Nat, modals \in Seq(Modals), m \in Nat :
            /\ stack = layerStack /\ n = Len(stack) /\ DOMAIN stack = 1..n
            /\ modals = openModals /\ m = Len(modals) /\ DOMAIN modals = 1..m
      BY LenProperties DEF LayersInv, RouterRight, DialogsRight
    <3>2. PICK S : S = ToSet(modals)
      OBVIOUS
    <3>3. stacked \in Seq(Layer) /\ \E place : Picks(stacked, stack, S, n, place)
      BY <3>1, <3>2, FilteredPicks
    <3>12. PICK k \in Nat : k = Len(stacked)
      BY <3>3, LenProperties
    <3>4. PICK place : k = Len(stacked) /\ Picks(stacked, stack, S, n, place)
      BY <3>3, <3>12
    <3>5. m \in 1..m
      BY <3>1, EmptySeq
    <3>6. PICK p : LayerOf(p, m, stack, modals)
      BY <3>1, <3>5 DEF Stacked, LayersInv, RouterRight
    <3>7. p \in 1..n /\ stack[p] = modals[m] /\ \A q \in 1..n : q > p => stack[q] \notin S
      BY <3>1, <3>2, <3>5, <3>6 DEF LayerOf, ToSet
    <3>8. stack[p] \in S
      BY <3>1, <3>2, <3>5, <3>7 DEF ToSet
    <3>9. PICK i \in 1..k : place[i] = p
      BY <3>4, <3>7, <3>8 DEF Picks
    <3>10. i = k
      <4>1. \A j \in 1..k : place[j] \in 1..n /\ stack[place[j]] \in S
        BY <3>4 DEF Picks
      <4>2. ASSUME NEW j \in 1..k, i < j PROVE FALSE
        <5>1. place[i] < place[j]
          BY <3>4, <4>2 DEF Picks
        <5> QED BY <3>7, <3>9, <4>1, <5>1
      <4>3. k \in 1..k
        OBVIOUS
      <4> QED BY <4>2, <4>3
    <3>11. stacked[k] = modals[m] /\ k # 0
      BY <3>4, <3>7, <3>9, <3>10 DEF Picks
    <3> QED BY <3>1, <3>3, <3>4, <3>11, EmptySeq DEF Last
  <2>5. QuestionSettles
    BY ContainsIs DEF LayersInv, DialogsRight, Asks, QuestionSettles
  <2> QED BY <2>1, <2>2, <2>3, <2>4, <2>5 DEF LayersAgree
<1> QED BY <1>1, LayersInvariant, PTL

-----------------------------------------------------------------------------
(* ListView. *)

ListViewSpec == ListViewInit /\ [][ListViewNext]_listViewVars

\* Taking one element out of a list.
LEMMA Taken ==
  ASSUME NEW S, NEW list \in Seq(S), NEW k \in 1..Len(list)
  PROVE  /\ RemoveAt(list, k) \in Seq(S) /\ Len(RemoveAt(list, k)) = Len(list) - 1
         /\ \A m \in 1..Len(list) - 1 :
              RemoveAt(list, k)[m] = IF m < k THEN list[m] ELSE list[m + 1]
<1>1. PICK n \in Nat : n = Len(list)
  BY LenProperties
<1>2. \A m \in 1..n : list[m] \in S
  BY <1>1, ElementOfSeq
<1> DEFINE a == SubSeq(list, 1, k - 1)  b == SubSeq(list, k + 1, n)
<1>3. /\ a \in Seq(S) /\ Len(a) = k - 1 /\ \A m \in 1..k - 1 : a[m] = list[m]
  <2>1. 1 \in Int /\ k - 1 \in Int /\ \A m \in 1..k - 1 : list[m] \in S
    BY <1>1, <1>2
  <2>2. /\ a \in Seq(S) /\ Len(a) = IF 1 <= k - 1 THEN k - 1 - 1 + 1 ELSE 0
        /\ \A m \in 1..k - 1 - 1 + 1 : a[m] = list[1 + m - 1]
    BY <2>1, SubSeqProperties
  <2> HIDE DEF a
  <2> QED BY <1>1, <2>2
<1>4. /\ b \in Seq(S) /\ Len(b) = n - k /\ \A m \in 1..n - k : b[m] = list[k + m]
  <2>1. k + 1 \in Int /\ n \in Int /\ \A m \in k + 1..n : list[m] \in S
    BY <1>1, <1>2
  <2>2. /\ b \in Seq(S) /\ Len(b) = IF k + 1 <= n THEN n - (k + 1) + 1 ELSE 0
        /\ \A m \in 1..n - (k + 1) + 1 : b[m] = list[k + 1 + m - 1]
    BY <2>1, SubSeqProperties
  <2> HIDE DEF b
  <2>3. k \in Int /\ k <= n /\ n - (k + 1) + 1 = n - k /\ \A m \in 1..n - k : k + 1 + m - 1 = k + m
    BY <1>1
  <2>4. Len(b) = n - k
    BY <1>1, <2>2, <2>3
  <2>5. \A m \in 1..n - k : b[m] = list[k + m]
    BY ONLY <2>2, <2>3
  <2> QED BY <2>2, <2>4, <2>5
<1>5. RemoveAt(list, k) = a \o b
  BY <1>1 DEF RemoveAt
<1> HIDE DEF a, b
<1>6. /\ a \o b \in Seq(S) /\ Len(a \o b) = Len(a) + Len(b)
      /\ \A m \in 1..Len(a) + Len(b) : (a \o b)[m] = IF m <= Len(a) THEN a[m] ELSE b[m - Len(a)]
  BY <1>3, <1>4, ConcatProperties, Zenon
<1>7. PICK c : c = a \o b
  OBVIOUS
<1> QED BY <1>1, <1>3, <1>4, <1>5, <1>6, <1>7


\* The list and its pages are of some length.
LEMMA Lengths == ListLength \in Nat /\ RowsPerPage \in Nat \ {0}
<1>1. ListLength \in Nat /\ RowsPerPage \in Nat \ {0}
  BY ListViewAssumption, Zenon
<1> QED BY <1>1

\* The default sort is one, and not what is left out of the URL.
LEMMA DefaultIsKey == DefaultSort \in SortKeys /\ "" \notin SortKeys /\ "" # DefaultSort
<1>1. DefaultSort \in SortKeys /\ "" \notin SortKeys
  BY ListViewAssumption, Zenon
<1> QED BY <1>1

\* How many numbers there are up to one.
LEMMA UpTo == ASSUME NEW n \in Nat PROVE IsFiniteSet(1..n) /\ Cardinality(1..n) = n
BY FS_Interval

\* A number divided by another.
LEMMA Divides ==
  ASSUME NEW x \in Nat, NEW d \in Nat \ {0}
  PROVE  x \div d \in Int /\ d * (x \div d) <= x /\ x < d * (x \div d) + d
<1>1. x % d \in 0..d - 1
  OBVIOUS
<1>2. x \div d \in Int /\ x = d * (x \div d) + (x % d)
  OBVIOUS
<1>3. PICK q \in Int : q = x \div d
  BY <1>2
<1>4. d * q \in Int
  BY <1>3
<1> QED BY <1>1, <1>2, <1>3, <1>4

\* A product grows with its factors.
LEMMA Grows ==
  ASSUME NEW d \in Nat \ {0}, NEW a \in Int, NEW b \in Int, a <= b
  PROVE  a * d \in Int /\ b * d \in Int /\ a * d <= b * d /\ (0 <= b => b <= b * d)
<1>1. PICK c \in Nat : b = a + c
  <2>1. b - a \in Nat /\ b = a + (b - a)
    OBVIOUS
  <2> QED BY <2>1
<1>2. c * d \in Nat /\ b * d = a * d + c * d
  BY <1>1
<1>3. PICK e \in Nat : d = e + 1
  <2>1. d - 1 \in Nat /\ d = (d - 1) + 1
    OBVIOUS
  <2> QED BY <2>1
<1>4. 0 <= b => b * e >= 0 /\ b * d = b * e + b
  BY <1>3
<1> QED BY <1>2, <1>4

\* The pages of a list: no more than its items, and something on the last.
LEMMA PagesOf ==
  ASSUME NEW n \in Nat
  PROVE  /\ totalPages(n) \in Nat \ {0} /\ (n = 0 => totalPages(n) = 1)
         /\ n # 0 => totalPages(n) <= n /\ (totalPages(n) - 1) * RowsPerPage < n
<1>1. CASE n = 0
  BY <1>1 DEF totalPages
<1>2. CASE n # 0
  <2>1. PICK d \in Nat \ {0} : d = RowsPerPage
    BY ListViewAssumption
  <2>2. PICK x \in Nat : x = n + d - 1
    <3>1. n + d - 1 \in Nat
      BY <1>2, <2>1
    <3> QED BY <3>1
  <2>3. PICK q \in Int : q = x \div d /\ d * q <= x /\ x < d * q + d
    BY <2>1, <2>2, Divides
  <2>4. totalPages(n) = q
    BY <1>2, <2>1, <2>2, <2>3 DEF totalPages
  <2>5. q * d = d * q /\ q * d \in Int /\ (q - 1) * d = q * d - d
    BY <2>1, <2>3
  <2>6. q >= 1
    <3>1. ASSUME q <= 0 PROVE FALSE
      <4>1. q * d <= 0 * d
        BY <2>1, <3>1, Grows
      <4>2. 0 * d = 0
        BY <2>1
      <4> QED BY <1>2, <2>1, <2>2, <2>3, <2>5, <4>1, <4>2
    <3> QED BY <2>3, <3>1
  <2>7. q <= n
    <3>1. ASSUME n + 1 <= q PROVE FALSE
      <4>1. (n + 1) * d <= q * d /\ n <= n * d
        BY <2>1, <3>1, Grows
      <4>2. (n + 1) * d = n * d + d /\ n * d \in Int
        BY <2>1
      <4> QED BY <2>1, <2>2, <2>3, <2>5, <4>1, <4>2
    <3> QED BY <2>3, <3>1
  <2>8. (q - 1) * d < n
    BY <2>1, <2>2, <2>3, <2>5
  <2> QED BY <1>2, <2>1, <2>3, <2>4, <2>6, <2>7, <2>8
<1> QED BY <1>1, <1>2

\* A page number within the pages there are.
LEMMA ClampedIs ==
  ASSUME NEW p \in Int, NEW n \in Nat
  PROVE  /\ clamped(p, n) \in 1..totalPages(n) /\ clamped(clamped(p, n), n) = clamped(p, n)
BY PagesOf DEF clamped

\* The lesser of two numbers, and the greater.
LEMMA OfTwo ==
  ASSUME NEW a \in Int, NEW b \in Int
  PROVE  Min({a, b}) = (IF a <= b THEN a ELSE b) /\ Max({a, b}) = IF a <= b THEN b ELSE a
<1>1. PICK m : m = IF a <= b THEN a ELSE b
  OBVIOUS
<1>2. m \in {a, b} /\ (\A y \in {a, b} : m <= y) /\ \A z \in {a, b} : (\A y \in {a, b} : z <= y) => z = m
  BY <1>1
<1>3. Min({a, b}) = m
  BY <1>2 DEF Min
<1>4. PICK w : w = IF a <= b THEN b ELSE a
  OBVIOUS
<1>5. w \in {a, b} /\ (\A y \in {a, b} : w >= y) /\ \A z \in {a, b} : (\A y \in {a, b} : z >= y) => z = w
  BY <1>4
<1>6. Max({a, b}) = w
  BY <1>5 DEF Max
<1> QED BY <1>1, <1>3, <1>4, <1>6

\* A page is that of the page number it is clamped to, and shows something while there is something.
LEMMA PageShown ==
  ASSUME NEW S, NEW items \in Seq(S), NEW p \in Int
  PROVE  /\ paginate(items, clamped(p, Len(items))) = paginate(items, p)
         /\ items = <<>> => paginate(items, p) = <<>>
         /\ items # <<>> => paginate(items, p) # <<>>
<1>1. PICK n \in Nat : n = Len(items)
  BY LenProperties
<1>2. PICK c \in Nat \ {0} : c = clamped(p, n) /\ c <= totalPages(n) /\ clamped(c, n) = c
  <2>1. clamped(p, n) \in 1..totalPages(n) /\ totalPages(n) \in Nat
    BY ClampedIs, PagesOf
  <2> QED BY <2>1, ClampedIs
<1>3. paginate(items, c) = paginate(items, p)
  BY <1>1, <1>2 DEF paginate
<1>4. PICK d \in Nat \ {0} : d = RowsPerPage
  BY ListViewAssumption
<1>5. PICK start \in Int : start = (c - 1) * d /\ 0 <= start
  <2>1. 0 <= c - 1 /\ 0 * d = 0 /\ c - 1 \in Int
    BY <1>4
  <2>2. 0 * d <= (c - 1) * d /\ (c - 1) * d \in Int
    BY <1>4, <2>1, Grows
  <2> QED BY <2>1, <2>2
<1>6. PICK end : end = Min({start + d, n})
  OBVIOUS
<1>7. end = IF start + d <= n THEN start + d ELSE n
  <2>1. start + d \in Int
    BY <1>4
  <2> QED BY <1>6, <2>1, OfTwo
<1>8. paginate(items, p) = SubSeq(items, start + 1, end)
  BY <1>1, <1>2, <1>4, <1>5, <1>6 DEF paginate
<1>9. PICK slice : slice = SubSeq(items, start + 1, end)
  OBVIOUS
<1>10. \A i \in 1..n : items[i] \in S
  BY <1>1, ElementOfSeq
<1>11. end \in Int /\ start + 1 \in Int /\ end <= n /\ start + 1 >= 1
  BY <1>4, <1>5, <1>7
<1>12. Len(slice) = IF start + 1 <= end THEN end - (start + 1) + 1 ELSE 0
  <2>1. \A i \in start + 1..end : items[i] \in S
    BY <1>10, <1>11
  <2> QED BY <1>9, <1>11, <2>1, SubSeqProperties
<1>13. slice \in Seq(S)
  <2>1. \A i \in start + 1..end : items[i] \in S
    BY <1>10, <1>11
  <2> QED BY <1>9, <1>11, <2>1, SubSeqProperties
<1>14. items = <<>> => slice = <<>>
  <2>1. items = <<>> => n = 0
    BY <1>1
  <2>2. n = 0 => Len(slice) = 0
    BY <1>5, <1>7, <1>11, <1>12
  <2> QED BY <1>13, <2>1, <2>2, EmptySeq
<1>15. items # <<>> => slice # <<>>
  <2>1. SUFFICES ASSUME items # <<>> PROVE slice # <<>>
    OBVIOUS
  <2>2. n # 0
    BY <1>1, <2>1, EmptySeq
  <2>3. PICK t \in Nat \ {0} : t = totalPages(n) /\ (t - 1) * d < n /\ c <= t
    BY <1>2, <1>4, <2>2, PagesOf
  <2>4. c - 1 <= t - 1 /\ c - 1 \in Int /\ t - 1 \in Int
    BY <2>3
  <2>5. (c - 1) * d <= (t - 1) * d /\ (t - 1) * d \in Int
    BY <1>4, <2>4, Grows
  <2>6. start < n
    BY <1>5, <2>3, <2>5
  <2>7. Len(slice) # 0
    BY <1>4, <1>5, <1>7, <1>12, <2>6
  <2> QED BY <2>7
<1> QED BY <1>1, <1>2, <1>3, <1>8, <1>9, <1>14, <1>15

-----------------------------------------------------------------------------
\* What is shown.

Texts == Queries \cup {<<>>}
PageNumbers == 0..Max({1, ListLength})

\* The rows shown are the page of what a search, a sort and a view select.
Shows(slice, number, list, key, query, narrowed, b) ==
  slice = paginate(tourListView(list, key, query, narrowed, b), number)

\* What the pager counts from, and the page it shows.
PagerRight == pageCount # 0 => shownPage \in 1..pageCount /\ pageNumber \in {1, shownPage}

\* Every entry has the URL of a view, and no more popstates are taken for the page's own than are to
\* come.
Urls == {buildAppUrl(key, query, narrowed) : key \in SortKeys, query \in Texts, narrowed \in BOOLEAN}
Entry == [url : Urls, depth : Nat]
UrlsTyped ==
  /\ pageEntries \in Seq(Entry) /\ atEntry \in 1..Len(pageEntries)
  /\ openLayers \in Seq({"panel", "dialog"})
  /\ backsAsked \in 0..UrlEntries /\ backsOwn \in 0..backsAsked /\ travelled \in BOOLEAN

ViewInv ==
  /\ rows \in Seq(Catalogue) /\ Len(rows) <= ListLength
  /\ search \in Texts /\ sortKey \in SortKeys /\ bounds \in Views
  /\ inViewOnly \in BOOLEAN /\ typing \in BOOLEAN /\ panning \in BOOLEAN
  /\ pageNumber \in PageNumbers /\ pageCount \in 0..ListLength
  /\ PagerRight /\ UrlsTyped
  /\ ~typing /\ ~travelled => listUrl = buildAppUrl(sortKey, search, inViewOnly)
  /\ ~typing /\ (~panning \/ ~inViewOnly) =>
       Shows(shownRows, pageNumber, rows, sortKey, search, inViewOnly, bounds)

\* A filter keeps no more than there is.
LEMMA FilteredShorter ==
  ASSUME NEW T, NEW list \in Seq(T), NEW S
  PROVE  Filtered(list, S) \in Seq(T) /\ Len(Filtered(list, S)) \in Nat /\ Len(Filtered(list, S)) <= Len(list)
<1>1. PICK F : F = Filtered(list, S)
  OBVIOUS
<1>2. F \in Seq(T)
  BY <1>1, FilteredPicks
<1>3. PICK place : Picks(F, list, S, Len(list), place)
  BY <1>1, FilteredPicks
<1>4. PICK l \in Nat, m \in Nat : l = Len(F) /\ m = Len(list)
  BY <1>2, LenProperties
<1>5. place \in [1..l -> 1..m] /\ \A i, j \in 1..l : i < j => place[i] < place[j]
  BY <1>3, <1>4 DEF Picks
<1>6. \A i, j \in 1..l : place[i] = place[j] => i = j
  <2> SUFFICES ASSUME NEW i \in 1..l, NEW j \in 1..l, i < j PROVE place[i] # place[j]
    OBVIOUS
  <2>1. place[i] \in 1..m /\ place[j] \in 1..m /\ place[i] < place[j]
    BY <1>5
  <2> QED BY <2>1
<1>7. place \in Injection(1..l, 1..m)
  BY <1>5, <1>6 DEF Injection, IsInjective
<1>8. Cardinality(1..l) = l /\ Cardinality(1..m) = m /\ IsFiniteSet(1..m)
  BY <1>4, UpTo
<1>9. Cardinality(1..l) <= Cardinality(1..m)
  BY <1>7, <1>8, FS_Injection
<1> QED BY <1>1, <1>2, <1>4, <1>8, <1>9

\* What a view shows is a list, no longer than that of the tours.
LEMMA ViewIs ==
  ASSUME NEW list \in Seq(Catalogue), NEW key, NEW query, NEW narrowed, NEW b
  PROVE  LET visible == tourListView(list, key, query, narrowed, b) IN
         visible \in Seq(Range(visible)) /\ Len(visible) \in Nat /\ Len(visible) <= Len(list)
<1>1. PICK of : of = IF narrowed THEN toursInView(list, b) ELSE list
  OBVIOUS
<1>2. of \in Seq(Catalogue) /\ Len(of) \in Nat /\ Len(of) <= Len(list)
  BY <1>1, FilteredShorter, LenProperties DEF toursInView
<1>3. PICK n \in Nat : n = Len(of) /\ DOMAIN of = 1..n
  BY <1>2, LenProperties
<1>4. PICK found : found = [i \in DOMAIN of |-> relevance(of[i], query)]
  OBVIOUS
<1>5. PICK hits : hits = {i \in DOMAIN of : found[i].matched}
  OBVIOUS
<1>6. IsFiniteSet(hits) /\ Cardinality(hits) <= n /\ Cardinality(hits) \in Nat
  <2>1. hits \in SUBSET (1..n)
    BY <1>3, <1>5
  <2>2. IsFiniteSet(1..n) /\ Cardinality(1..n) = n
    BY <1>3, UpTo
  <2> QED BY <2>1, <2>2, FS_Subset, FS_CardinalityType
<1>7. PICK visible : visible = tourListView(list, key, query, narrowed, b)
  OBVIOUS
<1>8. visible = inOrder(of, key, found)
  BY <1>1, <1>4, <1>7 DEF tourListView, visibleTours
<1>9. PICK c \in Nat : c = Cardinality(hits)
  BY <1>6
<1>10. DOMAIN visible = 1..c /\ visible = [k \in 1..c |-> visible[k]]
  BY <1>5, <1>8, <1>9 DEF inOrder
<1>11. visible \in Seq(Range(visible)) /\ Len(visible) = c
  BY <1>9, <1>10 DEF Range
<1> QED BY <1>2, <1>3, <1>6, <1>7, <1>9, <1>11

\* The last of the page numbers.
LEMMA LastPage == Max({1, ListLength}) = IF 1 <= ListLength THEN ListLength ELSE 1
BY Lengths, OfTwo

\* What is rendered is what is shown, under the page number that is kept.
LEMMA RenderShows ==
  ASSUME NEW list \in Seq(Catalogue), Len(list) <= ListLength, NEW key, NEW query, NEW narrowed, NEW b,
         NEW p \in PageNumbers, Render(list, key, query, narrowed, b, p)
  PROVE  /\ Shows(shownRows', pageNumber', list, key, query, narrowed, b)
         /\ pageNumber' \in PageNumbers /\ pageCount' \in 0..ListLength /\ PagerRight'
<1>1. PICK visible : visible = tourListView(list, key, query, narrowed, b)
  OBVIOUS
<1>2. PICK n \in Nat : n = Len(visible) /\ n <= ListLength
  <2>1. Len(visible) \in Nat /\ Len(visible) <= Len(list) /\ Len(list) \in Nat
    BY <1>1, ViewIs, LenProperties
  <2> QED BY <2>1, Lengths
<1>3. visible \in Seq(Range(visible)) /\ p \in Int
  BY <1>1, ViewIs DEF PageNumbers
<1>4. /\ shownRows' = paginate(visible, p)
      /\ pageCount' = IF visible = <<>> THEN 0 ELSE totalPages(n)
      /\ pageNumber' = IF visible = <<>> THEN p ELSE clamped(p, n)
      /\ shownPage' = IF visible = <<>> THEN shownPage ELSE clamped(p, n)
  BY <1>1, <1>2 DEF Render, showPage
<1>5. visible # <<>> => n # 0
  BY <1>2, <1>3, EmptySeq
<1>6. paginate(visible, clamped(p, n)) = paginate(visible, p)
  BY <1>2, <1>3, PageShown
<1>7. paginate(visible, pageNumber') = paginate(visible, p)
  BY <1>4, <1>6
<1>8. pageCount' \in 0..ListLength
  <2>1. n # 0 => totalPages(n) \in Nat /\ totalPages(n) <= n
    BY PagesOf
  <2> QED BY <1>2, <1>4, <1>5, <2>1, Lengths
<1>9. pageNumber' \in PageNumbers
  <2>1. n # 0 => clamped(p, n) \in Nat \ {0} /\ clamped(p, n) <= n
    <3>1. clamped(p, n) \in 1..totalPages(n) /\ totalPages(n) \in Nat /\ (n # 0 => totalPages(n) <= n)
      BY <1>3, ClampedIs, PagesOf
    <3> QED BY <3>1
  <2>2. Max({1, ListLength}) = IF 1 <= ListLength THEN ListLength ELSE 1
    BY LastPage
  <2> QED BY <1>2, <1>4, <1>5, <2>1, <2>2, Lengths DEF PageNumbers
<1>10. PagerRight'
  <2>1. visible # <<>> => clamped(p, n) \in 1..totalPages(n)
    BY <1>2, <1>3, ClampedIs
  <2> QED BY <1>4, <2>1 DEF PagerRight
<1> QED BY <1>1, <1>4, <1>7, <1>8, <1>9, <1>10 DEF Shows

\* The bound of the history.
LEMMA Bounded == UrlEntries \in Nat
<1>1. UrlEntries \in Nat \ {0}
  BY ListViewAssumption, Zenon
<1> QED BY <1>1

\* The pages counted are page numbers, and so is what is before the first.
LEMMA FirstPage == {0, 1} \subseteq PageNumbers /\ \A n \in 1..ListLength : n \in PageNumbers
BY LastPage, Lengths DEF PageNumbers

\* The URL brings back what it was made of.
LEMMA UrlReads ==
  ASSUME NEW key \in SortKeys, NEW query, NEW narrowed
  PROVE  parseAppUrl(buildAppUrl(key, query, narrowed)) = [sort |-> key, search |-> query, inView |-> narrowed]
BY DefaultIsKey DEF parseAppUrl, buildAppUrl

\* The URL of a view leaves out the default sort.
LEMMA UrlOf ==
  ASSUME NEW key \in SortKeys, NEW query \in Texts, NEW narrowed \in BOOLEAN
  PROVE  buildAppUrl(key, query, narrowed) \in Urls /\ buildAppUrl(key, query, narrowed).sort # DefaultSort
<1>1. buildAppUrl(key, query, narrowed) \in Urls
  BY DEF Urls
<1>2. buildAppUrl(key, query, narrowed).sort = IF key = DefaultSort THEN "" ELSE key
  BY DEF buildAppUrl
<1> QED BY <1>1, <1>2, DefaultIsKey

\* An entry that is given the URL of a view.
LEMMA EntrySynced ==
  ASSUME UrlsTyped, NEW e \in 1..Len(pageEntries),
         NEW key \in SortKeys, NEW query \in Texts, NEW narrowed \in BOOLEAN,
         Synced(e, key, query, narrowed), atEntry' = e,
         openLayers' \in Seq({"panel", "dialog"}), backsAsked' \in 0..UrlEntries, backsOwn' \in 0..backsAsked'
  PROVE  UrlsTyped' /\ listUrl' = buildAppUrl(key, query, narrowed) /\ travelled' = FALSE
<1>1. PICK url \in Urls : url = buildAppUrl(key, query, narrowed)
  BY DEF Urls
<1>2. PICK n \in Nat : n = Len(pageEntries) /\ DOMAIN pageEntries = 1..n /\ pageEntries \in [1..n -> Entry]
  BY LenProperties DEF UrlsTyped
<1>3. pageEntries' = [pageEntries EXCEPT ![e].url = url] /\ travelled' = FALSE
  BY <1>1 DEF Synced
<1>4. pageEntries[e] \in Entry
  BY <1>2
<1>5. [pageEntries[e] EXCEPT !.url = url] \in Entry /\ [pageEntries[e] EXCEPT !.url = url].url = url
  BY <1>4 DEF Entry
<1>6. pageEntries' = [pageEntries EXCEPT ![e] = [pageEntries[e] EXCEPT !.url = url]]
  BY <1>3
<1>7. pageEntries' \in [1..n -> Entry] /\ pageEntries'[e].url = url
  BY <1>2, <1>5, <1>6
<1>8. pageEntries' \in Seq(Entry) /\ Len(pageEntries') = n
  BY <1>7
<1> QED BY <1>1, <1>2, <1>3, <1>7, <1>8 DEF UrlsTyped, listUrl

\* The same entry is synced, over the same layers.
LEMMA HereSynced ==
  ASSUME UrlsTyped, NEW key \in SortKeys, NEW query \in Texts, NEW narrowed \in BOOLEAN,
         Synced(atEntry, key, query, narrowed), UNCHANGED layerVars
  PROVE  UrlsTyped' /\ listUrl' = buildAppUrl(key, query, narrowed) /\ travelled' = FALSE
<1>1. PICK e \in 1..Len(pageEntries) : e = atEntry
  BY DEF UrlsTyped
<1>2. /\ atEntry' = e /\ openLayers' = openLayers /\ backsAsked' = backsAsked /\ backsOwn' = backsOwn
  BY <1>1 DEF layerVars
<1>3. /\ openLayers \in Seq({"panel", "dialog"}) /\ backsAsked \in 0..UrlEntries
      /\ backsOwn \in 0..backsAsked
  BY DEF UrlsTyped
<1>4. Synced(e, key, query, narrowed)
  BY <1>1
<1> QED BY <1>2, <1>3, <1>4, EntrySynced

\* No entry is touched.
LEMMA UrlStays ==
  ASSUME UrlsTyped, UNCHANGED urlVars
  PROVE  UrlsTyped' /\ listUrl' = listUrl /\ travelled' = travelled
BY DEF UrlsTyped, urlVars, layerVars, listUrl

\* A rendering of all that is selected now, under the URL of it or while the rider types or has
\* travelled.
LEMMA RenderKeeps ==
  ASSUME ViewInv, rows' \in Seq(Catalogue), Len(rows') <= ListLength, NEW p \in PageNumbers,
         search' \in Texts, sortKey' \in SortKeys, inViewOnly' \in BOOLEAN,
         typing' \in BOOLEAN, panning' \in BOOLEAN, bounds' = bounds,
         UrlsTyped', ~typing' /\ ~travelled' => listUrl' = buildAppUrl(sortKey', search', inViewOnly'),
         Render(rows', sortKey', search', inViewOnly', bounds', p)
  PROVE  ViewInv'
<1>1. /\ Shows(shownRows', pageNumber', rows', sortKey', search', inViewOnly', bounds')
      /\ pageNumber' \in PageNumbers /\ pageCount' \in 0..ListLength /\ PagerRight'
  BY RenderShows
<1>2. bounds' \in Views
  BY DEF ViewInv
<1> QED BY <1>1, <1>2 DEF ViewInv

\* A rendering of the same search, sort and filter.
LEMMA AnewKeeps ==
  ASSUME ViewInv, rows' \in Seq(Catalogue), Len(rows') <= ListLength, NEW p \in PageNumbers,
         UNCHANGED <<chosenVars, bounds, typing, panning, urlVars>>,
         Render(rows', sortKey, search, inViewOnly, bounds, p)
  PROVE  ViewInv'
<1>1. /\ search' = search /\ sortKey' = sortKey /\ inViewOnly' = inViewOnly /\ bounds' = bounds
      /\ typing' = typing /\ panning' = panning /\ listUrl' = listUrl /\ travelled' = travelled /\ UrlsTyped'
  BY UrlStays DEF chosenVars, ViewInv
<1>2. /\ search' \in Texts /\ sortKey' \in SortKeys /\ inViewOnly' \in BOOLEAN
      /\ typing' \in BOOLEAN /\ panning' \in BOOLEAN
  BY <1>1 DEF ViewInv
<1>3. ~typing' /\ ~travelled' => listUrl' = buildAppUrl(sortKey', search', inViewOnly')
  BY <1>1 DEF ViewInv
<1>4. Render(rows', sortKey', search', inViewOnly', bounds', p)
  BY <1>1
<1> QED BY <1>1, <1>2, <1>3, <1>4, RenderKeeps

\* Another filter.
LEMMA FilterKeeps ==
  ASSUME ViewInv, NEW query \in Texts, NEW key \in SortKeys, NEW narrowed \in BOOLEAN,
         applyListFilter(query, key, narrowed)
  PROVE  ViewInv'
<1>1. /\ search' = query /\ sortKey' = key /\ inViewOnly' = narrowed
      /\ UrlsTyped' /\ listUrl' = buildAppUrl(key, query, narrowed)
      /\ Render(rows, key, query, narrowed, bounds, 1)
      /\ rows' = rows /\ bounds' = bounds /\ typing' = typing /\ panning' = panning
  BY HereSynced DEF applyListFilter, ViewInv
<1>2. /\ search' \in Texts /\ sortKey' \in SortKeys /\ inViewOnly' \in BOOLEAN
      /\ typing' \in BOOLEAN /\ panning' \in BOOLEAN /\ rows' \in Seq(Catalogue) /\ Len(rows') <= ListLength
  BY <1>1 DEF ViewInv
<1>3. listUrl' = buildAppUrl(sortKey', search', inViewOnly')
  BY <1>1
<1>4. Render(rows', sortKey', search', inViewOnly', bounds', 1)
  BY <1>1
<1> QED BY <1>1, <1>2, <1>3, <1>4, FirstPage, RenderKeeps

\* The map's view moves under a list that is not narrowed to it.
LEMMA UnnarrowedShows ==
  ASSUME NEW slice, NEW number, NEW list, NEW key, NEW query, NEW a, NEW b,
         Shows(slice, number, list, key, query, FALSE, a)
  PROVE  Shows(slice, number, list, key, query, FALSE, b)
BY DEF Shows, tourListView

\* A tour goes.
LEMMA DropKeeps == ASSUME ViewInv, NEW i \in DOMAIN rows, DropTour(i) PROVE ViewInv'
<1>1. PICK n \in Nat : n = Len(rows) /\ n <= ListLength /\ i \in 1..n
  BY LenProperties DEF ViewInv
<1>2. rows' \in Seq(Catalogue) /\ Len(rows') <= ListLength
  <2>1. rows' = RemoveAt(rows, i) /\ rows \in Seq(Catalogue)
    BY DEF DropTour, ViewInv
  <2>2. rows' \in Seq(Catalogue) /\ Len(rows') = n - 1
    BY <1>1, <2>1, Taken
  <2> QED BY <1>1, <2>2, Lengths
<1>3. /\ pageNumber \in PageNumbers /\ Render(rows', sortKey, search, inViewOnly, bounds, pageNumber)
      /\ UNCHANGED <<chosenVars, bounds, typing, panning, urlVars>>
  BY DEF DropTour, ViewInv
<1> QED BY <1>2, <1>3, AnewKeeps

\* The page is opened anew.
LEMMA ReopenKeeps == ASSUME ViewInv, ReopenPage PROVE ViewInv'
<1>1. PICK key \in SortKeys, query \in Texts, narrowed \in BOOLEAN : listUrl = buildAppUrl(key, query, narrowed)
  <2>1. pageEntries[atEntry] \in Entry
    <3>1. pageEntries \in Seq(Entry) /\ atEntry \in 1..Len(pageEntries)
      BY DEF ViewInv, UrlsTyped
    <3> QED BY <3>1, LenProperties
  <2>2. listUrl \in Urls
    BY <2>1 DEF Entry, listUrl
  <2> QED BY <2>2 DEF Urls
<1>2. parseAppUrl(listUrl) = [sort |-> key, search |-> query, inView |-> narrowed]
  BY <1>1, UrlReads
<1>3. /\ search' = query /\ sortKey' = key /\ inViewOnly' = narrowed /\ typing' = FALSE /\ panning' = FALSE
      /\ Render(rows, key, query, narrowed, bounds, 1)
      /\ rows' = rows /\ bounds' = bounds
  BY <1>2 DEF ReopenPage
<1>4. /\ search' \in Texts /\ sortKey' \in SortKeys /\ inViewOnly' \in BOOLEAN
      /\ typing' \in BOOLEAN /\ panning' \in BOOLEAN /\ rows' \in Seq(Catalogue) /\ Len(rows') <= ListLength
  BY <1>3 DEF ViewInv
<1>5. UrlsTyped' /\ listUrl' = listUrl
  <2>1. PICK e \in 1..Len(pageEntries), n \in Nat :
          /\ e = atEntry /\ n = Len(pageEntries) /\ DOMAIN pageEntries = 1..n
          /\ pageEntries \in [1..n -> Entry]
    BY LenProperties DEF ViewInv, UrlsTyped
  <2>2. PICK anew : anew = [pageEntries[e] EXCEPT !.depth = 0]
    OBVIOUS
  <2>3. pageEntries[e] \in Entry
    BY <2>1
  <2>4. anew \in Entry /\ anew.url = pageEntries[e].url
    BY <2>2, <2>3 DEF Entry
  <2>5. /\ pageEntries' = [pageEntries EXCEPT ![e] = anew] /\ atEntry' = e
        /\ openLayers' = <<>> /\ backsOwn' = 0 /\ backsAsked' \in {0, backsAsked} /\ travelled' = FALSE
    BY <2>1, <2>2 DEF ReopenPage
  <2>6. pageEntries' \in [1..n -> Entry] /\ pageEntries'[e].url = pageEntries[e].url
    BY <2>1, <2>4, <2>5
  <2>7. pageEntries' \in Seq(Entry) /\ Len(pageEntries') = n
    BY <2>6
  <2>8. backsAsked' \in 0..UrlEntries /\ backsOwn' \in 0..backsAsked' /\ openLayers' \in Seq({"panel", "dialog"})
    <3>1. backsAsked \in 0..UrlEntries /\ 0 \in 0..UrlEntries
      BY Bounded DEF ViewInv, UrlsTyped
    <3>2. backsAsked' \in 0..UrlEntries
      BY <2>5, <3>1
    <3>3. 0 \in 0..backsAsked'
      BY <3>2
    <3>4. <<>> \in Seq({"panel", "dialog"})
      OBVIOUS
    <3> QED BY <2>5, <3>2, <3>3, <3>4
  <2> QED BY <2>1, <2>5, <2>6, <2>7, <2>8 DEF UrlsTyped, listUrl
<1>6. listUrl' = buildAppUrl(sortKey', search', inViewOnly')
  BY <1>1, <1>3, <1>5
<1>7. Render(rows', sortKey', search', inViewOnly', bounds', 1)
  BY <1>3
<1> QED BY <1>3, <1>4, <1>5, <1>6, <1>7, FirstPage, RenderKeeps

\* The list follows what was typed.
LEMMA SearchKeeps == ASSUME ViewInv, renderSearchResults PROVE ViewInv'
<1>1. /\ UrlsTyped' /\ listUrl' = buildAppUrl(sortKey, search, inViewOnly) /\ typing' = FALSE
      /\ Render(rows, sortKey, search, inViewOnly, bounds, pageNumber)
      /\ rows' = rows /\ search' = search /\ sortKey' = sortKey /\ inViewOnly' = inViewOnly
      /\ bounds' = bounds /\ panning' = panning
  BY HereSynced DEF renderSearchResults, chosenVars, ViewInv
<1>2. /\ search' \in Texts /\ sortKey' \in SortKeys /\ inViewOnly' \in BOOLEAN /\ pageNumber \in PageNumbers
      /\ typing' \in BOOLEAN /\ panning' \in BOOLEAN /\ rows' \in Seq(Catalogue) /\ Len(rows') <= ListLength
  BY <1>1 DEF ViewInv
<1>3. listUrl' = buildAppUrl(sortKey', search', inViewOnly')
  BY <1>1
<1>4. Render(rows', sortKey', search', inViewOnly', bounds', pageNumber)
  BY <1>1
<1> QED BY <1>1, <1>2, <1>3, <1>4, RenderKeeps

\* The list follows the map.
LEMMA PannedKeeps == ASSUME ViewInv, renderInViewList PROVE ViewInv'
<1>1. /\ panning' = FALSE /\ rows' = rows /\ search' = search /\ sortKey' = sortKey
      /\ inViewOnly' = inViewOnly /\ bounds' = bounds /\ typing' = typing
      /\ UrlsTyped' /\ listUrl' = listUrl /\ travelled' = travelled
  BY UrlStays DEF renderInViewList, chosenVars, ViewInv
<1>2. CASE inViewOnly
  <2>1. Render(rows', sortKey', search', inViewOnly', bounds', pageNumber)
    BY <1>1, <1>2 DEF renderInViewList
  <2>2. /\ search' \in Texts /\ sortKey' \in SortKeys /\ inViewOnly' \in BOOLEAN /\ pageNumber \in PageNumbers
        /\ typing' \in BOOLEAN /\ panning' \in BOOLEAN /\ rows' \in Seq(Catalogue) /\ Len(rows') <= ListLength
    BY <1>1 DEF ViewInv
  <2>3. ~typing' /\ ~travelled' => listUrl' = buildAppUrl(sortKey', search', inViewOnly')
    BY <1>1 DEF ViewInv
  <2> QED BY <1>1, <2>1, <2>2, <2>3, RenderKeeps
<1>3. CASE ~inViewOnly
  <2>1. pageNumber' = pageNumber /\ shownRows' = shownRows /\ pageCount' = pageCount /\ shownPage' = shownPage
    BY <1>3 DEF renderInViewList, renderedVars
  <2>2. PagerRight'
    BY <2>1 DEF ViewInv, PagerRight
  <2> QED BY <1>1, <1>3, <2>1, <2>2 DEF ViewInv
<1> QED BY <1>2, <1>3 DEF ViewInv

\* The rider types.
LEMMA TypeKeeps == ASSUME ViewInv, NEW query \in Queries, TypeSearch(query) PROVE ViewInv'
<1>1. /\ search' = query /\ pageNumber' = 1 /\ typing' = TRUE
      /\ UNCHANGED <<rows, sortKey, inViewOnly, bounds, panning, shownRows, shownPage, pageCount>>
      /\ UrlsTyped'
  BY UrlStays DEF TypeSearch, renderedVars, ViewInv
<1>2. PagerRight'
  BY <1>1 DEF ViewInv, PagerRight
<1> QED BY <1>1, <1>2, FirstPage DEF ViewInv, Texts

\* The rider moves the map.
LEMMA MoveKeeps == ASSUME ViewInv, NEW b \in Views, MoveMap(b) PROVE ViewInv'
<1>1. /\ bounds' = b /\ panning' = TRUE /\ rows' = rows /\ search' = search /\ sortKey' = sortKey
      /\ pageNumber' = pageNumber /\ inViewOnly' = inViewOnly /\ typing' = typing
      /\ shownRows' = shownRows /\ pageCount' = pageCount /\ shownPage' = shownPage
      /\ UrlsTyped' /\ listUrl' = listUrl /\ travelled' = travelled
  BY UrlStays DEF MoveMap, chosenVars, renderedVars, ViewInv
<1>2. ASSUME ~typing, ~inViewOnly
      PROVE  Shows(shownRows, pageNumber, rows, sortKey, search, inViewOnly, b)
  <2>1. inViewOnly = FALSE
    BY <1>2 DEF ViewInv
  <2> QED BY <1>2, <2>1, UnnarrowedShows DEF ViewInv
<1>3. PagerRight'
  BY <1>1 DEF ViewInv, PagerRight
<1> QED BY <1>1, <1>2, <1>3 DEF ViewInv

\* The history moves under the same list.
LEMMA HistoryKeeps ==
  ASSUME ViewInv, UNCHANGED <<rows, chosenVars, pageNumber, bounds, typing, panning, renderedVars>>,
         UrlsTyped', ~typing /\ ~travelled' => listUrl' = buildAppUrl(sortKey, search, inViewOnly)
  PROVE  ViewInv'
<1>1. /\ rows' = rows /\ search' = search /\ sortKey' = sortKey /\ inViewOnly' = inViewOnly
      /\ pageNumber' = pageNumber /\ bounds' = bounds /\ typing' = typing /\ panning' = panning
      /\ shownRows' = shownRows /\ pageCount' = pageCount /\ shownPage' = shownPage
  BY DEF chosenVars, renderedVars
<1>2. PagerRight'
  BY <1>1 DEF ViewInv, PagerRight
<1> QED BY <1>1, <1>2 DEF ViewInv

\* A layer is opened, in an entry of its own.
LEMMA OpenKeeps == ASSUME ViewInv, NEW layer \in {"panel", "dialog"}, OpenLayer(layer) PROVE ViewInv'
<1>1. PICK n \in Nat, e \in 1..Len(pageEntries) :
        /\ n = Len(pageEntries) /\ pageEntries \in [1..n -> Entry] /\ e = atEntry
  BY LenProperties DEF ViewInv, UrlsTyped
<1>2. PICK url \in Urls : url = buildAppUrl(sortKey, search, inViewOnly)
  BY DEF ViewInv, Urls
<1>3. openLayers' \in Seq({"panel", "dialog"}) /\ Len(openLayers') \in Nat
  BY AppendProperties, LenProperties DEF OpenLayer, ViewInv, UrlsTyped
<1>4. PICK new \in Entry : new = [url |-> url, depth |-> Len(openLayers')]
  BY <1>3 DEF Entry
<1>5. PICK below : below = SubSeq(pageEntries, 1, e)
  OBVIOUS
<1>6. below \in Seq(Entry) /\ Len(below) = e
  BY <1>1, <1>5, SubSeqProperties
<1>7. pageEntries' = Append(below, new) /\ atEntry' = e + 1
  BY <1>1, <1>2, <1>4, <1>5 DEF OpenLayer
<1>8. pageEntries' \in Seq(Entry) /\ Len(pageEntries') = e + 1 /\ pageEntries'[e + 1] = new
  BY <1>6, <1>7, AppendProperties
<1>9. UrlsTyped'
  <2>1. atEntry' \in 1..Len(pageEntries')
    BY <1>7, <1>8
  <2>2. /\ backsAsked' = backsAsked /\ backsOwn' = backsOwn /\ travelled' = FALSE
        /\ backsAsked \in 0..UrlEntries /\ backsOwn \in 0..backsAsked
    BY DEF OpenLayer, ViewInv, UrlsTyped
  <2> QED BY <1>3, <1>8, <2>1, <2>2 DEF UrlsTyped
<1>10. listUrl' = buildAppUrl(sortKey, search, inViewOnly)
  BY <1>2, <1>4, <1>7, <1>8 DEF listUrl
<1> QED BY <1>9, <1>10, HistoryKeeps DEF OpenLayer

\* The layer on top is released.
LEMMA LayerReleased ==
  ASSUME UrlsTyped, openLayers # <<>>, Release
  PROVE  /\ openLayers' \in Seq({"panel", "dialog"}) /\ backsAsked' \in 0..UrlEntries
         /\ backsOwn' \in 0..backsAsked'
<1>1. PICK n \in Nat : n = Len(openLayers) /\ openLayers \in [1..n -> {"panel", "dialog"}]
  BY LenProperties DEF UrlsTyped
<1>2. openLayers' = SubSeq(openLayers, 1, n - 1)
  BY <1>1 DEF Release, Front
<1>3. openLayers' \in Seq({"panel", "dialog"})
  BY <1>1, <1>2, SubSeqProperties
<1>4. /\ backsAsked \in 0..UrlEntries /\ backsOwn \in 0..backsAsked /\ backsAsked < UrlEntries
      /\ backsAsked' = backsAsked + 1 /\ backsOwn' = backsOwn + 1
  BY DEF UrlsTyped, Release
<1> QED BY <1>3, <1>4, Bounded

LEMMA DialogKeeps == ASSUME ViewInv, CloseDialog PROVE ViewInv'
<1>1. /\ openLayers' \in Seq({"panel", "dialog"}) /\ backsAsked' \in 0..UrlEntries
      /\ backsOwn' \in 0..backsAsked'
  BY LayerReleased DEF CloseDialog, OnTopIs, ViewInv
<1>2. pageEntries' = pageEntries /\ atEntry' = atEntry /\ travelled' = travelled
  BY DEF CloseDialog
<1>3. UrlsTyped' /\ listUrl' = listUrl
  BY <1>1, <1>2 DEF ViewInv, UrlsTyped, listUrl
<1>4. ~typing /\ ~travelled' => listUrl' = buildAppUrl(sortKey, search, inViewOnly)
  BY <1>2, <1>3 DEF ViewInv
<1> QED BY <1>3, <1>4, HistoryKeeps DEF CloseDialog

LEMMA PanelKeeps == ASSUME ViewInv, PanelCloses PROVE ViewInv'
<1>1. /\ openLayers' \in Seq({"panel", "dialog"}) /\ backsAsked' \in 0..UrlEntries
      /\ backsOwn' \in 0..backsAsked'
  <2>1. CASE OnTopIs("panel")
    BY <2>1, LayerReleased DEF PanelCloses, OnTopIs, ViewInv
  <2>2. CASE ~OnTopIs("panel")
    <3>1. openLayers' = openLayers /\ backsAsked' = backsAsked /\ backsOwn' = backsOwn
      BY <2>2 DEF PanelCloses
    <3> QED BY <3>1 DEF ViewInv, UrlsTyped
  <2> QED BY <2>1, <2>2
<1>2. PICK e \in 1..Len(pageEntries) : e = atEntry
  BY DEF ViewInv, UrlsTyped
<1>3. UrlsTyped' /\ listUrl' = buildAppUrl(sortKey, search, inViewOnly)
  BY <1>1, <1>2, EntrySynced DEF PanelCloses, ViewInv
<1> QED BY <1>3, HistoryKeeps DEF PanelCloses

\* A popstate, of the page's own Back or of the rider's.
LEMMA LandsKeeps ==
  ASSUME ViewInv, NEW e \in 1..Len(pageEntries), Lands(e), backsAsked' \in 0..UrlEntries,
         \/ backsAsked' = backsAsked
         \/ backsAsked > 0 /\ backsAsked' = backsAsked - 1
  PROVE  ViewInv'
<1>1. /\ UrlsTyped /\ sortKey \in SortKeys /\ search \in Texts /\ inViewOnly \in BOOLEAN
      /\ backsAsked \in 0..UrlEntries /\ backsOwn \in 0..backsAsked /\ openLayers \in Seq({"panel", "dialog"})
  BY DEF ViewInv, UrlsTyped
<1>2. /\ atEntry' = e
      /\ UNCHANGED <<rows, chosenVars, pageNumber, bounds, typing, panning, renderedVars>>
  BY DEF Lands
<1>3. CASE backsOwn > 0
  <2>1. backsOwn' = backsOwn - 1 /\ openLayers' = openLayers /\ Synced(e, sortKey, search, inViewOnly)
    BY <1>3 DEF Lands, OwnBackLands
  <2>2. backsOwn' \in 0..backsAsked'
    BY <1>1, <1>3, <2>1, Bounded
  <2>3. UrlsTyped' /\ listUrl' = buildAppUrl(sortKey, search, inViewOnly)
    BY <1>1, <1>2, <2>1, <2>2, EntrySynced
  <2> QED BY <1>2, <2>3, HistoryKeeps
<1>4. CASE ~(backsOwn > 0)
  <2>1. PICK kept : kept = Kept(pageEntries[e].depth)
    OBVIOUS
  <2>2. /\ backsOwn' = backsOwn /\ openLayers' = kept
        /\ Synced(e, sortKey, search, inViewOnly) \/ UrlLeft
    BY <1>4, <2>1 DEF Lands
  <2>3. kept \in Seq({"panel", "dialog"})
    <3>1. pageEntries[e] \in Entry
      BY <1>1, LenProperties DEF UrlsTyped
    <3>2. PICK d \in Nat : d = pageEntries[e].depth
      BY <3>1 DEF Entry
    <3>3. PICK m \in Nat : m = Len(openLayers) /\ openLayers \in [1..m -> {"panel", "dialog"}]
      BY <1>1, LenProperties
    <3>4. PICK k \in Nat : k = (IF d < m THEN d ELSE m) /\ k <= m
      OBVIOUS
    <3>5. kept = SubSeq(openLayers, 1, k)
      BY <2>1, <3>2, <3>3, <3>4 DEF Kept
    <3> QED BY <3>3, <3>4, <3>5, SubSeqProperties
  <2>4. backsOwn' \in 0..backsAsked'
    BY <1>1, <1>4, <2>2, Bounded
  <2>5. CASE Synced(e, sortKey, search, inViewOnly)
    <3>1. UrlsTyped' /\ listUrl' = buildAppUrl(sortKey, search, inViewOnly)
      BY <1>1, <1>2, <2>2, <2>3, <2>4, <2>5, EntrySynced
    <3> QED BY <1>2, <3>1, HistoryKeeps
  <2>6. CASE UrlLeft
    <3>1. pageEntries' = pageEntries /\ travelled' = TRUE
      BY <2>6 DEF UrlLeft
    <3>2. UrlsTyped'
      BY <1>1, <1>2, <2>2, <2>3, <2>4, <3>1 DEF UrlsTyped
    <3> QED BY <1>2, <3>1, <3>2, HistoryKeeps
  <2> QED BY <2>2, <2>5, <2>6
<1> QED BY <1>3, <1>4

\* It holds at first.
LEMMA ViewStart == ListViewInit => ViewInv
<1> SUFFICES ASSUME ListViewInit PROVE ViewInv
  OBVIOUS
<1>1. rows \in Seq(Catalogue) /\ Len(rows) \in Nat /\ Len(rows) <= ListLength
  <2>1. PICK n \in 0..ListLength : rows \in [1..n -> Catalogue]
    BY DEF ListViewInit
  <2>2. n \in Nat /\ n <= ListLength
    BY <2>1, Lengths
  <2> QED BY <2>1, <2>2
<1>2. /\ search = <<>> /\ sortKey = DefaultSort /\ inViewOnly = FALSE /\ bounds \in Views
      /\ typing = FALSE /\ panning = FALSE /\ travelled = FALSE
      /\ pageEntries = <<[url |-> buildAppUrl(DefaultSort, <<>>, FALSE), depth |-> 0]>> /\ atEntry = 1
      /\ openLayers = <<>> /\ backsAsked = 0 /\ backsOwn = 0
      /\ pageNumber = 1 /\ shownPage = 1 /\ shownRows = paginate(visibleTours(rows, DefaultSort, <<>>), 1)
      /\ pageCount = IF rows = <<>> THEN 0 ELSE totalPages(Len(rows))
  BY DEF ListViewInit
<1>3. pageCount \in 0..ListLength
  <2>1. Len(rows) # 0 => totalPages(Len(rows)) \in Nat /\ totalPages(Len(rows)) <= Len(rows)
    BY <1>1, PagesOf
  <2>2. rows # <<>> => Len(rows) # 0
    BY <1>1, EmptySeq
  <2> QED BY <1>1, <1>2, <2>1, <2>2, Lengths
<1>4. Shows(shownRows, pageNumber, rows, sortKey, search, inViewOnly, bounds)
  BY <1>2 DEF Shows, tourListView
<1>5. search \in Texts /\ sortKey \in SortKeys
  BY <1>2, DefaultIsKey DEF Texts
<1>6. UrlsTyped /\ listUrl = buildAppUrl(DefaultSort, <<>>, FALSE)
  <2>1. PICK url \in Urls : url = buildAppUrl(DefaultSort, <<>>, FALSE)
    <3>1. DefaultSort \in SortKeys /\ <<>> \in Texts /\ FALSE \in BOOLEAN
      BY DefaultIsKey DEF Texts
    <3> QED BY <3>1, UrlOf, Zenon
  <2>2. PICK first \in Entry : first = [url |-> url, depth |-> 0]
    BY DEF Entry
  <2>3. pageEntries = <<first>> /\ first.url = url
    BY <1>2, <2>1, <2>2
  <2>4. pageEntries \in Seq(Entry) /\ Len(pageEntries) = 1 /\ pageEntries[1] = first
    BY <2>3
  <2>5. 0 \in 0..UrlEntries /\ <<>> \in Seq({"panel", "dialog"})
    BY Bounded
  <2>6. atEntry \in 1..Len(pageEntries) /\ listUrl = url
    <3>1. atEntry = 1
      BY <1>2
    <3>2. first.url = url
      BY <2>3
    <3> QED BY <2>4, <3>1, <3>2 DEF listUrl
  <2>7. backsAsked \in 0..UrlEntries /\ backsOwn \in 0..backsAsked /\ openLayers \in Seq({"panel", "dialog"})
    BY <1>2, <2>5
  <2> QED BY <1>2, <2>1, <2>4, <2>6, <2>7 DEF UrlsTyped
<1>7. PagerRight
  <2>1. rows # <<>> => 1 \in 1..pageCount
    BY <1>1, <1>2, PagesOf
  <2> QED BY <1>2, <2>1 DEF PagerRight
<1> QED BY <1>1, <1>2, <1>3, <1>4, <1>5, <1>6, <1>7, FirstPage DEF ViewInv

\* Every step keeps it.
LEMMA ViewStep == ASSUME ViewInv, [ListViewNext]_listViewVars PROVE ViewInv'
<1>1. ASSUME NEW key \in SortKeys, ChooseSort(key) PROVE ViewInv'
  BY <1>1, FilterKeeps DEF ChooseSort, ViewInv
<1>2. ASSUME NEW step \in {-1, 1}, TurnPage(step) PROVE ViewInv'
  <2>1. PICK p : p = pageNumber + step
    OBVIOUS
  <2>2. p \in PageNumbers
    <3>1. /\ shownPage + step \in 1..pageCount /\ pageCount \in 0..ListLength
          /\ pageCount # 0 => shownPage \in 1..pageCount /\ pageNumber \in {1, shownPage}
      BY <1>2 DEF TurnPage, ViewInv, PagerRight
    <3>2. pageCount \in Nat /\ shownPage \in 1..pageCount /\ pageNumber \in {1, shownPage}
      BY <3>1, Lengths
    <3>3. p = 0 \/ p \in 1..pageCount
      BY <2>1, <3>1, <3>2
    <3> QED BY <3>1, <3>3, FirstPage, Lengths
  <2>3. /\ Render(rows, sortKey, search, inViewOnly, bounds, p) /\ rows' = rows
        /\ UNCHANGED <<chosenVars, bounds, typing, panning, urlVars>>
    BY <1>2, <2>1 DEF TurnPage
  <2>4. rows' \in Seq(Catalogue) /\ Len(rows') <= ListLength /\ Render(rows', sortKey, search, inViewOnly, bounds, p)
    BY <2>3 DEF ViewInv
  <2> QED BY <2>2, <2>3, <2>4, AnewKeeps
<1>3. ASSUME ClearSearch PROVE ViewInv'
  BY <1>3, FilterKeeps DEF ClearSearch, ViewInv, Texts
<1>4. ASSUME NarrowToView PROVE ViewInv'
  <2>1. inViewOnly \in BOOLEAN /\ search \in Texts /\ sortKey \in SortKeys
    BY DEF ViewInv
  <2>2. (~inViewOnly) \in BOOLEAN
    BY Zenon
  <2> QED BY <1>4, <2>1, <2>2, FilterKeeps DEF NarrowToView
<1>5. ASSUME UNCHANGED listViewVars PROVE ViewInv'
  <2>1. /\ UNCHANGED <<rows, chosenVars, pageNumber, bounds, typing, panning, renderedVars>>
        /\ UNCHANGED urlVars
    BY <1>5 DEF listViewVars
  <2>2. UrlsTyped' /\ listUrl' = listUrl /\ travelled' = travelled
    BY <2>1, UrlStays DEF ViewInv
  <2>3. ~typing /\ ~travelled' => listUrl' = buildAppUrl(sortKey, search, inViewOnly)
    BY <2>2 DEF ViewInv
  <2> QED BY <2>1, <2>2, <2>3, HistoryKeeps
<1>6. ASSUME NEW step \in {-1, 1}, RiderTravels(step) PROVE ViewInv'
  <2>1. PICK e \in 1..Len(pageEntries) : e = atEntry + step
    BY <1>6, LenProperties DEF RiderTravels, ViewInv, UrlsTyped
  <2>2. Lands(e) /\ backsAsked' = backsAsked /\ backsAsked \in 0..UrlEntries
    BY <1>6, <2>1 DEF RiderTravels, ViewInv, UrlsTyped
  <2> QED BY <2>2, LandsKeeps
<1>7. ASSUME BackComes PROVE ViewInv'
  <2>1. /\ atEntry \in 1..Len(pageEntries) /\ Len(pageEntries) \in Nat /\ backsAsked \in 0..UrlEntries
        /\ atEntry > 1 /\ backsAsked > 0 /\ backsAsked' = backsAsked - 1
    BY <1>7, LenProperties DEF BackComes, ViewInv, UrlsTyped
  <2>2. PICK e \in 1..Len(pageEntries) : e = atEntry - 1
    BY <2>1
  <2>3. Lands(e) /\ backsAsked' \in 0..UrlEntries
    BY <1>7, <2>1, <2>2, Bounded DEF BackComes
  <2> QED BY <2>1, <2>3, LandsKeeps
<1> QED BY OpenKeeps, DialogKeeps, PanelKeeps, <1>6, <1>7, <1>1, <1>2, <1>3, <1>4, <1>5, TypeKeeps, MoveKeeps, DropKeeps, SearchKeeps, PannedKeeps, ReopenKeeps
        DEF ListViewNext

\* The rows shown are those selected, and the URL brings the view back.
LEMMA ListShowsAndKeeps == ViewInv => ShowsTheView /\ UrlKeepsView
<1> SUFFICES ASSUME ViewInv PROVE ShowsTheView /\ UrlKeepsView
  OBVIOUS
<1>1. UrlKeepsView
  <2> SUFFICES ASSUME ~typing, ~travelled
               PROVE  parseAppUrl(listUrl) = [sort |-> sortKey, search |-> search, inView |-> inViewOnly]
    BY DEF UrlKeepsView
  <2>1. listUrl = buildAppUrl(sortKey, search, inViewOnly) /\ sortKey \in SortKeys
    BY DEF ViewInv
  <2> QED BY <2>1, UrlReads
<1>2. ASSUME ~typing, ~panning
      PROVE  LET visible == tourListView(rows, sortKey, search, inViewOnly, bounds) IN
             shownRows = paginate(visible, pageNumber) /\ (visible # <<>> => shownRows # <<>>)
  <2>1. PICK visible : visible = tourListView(rows, sortKey, search, inViewOnly, bounds)
    OBVIOUS
  <2>2. visible \in Seq(Range(visible)) /\ pageNumber \in Int
    BY <2>1, ViewIs DEF ViewInv, PageNumbers
  <2>3. shownRows = paginate(visible, pageNumber)
    BY <1>2, <2>1 DEF ViewInv, Shows
  <2> QED BY <2>1, <2>2, <2>3, PageShown
<1> QED BY <1>1, <1>2 DEF ShowsTheView

-----------------------------------------------------------------------------
\* Lists, and the numbers in them.

\* The fields of the list's state are of their types.
LEMMA ViewTyped == ViewInv => ListViewTypeOK
<1> SUFFICES ASSUME ViewInv PROVE ListViewTypeOK
  OBVIOUS
<1>1. Range(rows) \subseteq Catalogue
  <2>1. rows \in Seq(Catalogue)
    BY DEF ViewInv
  <2> QED BY <2>1, RangeOfSeq, Zenon
<1>2. ASSUME NEW i \in DOMAIN pageEntries PROVE pageEntries[i].url.sort # DefaultSort
  <2>1. pageEntries[i] \in Entry
    BY LenProperties DEF ViewInv, UrlsTyped
  <2>2. pageEntries[i].url \in Urls
    BY <2>1 DEF Entry
  <2>3. PICK key \in SortKeys, query \in Texts, narrowed \in BOOLEAN, url \in Urls :
          url = pageEntries[i].url /\ url = buildAppUrl(key, query, narrowed)
    BY <2>2 DEF Urls
  <2>4. url.sort # DefaultSort
    BY <2>3, UrlOf
  <2> QED BY <2>3, <2>4
<1>3. pageCount <= ListLength
  BY Lengths DEF ViewInv
<1>4. atEntry \in DOMAIN pageEntries /\ {backsAsked, backsOwn} \subseteq 0..UrlEntries
  BY Bounded, LenProperties DEF ViewInv, UrlsTyped
<1>5. Range(openLayers) \subseteq {"panel", "dialog"}
  <2>1. openLayers \in Seq({"panel", "dialog"})
    BY DEF ViewInv, UrlsTyped
  <2> QED BY <2>1, RangeOfSeq, Zenon
<1> QED BY <1>1, <1>2, <1>3, <1>4, <1>5 DEF ViewInv, ListViewTypeOK, Texts, PageNumbers

Least(S, x) == x \in S /\ \A y \in S : x <= y
Greatest(S, x) == x \in S /\ \A y \in S : x >= y
Values(f, n) == {f[i] : i \in 1..n}

\* The first numbers of a list have a least one and a greatest.
LEMMA FirstExtremes ==
  ASSUME NEW n \in Nat, NEW f \in [1..n -> Int]
  PROVE  \A k \in 1..n : (\E x : Least(Values(f, k), x)) /\ \E x : Greatest(Values(f, k), x)
<1> DEFINE Right(k) == (\E x : Least(Values(f, k), x)) /\ \E x : Greatest(Values(f, k), x)
           Good == {k \in Nat : k \in 1..n => Right(k)}
<1>1. 0 \in Good
  OBVIOUS
<1>2. ASSUME NEW k \in Nat, k \in Good PROVE k + 1 \in Good
  <2> SUFFICES ASSUME k + 1 \in 1..n PROVE Right(k + 1)
    OBVIOUS
  <2>1. PICK v \in Int : v = f[k + 1]
    OBVIOUS
  <2>2. Values(f, k + 1) = Values(f, k) \cup {v}
    BY <2>1 DEF Values
  <2>3. Values(f, k) \subseteq Int
    BY DEF Values
  <2>4. CASE k = 0
    <3>1. Values(f, k) = {}
      BY <2>4 DEF Values
    <3>2. Least(Values(f, k + 1), v) /\ Greatest(Values(f, k + 1), v)
      BY <2>1, <2>2, <3>1 DEF Least, Greatest
    <3> QED BY <3>2
  <2>5. CASE k # 0
    <3>1. Right(k)
      BY <1>2, <2>5
    <3>2. PICK x : Least(Values(f, k), x)
      BY <3>1
    <3>3. PICK y : Greatest(Values(f, k), y)
      BY <3>1
    <3>4. Least(Values(f, k + 1), IF x <= v THEN x ELSE v)
      BY <2>1, <2>2, <2>3, <3>2 DEF Least
    <3>5. Greatest(Values(f, k + 1), IF y >= v THEN y ELSE v)
      BY <2>1, <2>2, <2>3, <3>3 DEF Greatest
    <3> QED BY <3>4, <3>5
  <2> QED BY <2>4, <2>5
<1>3. \A k \in Nat : k \in Good
  <2> HIDE DEF Good
  <2> QED BY <1>1, <1>2, SetInduction
<1> QED BY <1>3

\* The least and the greatest of a list's numbers are among them, and bound them.
LEMMA Extremes ==
  ASSUME NEW n \in Nat \ {0}, NEW f \in [1..n -> Int], NEW S, S = Values(f, n)
  PROVE  S \subseteq Int /\ Least(S, Min(S)) /\ Greatest(S, Max(S))
<1>1. n \in 1..n /\ n \in Nat
  OBVIOUS
<1>2. (\E x : Least(S, x)) /\ \E x : Greatest(S, x)
  BY <1>1, FirstExtremes
<1>3. Least(S, Min(S))
  BY <1>2 DEF Min, Least
<1>4. Greatest(S, Max(S))
  BY <1>2 DEF Max, Greatest
<1>5. S \subseteq Int
  BY DEF Values
<1> QED BY <1>3, <1>4, <1>5

\* The same of the coordinates of a list of points.
LEMMA CoordinateExtremes ==
  ASSUME NEW points \in Seq(Int \X Int), NEW c \in {1, 2}, NEW p \in Range(points)
  PROVE  LET S == {q[c] : q \in Range(points)} IN
         p[c] \in Int /\ Min(S) \in Int /\ Max(S) \in Int /\ Min(S) <= p[c] /\ p[c] <= Max(S)
<1>1. PICK n \in Nat : n = Len(points) /\ DOMAIN points = 1..n
  BY LenProperties
<1>2. \A i \in 1..n : points[i] \in Int \X Int
  BY <1>1, ElementOfSeq
<1>3. PICK k \in 1..n : p = points[k]
  BY <1>1 DEF Range
<1>4. PICK f : f = [i \in 1..n |-> points[i][c]]
  OBVIOUS
<1>5. f \in [1..n -> Int]
  <2>1. \A i \in 1..n : points[i][c] \in Int
    BY <1>2
  <2> QED BY <1>4, <2>1
<1>6. PICK S : S = {q[c] : q \in Range(points)}
  OBVIOUS
<1>7. S = Values(f, n)
  BY <1>1, <1>4, <1>6 DEF Values, Range
<1>8. n \in Nat \ {0}
  BY <1>3
<1>9. S \subseteq Int /\ Least(S, Min(S)) /\ Greatest(S, Max(S))
  BY <1>5, <1>7, <1>8, Extremes
<1>10. p[c] \in S
  BY <1>6
<1> QED BY <1>6, <1>9, <1>10 DEF Least, Greatest

\* A point in view is within the extent of its tour.
LEMMA InsideIsWithin ==
  ASSUME NEW points \in Seq(Int \X Int), NEW b \in Views, NEW p \in Range(points), isInside(b, p)
  PROVE  points # <<>> /\ ~extentOutside(b, extentOf(points))
<1>1. b \in [south : Int, north : Int, west : Int, east : Int]
  BY ListViewAssumption
<1>2. points # <<>>
  BY DEF Range
<1>3. PICK e : e = extentOf(points)
  OBVIOUS
<1>4. p[1] \in Int /\ e.south \in Int /\ e.north \in Int /\ e.south <= p[1] /\ p[1] <= e.north
  <2>1. 1 \in {1, 2}
    OBVIOUS
  <2> QED BY <1>3, <2>1, CoordinateExtremes DEF extentOf
<1>5. p[2] \in Int /\ e.west \in Int /\ e.east \in Int /\ e.west <= p[2] /\ p[2] <= e.east
  <2>1. 2 \in {1, 2}
    OBVIOUS
  <2> QED BY <1>3, <2>1, CoordinateExtremes DEF extentOf
<1>6. ~extentOutside(b, e)
  BY <1>1, <1>4, <1>5, SMTT(30) DEF extentOutside, isInside
<1> QED BY <1>2, <1>3, <1>6

\* The elements a filter keeps are those in its set.
LEMMA FilteredRange ==
  ASSUME NEW T, NEW list \in Seq(T), NEW S
  PROVE  Range(Filtered(list, S)) = {x \in Range(list) : x \in S}
<1>1. PICK F : F = Filtered(list, S)
  OBVIOUS
<1>2. PICK place : Picks(F, list, S, Len(list), place)
  BY <1>1, FilteredPicks
<1>3. F \in Seq(T)
  BY <1>1, FilteredPicks
<1>4. PICK l \in Nat, m \in Nat : l = Len(F) /\ m = Len(list) /\ DOMAIN F = 1..l /\ DOMAIN list = 1..m
  BY <1>3, LenProperties
<1>5. /\ \A i \in 1..l : place[i] \in 1..m /\ F[i] = list[place[i]] /\ F[i] \in S
      /\ \A k \in 1..m : list[k] \in S => \E i \in 1..l : place[i] = k
  BY <1>2, <1>4 DEF Picks
<1>6. Range(F) = {F[i] : i \in 1..l} /\ Range(list) = {list[k] : k \in 1..m}
  BY <1>4 DEF Range
<1>7. \A x \in Range(F) : x \in Range(list) /\ x \in S
  BY <1>5, <1>6
<1>8. \A x \in Range(list) : x \in S => x \in Range(F)
  <2> SUFFICES ASSUME NEW k \in 1..m, list[k] \in S PROVE list[k] \in Range(F)
    BY <1>6
  <2>1. PICK i \in 1..l : place[i] = k
    BY <1>5
  <2> QED BY <1>5, <1>6, <2>1
<1> QED BY <1>1, <1>7, <1>8

\* The extent is only a shortcut.
LEMMA ListExtentExact == ViewInv => ExtentExact
<1> SUFFICES ASSUME ViewInv, NEW i \in DOMAIN rows
             PROVE  (\E p \in Range(rows[i].points) : isInside(bounds, p)) <=>
                      rows[i] \in Range(toursInView(rows, bounds))
  BY DEF ExtentExact
<1>1. rows \in Seq(Catalogue) /\ bounds \in Views
  BY DEF ViewInv
<1>2. PICK tour \in Catalogue : tour = rows[i] /\ tour \in Range(rows)
  BY <1>1, ElementOfSeq, LenProperties DEF Range
<1>3. tour.points \in Seq(Int \X Int)
  BY ListViewAssumption
<1>4. PICK S : S = {t \in Range(rows) : /\ t.points # <<>>
                                        /\ ~extentOutside(bounds, extentOf(t.points))
                                        /\ \E p \in Range(t.points) : isInside(bounds, p)}
  OBVIOUS
<1>5. toursInView(rows, bounds) = Filtered(rows, S)
  BY <1>4 DEF toursInView
<1>6. tour \in Range(toursInView(rows, bounds)) <=> tour \in S
  BY <1>1, <1>2, <1>5, FilteredRange
<1>7. (\E p \in Range(tour.points) : isInside(bounds, p)) => tour \in S
  BY <1>1, <1>2, <1>3, <1>4, InsideIsWithin
<1>8. tour \in S => \E p \in Range(tour.points) : isInside(bounds, p)
  BY <1>4
<1> QED BY <1>2, <1>6, <1>7, <1>8

-----------------------------------------------------------------------------
\* Order.

\* A strict total order R of hits.
Orders(R, hits) ==
  /\ \A i \in hits : <<i, i>> \notin R
  /\ \A i, j, k \in hits : <<i, j>> \in R /\ <<j, k>> \in R => <<i, k>> \in R
  /\ \A i, j \in hits : i # j => <<i, j>> \in R \/ <<j, i>> \in R

Before(R, hits, i) == {j \in hits : <<j, i>> \in R}

\* Every place is taken by one element, and the places follow the order.
LEMMA Ranked ==
  ASSUME NEW hits, IsFiniteSet(hits), NEW R, Orders(R, hits)
  PROVE  LET place(i) == Cardinality(Before(R, hits, i)) + 1 IN
         /\ \A k \in 1..Cardinality(hits) : \E i \in hits : place(i) = k
         /\ \A i, j \in hits : place(i) < place(j) => <<i, j>> \in R
<1> DEFINE P(i) == Before(R, hits, i)
<1>1. PICK c \in Nat : c = Cardinality(hits)
  BY FS_CardinalityType
<1>2. PICK place : place = [i \in hits |-> Cardinality(P(i)) + 1]
  OBVIOUS
<1>3. \A i \in hits : IsFiniteSet(P(i)) /\ Cardinality(P(i)) \in Nat /\ place[i] = Cardinality(P(i)) + 1
  <2>1. \A i \in hits : P(i) \in SUBSET hits
    BY DEF Before
  <2>2. \A i \in hits : IsFiniteSet(P(i))
    BY <2>1, FS_Subset
  <2>3. \A i \in hits : Cardinality(P(i)) \in Nat
    BY <2>2, FS_CardinalityType
  <2> HIDE DEF P
  <2> QED BY <1>2, <2>2, <2>3
<1>4. ASSUME NEW i \in hits, NEW j \in hits, <<i, j>> \in R PROVE place[i] < place[j]
  <2>1. P(i) \cup {i} \in SUBSET P(j) /\ i \notin P(i)
    BY <1>4 DEF Before, Orders
  <2>2. IsFiniteSet(P(i)) /\ IsFiniteSet(P(j))
    BY <1>3
  <2>3. Cardinality(P(i) \cup {i}) = Cardinality(P(i)) + 1
    BY <2>1, <2>2, FS_AddElement
  <2>4. Cardinality(P(i) \cup {i}) <= Cardinality(P(j))
    BY <2>1, <2>2, FS_Subset
  <2> HIDE DEF P
  <2> QED BY <1>3, <2>3, <2>4
<1>5. \A i \in hits : place[i] \in 1..c
  <2> SUFFICES ASSUME NEW i \in hits PROVE place[i] \in 1..c
    OBVIOUS
  <2>1. P(i) \cup {i} \in SUBSET hits /\ i \notin P(i)
    BY DEF Before, Orders
  <2>2. IsFiniteSet(P(i))
    BY <1>3
  <2>3. Cardinality(P(i) \cup {i}) = Cardinality(P(i)) + 1
    BY <2>1, <2>2, FS_AddElement
  <2>4. Cardinality(P(i) \cup {i}) <= c
    BY <1>1, <2>1, FS_Subset
  <2> HIDE DEF P
  <2> QED BY <1>3, <2>3, <2>4
<1>6. \A i, j \in hits : place[i] = place[j] => i = j
  <2> SUFFICES ASSUME NEW i \in hits, NEW j \in hits, i # j PROVE place[i] # place[j]
    OBVIOUS
  <2>1. <<i, j>> \in R \/ <<j, i>> \in R
    BY DEF Orders
  <2>2. place[i] < place[j] \/ place[j] < place[i]
    BY <1>4, <2>1
  <2> QED BY <1>5, <2>2
<1>7. place \in Injection(hits, 1..c)
  <2>1. place \in [hits -> 1..c]
    BY <1>2, <1>5
  <2> QED BY <1>6, <2>1 DEF Injection, IsInjective
<1>8. place \in Surjection(hits, 1..c)
  <2>1. IsFiniteSet(1..c) /\ Cardinality(1..c) = c
    BY UpTo
  <2> QED BY <1>1, <1>7, <2>1, FS_Injection
<1>9. \A k \in 1..c : \E i \in hits : place[i] = k
  BY <1>8 DEF Surjection
<1>10. ASSUME NEW i \in hits, NEW j \in hits, place[i] < place[j] PROVE <<i, j>> \in R
  <2>1. i # j /\ ~(place[j] < place[i])
    BY <1>5, <1>10
  <2> QED BY <1>4, <2>1 DEF Orders
<1> HIDE DEF P
<1>11. \A i \in hits : place[i] = Cardinality(Before(R, hits, i)) + 1
  BY <1>3 DEF P
<1> QED BY <1>1, <1>9, <1>10, <1>11

\* A sort compares numbers.
LEMMA SortersCompare ==
  ASSUME NEW n \in Nat, NEW list \in [1..n -> Catalogue], NEW key
  PROVE  \E v \in [1..n -> Int] : \A i, j \in 1..n : sorters(key, list[i], list[j]) <=> v[i] < v[j]
<1>1. \A i \in 1..n : list[i].date \in Int /\ list[i].rank \in Int /\ list[i].distance \in Int
  BY ListViewAssumption
<1>2. PICK d, r, l : /\ d = [i \in 1..n |-> list[i].date] /\ r = [i \in 1..n |-> list[i].rank]
                     /\ l = [i \in 1..n |-> list[i].distance]
  OBVIOUS
<1>3. \A i \in 1..n : /\ d[i] \in Int /\ r[i] \in Int /\ l[i] \in Int
                      /\ d[i] = list[i].date /\ r[i] = list[i].rank /\ l[i] = list[i].distance
  BY <1>1, <1>2
<1>4. /\ d \in [1..n -> Int] /\ r \in [1..n -> Int] /\ l \in [1..n -> Int]
  BY <1>2, <1>3
<1>5. PICK dd, rr, ll : /\ dd = [i \in 1..n |-> -d[i]] /\ rr = [i \in 1..n |-> -r[i]]
                        /\ ll = [i \in 1..n |-> -l[i]]
  OBVIOUS
<1>6. /\ dd \in [1..n -> Int] /\ rr \in [1..n -> Int] /\ ll \in [1..n -> Int]
      /\ \A i \in 1..n : dd[i] = -d[i] /\ rr[i] = -r[i] /\ ll[i] = -l[i]
  BY <1>3, <1>5
<1>7. /\ \A i, j \in 1..n : dd[i] < dd[j] <=> d[i] > d[j]
      /\ \A i, j \in 1..n : rr[i] < rr[j] <=> r[i] > r[j]
      /\ \A i, j \in 1..n : ll[i] < ll[j] <=> l[i] > l[j]
  <2> SUFFICES ASSUME NEW i \in 1..n, NEW j \in 1..n
               PROVE  /\ dd[i] < dd[j] <=> d[i] > d[j]
                      /\ rr[i] < rr[j] <=> r[i] > r[j]
                      /\ ll[i] < ll[j] <=> l[i] > l[j]
    OBVIOUS
  <2>1. /\ d[i] \in Int /\ r[i] \in Int /\ l[i] \in Int
        /\ d[j] \in Int /\ r[j] \in Int /\ l[j] \in Int
    BY <1>3
  <2>2. /\ dd[i] = -d[i] /\ rr[i] = -r[i] /\ ll[i] = -l[i]
        /\ dd[j] = -d[j] /\ rr[j] = -r[j] /\ ll[j] = -l[j]
    BY <1>6
  <2>3. ASSUME NEW x \in Int, NEW y \in Int PROVE -x < -y <=> x > y
    OBVIOUS
  <2>4. (-d[i] < -d[j] <=> d[i] > d[j]) /\ (-r[i] < -r[j] <=> r[i] > r[j]) /\ (-l[i] < -l[j] <=> l[i] > l[j])
    BY ONLY <2>1, <2>3
  <2> QED BY ONLY <2>2, <2>4
<1>8. CASE key = "date-asc"
  <2>1. \A i, j \in 1..n : sorters(key, list[i], list[j]) <=> d[i] < d[j]
    BY <1>3, <1>8 DEF sorters
  <2> QED BY <1>4, <2>1
<1>9. CASE key = "name-asc"
  <2>1. \A i, j \in 1..n : sorters(key, list[i], list[j]) <=> r[i] < r[j]
    BY <1>3, <1>9 DEF sorters
  <2> QED BY <1>4, <2>1
<1>10. CASE key = "name-desc"
  <2>1. \A i, j \in 1..n : sorters(key, list[i], list[j]) <=> rr[i] < rr[j]
    BY <1>3, <1>7, <1>10 DEF sorters
  <2> QED BY <1>6, <2>1
<1>11. CASE key = "length-desc"
  <2>1. \A i, j \in 1..n : sorters(key, list[i], list[j]) <=> ll[i] < ll[j]
    BY <1>3, <1>7, <1>11 DEF sorters
  <2> QED BY <1>6, <2>1
<1>12. CASE key = "length-asc"
  <2>1. \A i, j \in 1..n : sorters(key, list[i], list[j]) <=> l[i] < l[j]
    BY <1>3, <1>12 DEF sorters
  <2> QED BY <1>4, <2>1
<1>13. CASE key \notin {"date-asc", "name-asc", "name-desc", "length-desc", "length-asc"}
  <2>1. \A i, j \in 1..n : sorters(key, list[i], list[j]) <=> dd[i] < dd[j]
    BY <1>3, <1>7, <1>13 DEF sorters
  <2> QED BY <1>6, <2>1
<1> QED BY <1>8, <1>9, <1>10, <1>11, <1>12, <1>13

\* Relevance, then the sort, then the order they came in, order the matches.
LEMMA InOrderOrders ==
  ASSUME NEW n \in Nat, NEW list \in [1..n -> Catalogue], NEW key, NEW found,
         \A i \in 1..n : found[i].score \in Int, NEW hits \in SUBSET (1..n)
  PROVE  Orders({x \in hits \X hits : before(list, key, found, x[1], x[2])}, hits)
<1>1. PICK v \in [1..n -> Int] : \A i, j \in 1..n : sorters(key, list[i], list[j]) <=> v[i] < v[j]
  BY SortersCompare
<1>2. PICK s : s = [i \in 1..n |-> found[i].score]
  OBVIOUS
<1>3. \A i \in 1..n : s[i] \in Int /\ v[i] \in Int /\ s[i] = found[i].score /\ i \in Int
  BY <1>2
<1>4. \A i, j \in hits : before(list, key, found, i, j) <=>
        s[i] > s[j] \/ (s[i] = s[j] /\ (v[i] < v[j] \/ (~(v[j] < v[i]) /\ i < j)))
  <2> SUFFICES ASSUME NEW i \in hits, NEW j \in hits
               PROVE  before(list, key, found, i, j) <=>
                        s[i] > s[j] \/ (s[i] = s[j] /\ (v[i] < v[j] \/ (~(v[j] < v[i]) /\ i < j)))
    OBVIOUS
  <2>1. i \in 1..n /\ j \in 1..n
    OBVIOUS
  <2>2. /\ sorters(key, list[i], list[j]) <=> v[i] < v[j]
        /\ sorters(key, list[j], list[i]) <=> v[j] < v[i]
        /\ s[i] = found[i].score /\ s[j] = found[j].score
    BY <1>1, <1>3, <2>1
  <2> QED BY <2>2 DEF before
<1>5. PICK R : R = {x \in hits \X hits : before(list, key, found, x[1], x[2])}
  OBVIOUS
<1>6. \A i, j \in hits : <<i, j>> \in R <=>
        s[i] > s[j] \/ (s[i] = s[j] /\ (v[i] < v[j] \/ (~(v[j] < v[i]) /\ i < j)))
  BY <1>4, <1>5
<1>7. \A i \in hits : s[i] \in Int /\ v[i] \in Int /\ i \in Int
  BY <1>3
<1>8. \A i \in hits : <<i, i>> \notin R
  BY <1>6, <1>7
<1>9. ASSUME NEW i \in hits, NEW j \in hits, i # j PROVE <<i, j>> \in R \/ <<j, i>> \in R
  <2>1. s[i] \in Int /\ v[i] \in Int /\ i \in Int /\ s[j] \in Int /\ v[j] \in Int /\ j \in Int
    BY <1>7
  <2>2. /\ <<i, j>> \in R <=> s[i] > s[j] \/ (s[i] = s[j] /\ (v[i] < v[j] \/ (~(v[j] < v[i]) /\ i < j)))
        /\ <<j, i>> \in R <=> s[j] > s[i] \/ (s[j] = s[i] /\ (v[j] < v[i] \/ (~(v[i] < v[j]) /\ j < i)))
    BY <1>6
  <2> QED BY ONLY <1>9, <2>1, <2>2
<1>10. ASSUME NEW i \in hits, NEW j \in hits, NEW k \in hits, <<i, j>> \in R, <<j, k>> \in R
       PROVE  <<i, k>> \in R
  <2>1. /\ s[i] \in Int /\ v[i] \in Int /\ i \in Int /\ s[j] \in Int /\ v[j] \in Int /\ j \in Int
        /\ s[k] \in Int /\ v[k] \in Int /\ k \in Int
    BY <1>7
  <2>2. /\ s[i] > s[j] \/ (s[i] = s[j] /\ (v[i] < v[j] \/ (~(v[j] < v[i]) /\ i < j)))
        /\ s[j] > s[k] \/ (s[j] = s[k] /\ (v[j] < v[k] \/ (~(v[k] < v[j]) /\ j < k)))
    BY <1>6, <1>10
  <2>3. s[i] > s[k] \/ (s[i] = s[k] /\ (v[i] < v[k] \/ (~(v[k] < v[i]) /\ i < k)))
    BY ONLY <2>1, <2>2
  <2> QED BY <1>6, <2>3
<1> QED BY <1>5, <1>8, <1>9, <1>10 DEF Orders

\* Of two tours of a list, the earlier one comes before the later.
LEMMA InOrderIs ==
  ASSUME NEW n \in Nat, NEW list \in [1..n -> Catalogue], NEW key, NEW found,
         \A i \in 1..n : found[i].score \in Int
  PROVE  LET visible == inOrder(list, key, found)
             hits == {i \in 1..n : found[i].matched} IN
         /\ DOMAIN visible = 1..Cardinality(hits) /\ Cardinality(hits) \in Nat
         /\ \A k, l \in DOMAIN visible : k < l =>
              \E i, j \in hits : /\ visible[k] = list[i] /\ visible[l] = list[j]
                                 /\ before(list, key, found, i, j)
<1>1. PICK hits : hits = {i \in 1..n : found[i].matched}
  OBVIOUS
<1>2. hits \in SUBSET (1..n) /\ hits = {i \in DOMAIN list : found[i].matched}
  BY <1>1
<1>3. IsFiniteSet(hits) /\ Cardinality(hits) \in Nat
  <2>1. IsFiniteSet(1..n)
    BY UpTo
  <2> QED BY <1>2, <2>1, FS_Subset, FS_CardinalityType
<1>4. PICK R : R = {x \in hits \X hits : before(list, key, found, x[1], x[2])}
  OBVIOUS
<1>5. Orders(R, hits)
  BY <1>2, <1>4, InOrderOrders, ZenonT(40)
<1> DEFINE place(i) == Cardinality({j \in hits : before(list, key, found, j, i)}) + 1
           visible == inOrder(list, key, found)
<1>6. visible = [k \in 1..Cardinality(hits) |-> list[CHOOSE i \in hits : place(i) = k]]
  BY <1>2 DEF inOrder
<1>7. \A i \in hits : place(i) = Cardinality(Before(R, hits, i)) + 1
  <2>1. ASSUME NEW i \in hits PROVE {j \in hits : before(list, key, found, j, i)} = Before(R, hits, i)
    BY <1>4 DEF Before
  <2> QED BY <2>1
<1>8. /\ \A k \in 1..Cardinality(hits) : \E i \in hits : Cardinality(Before(R, hits, i)) + 1 = k
      /\ \A i, j \in hits :
           Cardinality(Before(R, hits, i)) + 1 < Cardinality(Before(R, hits, j)) + 1 => <<i, j>> \in R
  BY <1>3, <1>5, Ranked
<1> HIDE DEF place
<1>9. /\ \A k \in 1..Cardinality(hits) : \E i \in hits : place(i) = k
      /\ \A i, j \in hits : place(i) < place(j) => <<i, j>> \in R
  BY <1>7, <1>8
<1>10. \A k \in 1..Cardinality(hits) : \E i \in hits : place(i) = k /\ visible[k] = list[i]
  <2> HIDE DEF visible
  <2> QED BY <1>6, <1>9
<1>11. ASSUME NEW k \in 1..Cardinality(hits), NEW l \in 1..Cardinality(hits), k < l
       PROVE  \E i, j \in hits : /\ visible[k] = list[i] /\ visible[l] = list[j]
                                 /\ before(list, key, found, i, j)
  <2> HIDE DEF visible
  <2>1. PICK i \in hits : place(i) = k /\ visible[k] = list[i]
    BY <1>10
  <2>2. PICK j \in hits : place(j) = l /\ visible[l] = list[j]
    BY <1>10
  <2>3. <<i, j>> \in R
    BY <1>9, <1>11, <2>1, <2>2
  <2>4. before(list, key, found, i, j)
    BY <1>4, <2>3
  <2> QED BY <2>1, <2>2, <2>4
<1>12. DOMAIN visible = 1..Cardinality(hits)
  BY <1>6
<1> HIDE DEF visible
<1> QED BY <1>1, <1>3, <1>11, <1>12 DEF visible

-----------------------------------------------------------------------------
\* Matching.

\* A trimmed text is a text.
LEMMA TrimmedIs == ASSUME NEW C, NEW text \in Seq(C) PROVE Trimmed(text) \in Seq(C)
<1>1. PICK n \in Nat : n = Len(text) /\ DOMAIN text = 1..n
  BY LenProperties
<1>2. \A i \in 1..n : text[i] \in C
  BY <1>1, ElementOfSeq
<1>3. PICK inked : inked = {i \in DOMAIN text : text[i] # " "}
  OBVIOUS
<1>4. CASE inked = {}
  <2>1. Trimmed(text) = <<>>
    BY <1>3, <1>4 DEF Trimmed
  <2> QED BY <2>1, EmptySeq
<1>5. CASE inked # {}
  <2>1. PICK e \in 1..n : e \in inked
    BY <1>1, <1>3, <1>5
  <2>2. PICK f : f = [i \in 1..n |-> IF i \in inked THEN i ELSE e]
    OBVIOUS
  <2>3. f \in [1..n -> Int] /\ inked = Values(f, n) /\ n \in Nat \ {0}
    <3>1. inked \subseteq 1..n
      BY <1>1, <1>3
    <3>2. \A i \in 1..n : f[i] \in inked /\ f[i] \in Int
      BY <2>1, <2>2, <3>1
    <3>3. \A i \in inked : i \in 1..n /\ f[i] = i
      BY <2>2, <3>1
    <3>4. f \in [1..n -> Int]
      BY <2>2, <3>2
    <3>5. inked = Values(f, n)
      BY <3>2, <3>3 DEF Values
    <3> QED BY <2>1, <3>4, <3>5
  <2>4. Least(inked, Min(inked)) /\ Greatest(inked, Max(inked))
    BY <2>3, Extremes
  <2>5. Min(inked) \in 1..n /\ Max(inked) \in 1..n
    BY <1>1, <1>3, <2>4 DEF Least, Greatest
  <2>6. Trimmed(text) = SubSeq(text, Min(inked), Max(inked))
    BY <1>3, <1>5 DEF Trimmed
  <2>7. PICK a \in 1..n, z \in 1..n : a = Min(inked) /\ z = Max(inked)
    BY <2>5
  <2>8. a \in Int /\ z \in Int /\ \A i \in a..z : text[i] \in C
    BY <1>1, <1>2
  <2> QED BY <2>6, <2>7, <2>8, SubSeqProperties
<1> QED BY <1>4, <1>5

\* Whether the n-th character of a text is the next of a needle of which some are found.
Hit(needle, text, sofar, n) == Len(sofar) < Len(needle) /\ text[n] = needle[Len(sofar) + 1]

FoundRun(needle, text, found) ==
  /\ found \in [Nat -> Seq(Nat)] /\ found[0] = <<>>
  /\ \A n \in Nat \ {0} :
       found[n] = IF Hit(needle, text, found[n - 1], n) THEN Append(found[n - 1], n) ELSE found[n - 1]

\* charIndices, unfolded.
LEMMA CharIndicesRuns ==
  ASSUME NEW needle, NEW text
  PROVE  \E found : FoundRun(needle, text, found) /\ charIndices(needle, text) = found[Len(text)]
<1> DEFINE step == [x \in Nat \X Seq(Nat) |-> IF Hit(needle, text, x[2], x[1]) THEN Append(x[2], x[1]) ELSE x[2]]
           Unfolds(f) ==
             f = [n \in Nat |-> IF n = 0 THEN <<>>
                    ELSE LET sofar == f[n - 1] IN
                         IF Len(sofar) < Len(needle) /\ text[n] = needle[Len(sofar) + 1]
                         THEN Append(sofar, n) ELSE sofar]
           run == CHOOSE f : Unfolds(f)
<1>1. step \in [Nat \X Seq(Nat) -> Seq(Nat)]
  <2>1. ASSUME NEW n \in Nat, NEW s \in Seq(Nat) PROVE Append(s, n) \in Seq(Nat)
    BY AppendProperties
  <2> QED BY <2>1
<1>2. <<>> \in Seq(Nat)
  BY EmptySeq
<1>3. PICK f \in [Nat -> Seq(Nat)] : f[0] = <<>> /\ \A n \in Nat \ {0} : f[n] = step[<<n, f[n - 1]>>]
  <2>1. PICK T, st : T = Seq(Nat) /\ st = step
    OBVIOUS
  <2> HIDE DEF step
  <2>2. st \in [Nat \X T -> T] /\ <<>> \in T
    BY <1>1, <1>2, <2>1
  <2>3. PICK f : RunOf(f, T, <<>>, st)
    BY <2>2, RunExists
  <2> QED BY <2>1, <2>3 DEF RunOf
<1>4. \A n \in Nat \ {0} : n - 1 \in Nat
  OBVIOUS
<1>5. \A n \in Nat \ {0} : f[n] = IF Hit(needle, text, f[n - 1], n) THEN Append(f[n - 1], n) ELSE f[n - 1]
  BY <1>3, <1>4
<1>6. Unfolds(f)
  BY <1>3, <1>5 DEF Hit
<1>7. Unfolds(run)
  <2> HIDE DEF Unfolds
  <2> QED BY <1>6
<1>8. charIndices(needle, text) = run[Len(text)]
  BY DEF charIndices
<1>9. run[0] = <<>> /\ \A n \in Nat \ {0} :
        run[n] = IF Hit(needle, text, run[n - 1], n) THEN Append(run[n - 1], n) ELSE run[n - 1]
  <2> HIDE DEF run
  <2> QED BY <1>7 DEF Hit
<1>10. run \in [Nat -> Seq(Nat)]
  <2>1. DOMAIN run = Nat /\ run = [n \in Nat |-> run[n]]
    <3> HIDE DEF run
    <3> QED BY <1>7
  <2> DEFINE Typed == {n \in Nat : run[n] \in Seq(Nat)}
  <2>2. 0 \in Typed
    BY <1>2, <1>9
  <2>3. ASSUME NEW n \in Nat, n \in Typed PROVE n + 1 \in Typed
    <3> HIDE DEF run
    <3>1. n + 1 \in Nat \ {0} /\ (n + 1) - 1 = n /\ run[n] \in Seq(Nat)
      BY <2>3
    <3>2. Append(run[n], n + 1) \in Seq(Nat)
      BY <3>1, AppendProperties
    <3> QED BY <1>9, <3>1, <3>2
  <2>4. \A n \in Nat : n \in Typed
    <3> HIDE DEF Typed
    <3> QED BY <2>2, <2>3, SetInduction
  <2> HIDE DEF run
  <2> QED BY <2>1, <2>4
<1> HIDE DEF run
<1>11. FoundRun(needle, text, run)
  BY <1>9, <1>10 DEF FoundRun
<1> QED BY <1>8, <1>11

\* The first m characters of a needle, at rising places of a text's first n.
Embeds(g, needle, text, m, n) ==
  /\ g \in [1..m -> 1..n] /\ \A k \in 1..m : text[g[k]] = needle[k]
  /\ \A k, l \in 1..m : k < l => g[k] < g[l]

\* What is found of a needle in a text's first n characters: as much as there is.
Greedy(needle, text, found, n) ==
  /\ Len(found[n]) <= Len(needle) /\ Embeds(found[n], needle, text, Len(found[n]), n)
  /\ \A m \in 0..Len(needle) : (\E g : Embeds(g, needle, text, m, n)) => m <= Len(found[n])
  /\ \A k \in 1..n : k \in Range(found[n]) <=> Hit(needle, text, found[k - 1], k)

\* One more character.
LEMMA GreedyGrows ==
  ASSUME NEW S, NEW needle \in Seq(S), NEW text, NEW found, FoundRun(needle, text, found),
         NEW n \in Nat, Greedy(needle, text, found, n)
  PROVE  Greedy(needle, text, found, n + 1)
<1>1. PICK c \in Nat, w \in Nat : c = Len(found[n]) /\ w = Len(needle) /\ c <= w
  <2>1. found[n] \in Seq(Nat)
    BY DEF FoundRun
  <2> QED BY <2>1, LenProperties DEF Greedy
<1>2. PICK s, t : s = found[n] /\ t = found[n + 1] /\ s \in Seq(Nat) /\ DOMAIN s = 1..c
  <2>1. found[n] \in Seq(Nat)
    BY DEF FoundRun
  <2> QED BY <1>1, <2>1, LenProperties
<1>3. n + 1 \in Nat \ {0} /\ (n + 1) - 1 = n
  OBVIOUS
<1>4. t = IF Hit(needle, text, s, n + 1) THEN Append(s, n + 1) ELSE s
  BY <1>2, <1>3 DEF FoundRun
<1>5. /\ s \in [1..c -> 1..n] /\ \A k \in 1..c : text[s[k]] = needle[k]
      /\ \A k, l \in 1..c : k < l => s[k] < s[l]
  BY <1>1, <1>2 DEF Greedy, Embeds
<1>6. \A k \in 1..n : k \in Range(s) <=> Hit(needle, text, found[k - 1], k)
  BY <1>2 DEF Greedy
<1>7. \A m \in 0..w : (\E g : Embeds(g, needle, text, m, n)) => m <= c
  BY <1>1 DEF Greedy
<1>8. n + 1 \notin Range(s)
  <2>1. \A k \in 1..c : s[k] # n + 1
    BY <1>5
  <2> QED BY <1>2, <2>1 DEF Range
\* What embeds in one more character.
<1>9. ASSUME NEW m \in 1..w, NEW g, Embeds(g, needle, text, m, n + 1)
      PROVE  m <= c \/ (m = c + 1 /\ text[n + 1] = needle[m])
  <2>1. /\ g \in [1..m -> 1..n + 1] /\ \A k \in 1..m : text[g[k]] = needle[k]
        /\ \A k, l \in 1..m : k < l => g[k] < g[l]
    BY <1>9 DEF Embeds
  <2>2. CASE g[m] # n + 1
    <3>1. \A k \in 1..m : g[k] \in 1..n
      <4> SUFFICES ASSUME NEW k \in 1..m PROVE g[k] \in 1..n
        OBVIOUS
      <4>1. g[m] \in 1..n + 1 /\ g[k] \in 1..n + 1 /\ (k < m => g[k] < g[m])
        BY <2>1
      <4> QED BY <2>2, <4>1
    <3>2. Embeds(g, needle, text, m, n)
      BY <2>1, <3>1 DEF Embeds
    <3> QED BY <1>7, <3>2
  <2>3. CASE g[m] = n + 1
    <3>1. PICK h : h = [k \in 1..m - 1 |-> g[k]]
      OBVIOUS
    <3>2. \A k \in 1..m - 1 : h[k] = g[k] /\ g[k] \in 1..n
      <4> SUFFICES ASSUME NEW k \in 1..m - 1 PROVE h[k] = g[k] /\ g[k] \in 1..n
        OBVIOUS
      <4>1. k \in 1..m /\ m \in 1..m /\ k < m
        OBVIOUS
      <4>2. g[k] \in 1..n + 1 /\ g[k] < g[m]
        BY <2>1, <4>1
      <4> QED BY <2>3, <3>1, <4>2
    <3>3. h \in [1..m - 1 -> 1..n]
      BY <3>1, <3>2
    <3>4. \A k \in 1..m - 1 : k \in 1..m
      OBVIOUS
    <3>5. Embeds(h, needle, text, m - 1, n)
      BY <2>1, <3>2, <3>3, <3>4 DEF Embeds
    <3>6. m - 1 \in 0..w
      OBVIOUS
    <3>7. m - 1 <= c
      BY <1>7, <3>5, <3>6
    <3>8. text[n + 1] = needle[m]
      BY <2>1, <2>3
    <3> QED BY <3>7, <3>8
  <2> QED BY <2>2, <2>3
<1>10. CASE ~Hit(needle, text, s, n + 1)
  <2>1. t = s
    BY <1>4, <1>10
  <2>2. Embeds(s, needle, text, c, n + 1)
    BY <1>5 DEF Embeds
  <2>3. \A m \in 0..w : (\E g : Embeds(g, needle, text, m, n + 1)) => m <= c
    <3> SUFFICES ASSUME NEW m \in 1..w, NEW g, Embeds(g, needle, text, m, n + 1) PROVE m <= c
      BY <1>1
    <3>1. ~(c < w /\ text[n + 1] = needle[c + 1])
      BY <1>1, <1>2, <1>10 DEF Hit
    <3> QED BY <1>9, <3>1
  <2>4. \A k \in 1..n + 1 : k \in Range(t) <=> Hit(needle, text, found[k - 1], k)
    <3> SUFFICES ASSUME NEW k \in 1..n + 1 PROVE k \in Range(s) <=> Hit(needle, text, found[k - 1], k)
      BY <2>1
    <3>1. CASE k = n + 1
      BY <1>2, <1>3, <1>8, <1>10, <3>1
    <3>2. CASE k # n + 1
      BY <1>6, <3>2
    <3> QED BY <3>1, <3>2
  <2> QED BY <1>1, <1>2, <2>1, <2>2, <2>3, <2>4 DEF Greedy
<1>11. CASE Hit(needle, text, s, n + 1)
  <2>1. c < w /\ text[n + 1] = needle[c + 1]
    BY <1>1, <1>2, <1>11 DEF Hit
  <2>2. t = Append(s, n + 1)
    BY <1>4, <1>11
  <2>3. t \in Seq(Nat) /\ Len(t) = c + 1 /\ (\A k \in 1..c : t[k] = s[k]) /\ t[c + 1] = n + 1
    BY <1>1, <1>2, <1>3, <2>2, AppendProperties
  <2>4. DOMAIN t = 1..c + 1
    BY <2>3, LenProperties
  <2>5. \A k \in 1..c + 1 : t[k] \in 1..n + 1 /\ text[t[k]] = needle[k]
    <3> SUFFICES ASSUME NEW k \in 1..c + 1 PROVE t[k] \in 1..n + 1 /\ text[t[k]] = needle[k]
      OBVIOUS
    <3>1. CASE k = c + 1
      BY <2>1, <2>3, <3>1
    <3>2. CASE k # c + 1
      <4>1. k \in 1..c
        BY <3>2
      <4>2. t[k] = s[k] /\ s[k] \in 1..n /\ text[s[k]] = needle[k]
        BY <1>5, <2>3, <4>1
      <4> QED BY <4>2
    <3> QED BY <3>1, <3>2
  <2>6. \A k, l \in 1..c + 1 : k < l => t[k] < t[l]
    <3> SUFFICES ASSUME NEW k \in 1..c + 1, NEW l \in 1..c + 1, k < l PROVE t[k] < t[l]
      OBVIOUS
    <3>1. k \in 1..c /\ t[k] = s[k] /\ s[k] \in 1..n
      BY <1>5, <2>3
    <3>2. CASE l = c + 1
      BY <2>3, <3>1, <3>2
    <3>3. CASE l # c + 1
      <4>1. l \in 1..c
        BY <3>3
      <4>2. t[l] = s[l] /\ s[k] < s[l]
        BY <1>5, <2>3, <3>1, <4>1
      <4> QED BY <3>1, <4>2
    <3> QED BY <3>2, <3>3
  <2>7. t = [k \in 1..c + 1 |-> t[k]]
    <3>1. t \in [1..c + 1 -> Nat]
      BY <2>3, LenProperties
    <3> QED BY <3>1
  <2>8. Embeds(t, needle, text, c + 1, n + 1)
    BY <2>5, <2>6, <2>7 DEF Embeds
  <2>9. \A m \in 0..w : (\E g : Embeds(g, needle, text, m, n + 1)) => m <= c + 1
    <3> SUFFICES ASSUME NEW m \in 1..w, NEW g, Embeds(g, needle, text, m, n + 1) PROVE m <= c + 1
      BY <1>1
    <3> QED BY <1>9
  <2>10. Range(t) = Range(s) \cup {n + 1}
    <3>1. Range(t) = {t[k] : k \in 1..c + 1} /\ Range(s) = {s[k] : k \in 1..c}
      BY <1>2, <2>4 DEF Range
    <3>2. \A k \in 1..c : k \in 1..c + 1
      OBVIOUS
    <3>3. c + 1 \in 1..c + 1 /\ \A k \in 1..c + 1 : k = c + 1 \/ k \in 1..c
      OBVIOUS
    <3> QED BY <2>3, <3>1, <3>2, <3>3
  <2>11. \A k \in 1..n + 1 : k \in Range(t) <=> Hit(needle, text, found[k - 1], k)
    <3> SUFFICES ASSUME NEW k \in 1..n + 1 PROVE k \in Range(t) <=> Hit(needle, text, found[k - 1], k)
      OBVIOUS
    <3>1. CASE k = n + 1
      BY <1>2, <1>3, <1>11, <2>10, <3>1
    <3>2. CASE k # n + 1
      BY <1>6, <2>10, <3>2
    <3> QED BY <3>1, <3>2
  <2>12. Len(t) <= Len(needle)
    BY <1>1, <2>1, <2>3
  <2>13. \A m \in 0..Len(needle) : (\E g : Embeds(g, needle, text, m, n + 1)) => m <= Len(t)
    BY <1>1, <2>3, <2>9
  <2>14. Embeds(t, needle, text, Len(t), n + 1)
    BY <2>3, <2>8
  <2> QED BY <1>2, <2>11, <2>12, <2>13, <2>14 DEF Greedy
<1> QED BY <1>10, <1>11

\* All of it.
LEMMA GreedyFinds ==
  ASSUME NEW S, NEW needle \in Seq(S), NEW text, NEW found, FoundRun(needle, text, found)
  PROVE  \A n \in Nat : Greedy(needle, text, found, n)
<1> DEFINE Good == {n \in Nat : Greedy(needle, text, found, n)}
<1>1. 0 \in Good
  <2>1. found[0] = <<>> /\ Len(found[0]) = 0 /\ Len(needle) \in Nat
    BY EmptySeq, LenProperties DEF FoundRun
  <2>2. Embeds(found[0], needle, text, 0, 0)
    BY <2>1 DEF Embeds
  <2>3. \A m \in 0..Len(needle) : (\E g : Embeds(g, needle, text, m, 0)) => m <= 0
    <3> SUFFICES ASSUME NEW m \in 0..Len(needle), NEW g, Embeds(g, needle, text, m, 0), m > 0 PROVE FALSE
      BY <2>1
    <3>1. 1 \in 1..m /\ g \in [1..m -> 1..0]
      BY <2>1 DEF Embeds
    <3>2. g[1] \in 1..0
      BY <3>1
    <3> QED BY <3>2
  <2> QED BY <2>1, <2>2, <2>3 DEF Greedy
<1>2. \A n \in Nat : n \in Good => n + 1 \in Good
  BY GreedyGrows
<1> HIDE DEF Good
<1>3. \A n \in Nat : n \in Good
  BY <1>1, <1>2, SetInduction
<1> QED BY <1>3 DEF Good

\* What a search finds in a text.
LEMMA FuzzyFinds ==
  ASSUME NEW S, NEW needle \in Seq(S), NEW text \in Seq(S)
  PROVE  LET found == charIndices(needle, text) IN
         /\ found \in Seq(Nat) /\ Len(found) <= Len(needle)
         /\ Embeds(found, needle, text, Len(found), Len(text))
         /\ Len(found) = Len(needle) <=> \E g : Embeds(g, needle, text, Len(needle), Len(text))
<1>1. PICK run : FoundRun(needle, text, run) /\ charIndices(needle, text) = run[Len(text)]
  BY CharIndicesRuns
<1>2. PICK n \in Nat, w \in Nat : n = Len(text) /\ w = Len(needle)
  BY LenProperties
<1>3. Greedy(needle, text, run, n)
  BY <1>1, GreedyFinds
<1>4. PICK found : found = run[n] /\ found \in Seq(Nat)
  BY <1>1 DEF FoundRun
<1>5. PICK c \in Nat : c = Len(found)
  BY <1>4, LenProperties
<1>6. /\ c <= w /\ Embeds(found, needle, text, c, n)
      /\ \A m \in 0..w : (\E g : Embeds(g, needle, text, m, n)) => m <= c
  BY <1>2, <1>3, <1>4, <1>5 DEF Greedy
<1>7. c = w <=> \E g : Embeds(g, needle, text, w, n)
  <2>1. ASSUME c = w PROVE \E g : Embeds(g, needle, text, w, n)
    BY <1>6, <2>1
  <2>2. ASSUME NEW g, Embeds(g, needle, text, w, n) PROVE c = w
    BY <1>6, <2>2
  <2> QED BY <2>1, <2>2
<1> QED BY <1>1, <1>2, <1>4, <1>5, <1>6, <1>7

-----------------------------------------------------------------------------
\* Scores.

\* The score of a text that matches some needle: positive, and no more than the greatest.
LEMMA ScoreBounds ==
  ASSUME NEW query \in Texts, NEW text \in Seq(Characters)
  PROVE  LET m == matchScore(query, text) IN
         /\ m.matched \in BOOLEAN /\ m.score \in 0..Exact
         /\ Trimmed(query) = <<>> => m.matched
         /\ Trimmed(query) # <<>> /\ m.matched => m.score >= 1
<1>1. PICK needle : needle = Trimmed(query) /\ needle \in Seq(Characters)
  <2>1. query \in Seq(Characters)
    BY ListViewAssumption, EmptySeq DEF Texts
  <2> QED BY <2>1, TrimmedIs
<1>2. PICK starts : starts = StartsIn(needle, text)
  OBVIOUS
<1>3. PICK found : found = charIndices(needle, text)
  OBVIOUS
<1>4. PICK fuzzy : fuzzy = spelling(needle, found)
  OBVIOUS
<1>5. PICK m : m = scored(text, needle, starts, fuzzy)
  OBVIOUS
<1>6. matchScore(query, text) = m
  BY <1>1, <1>2, <1>3, <1>4, <1>5 DEF matchScore, fuzzyMatchIndices
<1>7. /\ Exact \in Nat \ {0} /\ Prefix \in Nat \ {0} /\ WordStart \in Nat \ {0} /\ Substring \in Nat \ {0}
      /\ Ceiling \in Nat \ {0}
      /\ Exact > Prefix /\ Prefix > WordStart /\ WordStart > Substring /\ Substring >= Ceiling
  BY ListViewAssumption
<1>8. CASE needle = <<>>
  <2>1. m = [matched |-> TRUE, score |-> 0]
    BY <1>5, <1>8 DEF scored
  <2> QED BY <1>1, <1>6, <1>7, <1>8, <2>1
<1>9. CASE needle # <<>> /\ starts # {}
  <2>1. PICK x : x = contiguousScore(text, needle, Min(starts))
    OBVIOUS
  <2>2. x \in {Exact, Prefix, WordStart, Substring}
    BY <2>1 DEF contiguousScore
  <2>3. m = [matched |-> TRUE, score |-> x]
    BY <1>5, <1>9, <2>1 DEF scored
  <2>4. x \in 1..Exact
    BY <1>7, <2>2
  <2> QED BY <1>1, <1>6, <1>9, <2>3, <2>4
<1>10. CASE needle # <<>> /\ starts = {} /\ ~fuzzy.matched
  <2>1. m = [matched |-> FALSE, score |-> 0]
    BY <1>5, <1>10 DEF scored, NoMatch
  <2> QED BY <1>1, <1>6, <1>7, <1>10, <2>1
<1>11. CASE needle # <<>> /\ starts = {} /\ fuzzy.matched
  <2>1. Len(found) = Len(needle) /\ fuzzy.indices = found
    BY <1>4, <1>11 DEF spelling
  <2>2. PICK w \in Nat \ {0} : w = Len(needle)
    BY <1>1, <1>11, EmptySeq
  <2>3. found \in Seq(Nat) /\ Embeds(found, needle, text, w, Len(text))
    BY <1>1, <1>3, <2>1, <2>2, FuzzyFinds
  <2>4. PICK n \in Nat : n = Len(text)
    BY LenProperties
  <2>5. 1 \in 1..w /\ w \in 1..w /\ (1 = w \/ 1 < w)
    BY <2>2
  <2>6. found[1] \in 1..n /\ found[w] \in 1..n /\ (1 < w => found[1] < found[w])
    BY <2>3, <2>4, <2>5 DEF Embeds
  <2>7. PICK span \in Nat \ {0} : span = Last(fuzzy.indices) - fuzzy.indices[1] + 1
    <3>1. Last(fuzzy.indices) = found[w]
      BY <2>1, <2>2 DEF Last
    <3>2. found[w] - found[1] + 1 \in Nat \ {0}
      BY <2>5, <2>6
    <3> QED BY <2>1, <3>1, <3>2
  <2>8. scatterScore(span) \in 1..Exact
    BY <1>7, <2>7 DEF scatterScore
  <2>9. m = [matched |-> TRUE, score |-> scatterScore(span)]
    BY <1>5, <1>11, <2>7 DEF scored
  <2> QED BY <1>1, <1>6, <1>11, <2>8, <2>9
<1> QED BY <1>8, <1>9, <1>10, <1>11

\* A tour's score, by its name or below every name.
LEMMA RelevanceIs ==
  ASSUME NEW query \in Texts, NEW tour \in Catalogue
  PROVE  LET r == relevance(tour, query)
             named == matchScore(query, tour.name).matched IN
         /\ r.score \in Int
         /\ Trimmed(query) = <<>> => named
         /\ Trimmed(query) # <<>> /\ named => r.score >= 1
         /\ r.matched /\ ~named => r.score <= 0
<1>1. tour.name \in Seq(Characters) /\ tour.description \in Seq(Characters)
  BY ListViewAssumption
<1>2. PICK a, b : a = matchScore(query, tour.name) /\ b = matchScore(query, tour.description)
  OBVIOUS
<1>3. /\ a.matched \in BOOLEAN /\ a.score \in 0..Exact
      /\ Trimmed(query) = <<>> => a.matched
      /\ Trimmed(query) # <<>> /\ a.matched => a.score >= 1
  BY <1>1, <1>2, ScoreBounds
<1>4. b.score \in 0..Exact
  BY <1>1, <1>2, ScoreBounds
<1>5. Exact \in Nat /\ Penalty \in Nat /\ Penalty >= Exact
  BY ListViewAssumption
<1>6. PICK r : r = relevance(tour, query) /\ r = namesAbove(a, b)
  BY <1>2 DEF relevance
<1>7. CASE a.matched
  BY <1>2, <1>3, <1>5, <1>6, <1>7 DEF namesAbove
<1>8. CASE ~a.matched /\ b.matched
  <2>1. r = [b EXCEPT !.score = @ - Penalty]
    BY <1>6, <1>8 DEF namesAbove
  <2>2. r.score = b.score - Penalty
    BY <2>1
  <2> QED BY <1>2, <1>3, <1>4, <1>5, <1>6, <1>8, <2>2
<1>9. CASE ~a.matched /\ ~b.matched
  <2>1. r = [matched |-> FALSE, score |-> 0]
    BY <1>6, <1>9 DEF namesAbove, NoMatch
  <2> QED BY <1>2, <1>3, <1>6, <1>9, <2>1
<1> QED BY <1>7, <1>8, <1>9

\* What is found by its name comes before what is not.
LEMMA ListNamesFirst == ViewInv => NamesFirst
<1> SUFFICES ASSUME ViewInv PROVE NamesFirst
  OBVIOUS
<1>1. PICK n \in Nat : n = Len(rows) /\ rows \in [1..n -> Catalogue] /\ DOMAIN rows = 1..n
  BY LenProperties DEF ViewInv
<1>2. search \in Texts
  BY DEF ViewInv
<1>3. PICK found : found = [i \in DOMAIN rows |-> relevance(rows[i], search)]
  OBVIOUS
<1>4. \A i \in 1..n : found[i].score \in Int
  <2> SUFFICES ASSUME NEW i \in 1..n PROVE found[i].score \in Int
    OBVIOUS
  <2>1. rows[i] \in Catalogue /\ found[i] = relevance(rows[i], search)
    BY <1>1, <1>3
  <2> QED BY <1>2, <2>1, RelevanceIs
<1>5. PICK visible : visible = inOrder(rows, sortKey, found)
  OBVIOUS
<1>6. visible = visibleTours(rows, sortKey, search)
  BY <1>3, <1>5 DEF visibleTours
<1>7. PICK hits : hits = {i \in 1..n : found[i].matched}
  OBVIOUS
<1>8. \A k, l \in DOMAIN visible : k < l =>
        \E i, j \in hits : /\ visible[k] = rows[i] /\ visible[l] = rows[j]
                           /\ before(rows, sortKey, found, i, j)
  <2>1. PICK key : key = sortKey
    OBVIOUS
  <2>2. PICK list : list = rows
    OBVIOUS
  <2>3. list \in [1..n -> Catalogue] /\ n \in Nat /\ \A i \in 1..n : found[i].score \in Int
    BY <1>1, <1>4, <2>2
  <2>4. LET of == inOrder(list, key, found)
            all == {i \in 1..n : found[i].matched} IN
        \A k, l \in DOMAIN of : k < l =>
          \E i, j \in all : of[k] = list[i] /\ of[l] = list[j] /\ before(list, key, found, i, j)
    BY <2>3, InOrderIs
  <2> QED BY <1>5, <1>7, <2>1, <2>2, <2>4
<1>9. ASSUME NEW k \in DOMAIN visible, NEW l \in DOMAIN visible, k < l,
             matchScore(search, visible[l].name).matched
      PROVE  matchScore(search, visible[k].name).matched
  <2>1. PICK i \in hits, j \in hits : /\ visible[k] = rows[i] /\ visible[l] = rows[j]
                                      /\ before(rows, sortKey, found, i, j)
    BY <1>8, <1>9
  <2>2. i \in 1..n /\ j \in 1..n /\ found[i].matched
    BY <1>7
  <2>3. PICK x \in Int, y \in Int : x = found[i].score /\ y = found[j].score
    BY <1>4, <2>2
  <2>4. x >= y
    BY <2>1, <2>3 DEF before
  <2>5. /\ rows[i] \in Catalogue /\ found[i] = relevance(rows[i], search)
        /\ rows[j] \in Catalogue /\ found[j] = relevance(rows[j], search)
    BY <1>1, <1>3, <2>2
  <2>6. /\ Trimmed(search) = <<>> => matchScore(search, rows[i].name).matched
        /\ x >= 1 => matchScore(search, rows[i].name).matched
    BY <1>2, <2>2, <2>3, <2>5, RelevanceIs
  <2>7. Trimmed(search) # <<>> => y >= 1
    BY <1>2, <1>9, <2>1, <2>3, <2>5, RelevanceIs
  <2> QED BY <2>1, <2>3, <2>4, <2>6, <2>7
<1> QED BY <1>6, <1>9 DEF NamesFirst

-----------------------------------------------------------------------------
\* Highlighting.

JoinRun(lists, m, joined) ==
  /\ joined[0] = <<>> /\ \A n \in 1..m : joined[n] = joined[n - 1] \o lists[n]

\* Joined, unfolded.
LEMMA JoinedRuns ==
  ASSUME NEW C, NEW lists \in Seq(Seq(C))
  PROVE  \E joined \in [0..Len(lists) -> Seq(C)] :
           JoinRun(lists, Len(lists), joined) /\ Joined(lists) = joined[Len(lists)]
<1>1. PICK m \in Nat : m = Len(lists)
  BY LenProperties
<1>2. \A n \in 1..m : lists[n] \in Seq(C)
  BY <1>1, ElementOfSeq
<1> DEFINE step == [x \in Nat \X Seq(C) |-> IF x[1] \in 1..m THEN x[2] \o lists[x[1]] ELSE x[2]]
           Unfolds(f) == f = [n \in 0..m |-> IF n = 0 THEN <<>> ELSE f[n - 1] \o lists[n]]
           run == CHOOSE f : Unfolds(f)
<1>3. step \in [Nat \X Seq(C) -> Seq(C)]
  <2>1. ASSUME NEW n \in 1..m, NEW s \in Seq(C) PROVE s \o lists[n] \in Seq(C)
    BY <1>2, ConcatProperties
  <2> QED BY <2>1
<1>4. <<>> \in Seq(C)
  BY EmptySeq
<1>5. PICK f \in [Nat -> Seq(C)] : f[0] = <<>> /\ \A n \in Nat \ {0} : f[n] = step[<<n, f[n - 1]>>]
  <2>1. PICK T, st : T = Seq(C) /\ st = step
    OBVIOUS
  <2> HIDE DEF step
  <2>2. st \in [Nat \X T -> T] /\ <<>> \in T
    BY <1>3, <1>4, <2>1
  <2>3. PICK f : RunOf(f, T, <<>>, st)
    BY <2>2, RunExists
  <2> QED BY <2>1, <2>3 DEF RunOf
<1>6. \A n \in 1..m : f[n] = f[n - 1] \o lists[n]
  <2> SUFFICES ASSUME NEW n \in 1..m PROVE f[n] = f[n - 1] \o lists[n]
    OBVIOUS
  <2>1. n \in Nat \ {0} /\ n - 1 \in Nat /\ f[n - 1] \in Seq(C)
    BY <1>1, <1>5
  <2>2. f[n] = step[<<n, f[n - 1]>>]
    BY <1>5, <2>1
  <2> QED BY <2>1, <2>2
<1>7. PICK g : g = [n \in 0..m |-> f[n]]
  OBVIOUS
<1>8. g[0] = <<>> /\ \A n \in 1..m : g[n] = g[n - 1] \o lists[n]
  <2>1. \A n \in 1..m : n \in 0..m /\ n - 1 \in 0..m
    BY <1>1
  <2>2. 0 \in 0..m
    BY <1>1
  <2> QED BY <1>5, <1>6, <1>7, <2>1, <2>2
<1>9. Unfolds(g)
  <2>1. \A n \in 0..m : n # 0 => n \in 1..m
    BY <1>1
  <2>2. \A n \in 0..m : g[n] = IF n = 0 THEN <<>> ELSE g[n - 1] \o lists[n]
    BY <1>8, <2>1
  <2> QED BY <1>7, <2>2
<1>10. Unfolds(run)
  <2> HIDE DEF Unfolds
  <2> QED BY <1>9
<1>11. Joined(lists) = run[m]
  BY <1>1 DEF Joined
<1>12. JoinRun(lists, m, run)
  <2>1. 0 \in 0..m /\ \A n \in 1..m : n \in 0..m /\ n # 0
    BY <1>1
  <2> HIDE DEF run
  <2> QED BY <1>10, <2>1 DEF JoinRun
<1>13. run \in [0..m -> Seq(C)]
  <2>1. DOMAIN run = 0..m /\ run = [n \in 0..m |-> run[n]]
    <3> HIDE DEF run
    <3> QED BY <1>10
  <2> DEFINE Typed == {n \in Nat : n \in 0..m => run[n] \in Seq(C)}
  <2>2. 0 \in Typed
    <3> HIDE DEF run
    <3> QED BY <1>4, <1>12 DEF JoinRun
  <2>3. ASSUME NEW n \in Nat, n \in Typed PROVE n + 1 \in Typed
    <3> HIDE DEF run
    <3> SUFFICES ASSUME n + 1 \in 0..m PROVE run[n + 1] \in Seq(C)
      OBVIOUS
    <3>1. n + 1 \in 1..m /\ (n + 1) - 1 = n /\ run[n] \in Seq(C)
      BY <1>1, <2>3
    <3>2. run[n + 1] = run[n] \o lists[n + 1]
      BY <1>12, <3>1 DEF JoinRun
    <3> QED BY <1>2, <3>1, <3>2, ConcatProperties
  <2>4. \A n \in Nat : n \in Typed
    <3> HIDE DEF Typed
    <3> QED BY <2>2, <2>3, SetInduction
  <2> HIDE DEF run
  <2>5. \A n \in 0..m : n \in Nat
    BY <1>1
  <2> QED BY <2>1, <2>4, <2>5
<1> HIDE DEF run
<1> QED BY <1>1, <1>11, <1>12, <1>13

AgreeTo(a, b, m, f, g, l) ==
  /\ m \in Nat /\ l \in 0..m /\ JoinRun(a, m, f) /\ JoinRun(b, m, g)
  /\ \A n \in 1..l : a[n] = b[n]

\* The joins of lists that agree so far agree.
LEMMA JoinsAgree ==
  \A a, b, m, f, g, l : AgreeTo(a, b, m, f, g, l) => f[l] = g[l]
<1> SUFFICES ASSUME NEW a, NEW b, NEW m, NEW f, NEW g, NEW l, AgreeTo(a, b, m, f, g, l)
             PROVE  f[l] = g[l]
  OBVIOUS
<1>0. /\ m \in Nat /\ l \in 0..m /\ JoinRun(a, m, f) /\ JoinRun(b, m, g)
      /\ \A n \in 1..l : a[n] = b[n]
  BY DEF AgreeTo
<1> DEFINE Same == {n \in Nat : n \in 0..l => f[n] = g[n]}
<1>1. 0 \in Same
  BY <1>0 DEF JoinRun
<1>2. ASSUME NEW n \in Nat, n \in Same PROVE n + 1 \in Same
  <2> SUFFICES ASSUME n + 1 \in 0..l PROVE f[n + 1] = g[n + 1]
    OBVIOUS
  <2>1. n + 1 \in 1..m /\ n + 1 \in 1..l /\ (n + 1) - 1 = n /\ f[n] = g[n]
    BY <1>0, <1>2
  <2>2. f[n + 1] = f[n] \o a[n + 1] /\ g[n + 1] = g[n] \o b[n + 1]
    BY <1>0, <2>1 DEF JoinRun
  <2> QED BY <1>0, <2>1, <2>2
<1> HIDE DEF Same
<1>3. \A n \in Nat : n \in Same
  BY <1>1, <1>2, SetInduction
<1> QED BY <1>0, <1>3 DEF Same

\* All but the last joined, and the last.
LEMMA JoinedLast ==
  ASSUME NEW C, NEW lists \in Seq(Seq(C)), NEW more \in Seq(Seq(C)), NEW n \in Nat,
         Len(lists) = n, Len(more) = n + 1, \A i \in 1..n : more[i] = lists[i]
  PROVE  Joined(more) = Joined(lists) \o more[n + 1]
<1>1. PICK f : f \in [0..n -> Seq(C)] /\ JoinRun(lists, n, f) /\ Joined(lists) = f[n]
  BY JoinedRuns
<1>2. PICK g : g \in [0..n + 1 -> Seq(C)] /\ JoinRun(more, n + 1, g) /\ Joined(more) = g[n + 1]
  <2>1. PICK g \in [0..Len(more) -> Seq(C)] : JoinRun(more, Len(more), g) /\ Joined(more) = g[Len(more)]
    BY JoinedRuns
  <2> QED BY <2>1
<1>3. n \in 0..n /\ n + 1 \in 1..n + 1 /\ (n + 1) - 1 = n
  OBVIOUS
<1>4. JoinRun(more, n, g)
  <2>1. \A i \in 1..n : i \in 1..n + 1
    OBVIOUS
  <2> QED BY <1>2, <2>1 DEF JoinRun
<1>5. g[n] = f[n]
  <2>1. AgreeTo(more, lists, n, g, f, n)
    BY <1>1, <1>3, <1>4 DEF AgreeTo
  <2> QED BY ONLY <2>1, JoinsAgree
<1>6. g[n + 1] = g[n] \o more[n + 1]
  BY <1>2, <1>3 DEF JoinRun
<1> QED BY <1>1, <1>2, <1>5, <1>6

\* A join is a list, and of nothing it is empty.
LEMMA JoinedIs ==
  ASSUME NEW C, NEW lists \in Seq(Seq(C))
  PROVE  Joined(lists) \in Seq(C) /\ (Len(lists) = 0 => Joined(lists) = <<>>)
<1>1. PICK n \in Nat : n = Len(lists)
  BY LenProperties
<1>2. PICK f \in [0..n -> Seq(C)] : JoinRun(lists, n, f) /\ Joined(lists) = f[n]
  BY <1>1, JoinedRuns
<1>3. n \in 0..n
  OBVIOUS
<1> QED BY <1>1, <1>2, <1>3 DEF JoinRun

\* Concatenation associates.
LEMMA ConcatAssoc ==
  \A C : \A s, t, u \in Seq(C) : (s \o t) \o u = s \o (t \o u)
<1> SUFFICES ASSUME NEW C, NEW s \in Seq(C), NEW t \in Seq(C), NEW u \in Seq(C)
             PROVE  (s \o t) \o u = s \o (t \o u)
  OBVIOUS
<1> QED BY ConcatAssociative

\* One element more at the end of the last list is one more at the end of all.
LEMMA JoinedMore ==
  ASSUME NEW C, NEW lists \in Seq(Seq(C)), NEW more \in Seq(Seq(C)), NEW n \in Nat \ {0}, NEW ch \in C,
         Len(lists) = n, Len(more) = n, \A i \in 1..n - 1 : more[i] = lists[i],
         more[n] = Append(lists[n], ch)
  PROVE  Joined(more) = Append(Joined(lists), ch)
<1>1. PICK f : f \in [0..n -> Seq(C)] /\ JoinRun(lists, n, f) /\ Joined(lists) = f[n]
  BY JoinedRuns
<1>2. PICK g : g \in [0..n -> Seq(C)] /\ JoinRun(more, n, g) /\ Joined(more) = g[n]
  BY JoinedRuns
<1>3. n - 1 \in 0..n /\ n \in 1..n /\ n \in 0..n /\ n \in Nat
  OBVIOUS
<1>4. g[n - 1] = f[n - 1]
  <2>1. AgreeTo(more, lists, n, g, f, n - 1)
    BY <1>1, <1>2, <1>3 DEF AgreeTo
  <2>2. PICK l : l = n - 1
    OBVIOUS
  <2>3. AgreeTo(more, lists, n, g, f, l)
    BY <2>1, <2>2
  <2>4. g[l] = f[l]
    BY ONLY <2>3, JoinsAgree
  <2> QED BY <2>2, <2>4
<1>5. PICK s, t : s \in Seq(C) /\ t \in Seq(C) /\ s = f[n - 1] /\ t = lists[n]
  <2>1. lists[n] \in Seq(C)
    BY <1>3, ElementOfSeq
  <2> QED BY <1>1, <1>3, <2>1
<1>6. f[n] = s \o t /\ g[n] = s \o Append(t, ch)
  BY <1>1, <1>2, <1>3, <1>4, <1>5 DEF JoinRun
<1>7. PICK u : u = <<ch>> /\ u \in Seq(C)
  <2>1. <<ch>> \in Seq(C)
    OBVIOUS
  <2> QED BY <2>1
<1>8. Append(t, ch) = t \o u
  BY <1>5, <1>7, AppendIsConcat
<1>9. (s \o t) \o u = s \o (t \o u)
  <2>1. s \in Seq(C) /\ t \in Seq(C) /\ u \in Seq(C)
    BY <1>5, <1>7
  <2> QED BY ONLY <2>1, ConcatAssoc
<1>10. s \o t \in Seq(C)
  BY <1>5, ConcatProperties, Zenon
<1>11. Append(s \o t, ch) = (s \o t) \o u
  BY <1>7, <1>10, AppendIsConcat
<1> QED BY <1>1, <1>2, <1>6, <1>8, <1>9, <1>11

\* The joins of one list are one.
LEMMA JoinedSame ==
  ASSUME NEW C, NEW lists \in Seq(Seq(C)), NEW others \in Seq(Seq(C)), Len(lists) = Len(others),
         \A i \in 1..Len(lists) : lists[i] = others[i]
  PROVE  Joined(lists) = Joined(others)
<1>1. lists = others
  BY SeqEqual
<1> QED BY <1>1

RunsIn(C) == [text : Seq(C), matched : BOOLEAN]
PlainText(runs) == [k \in DOMAIN runs |-> runs[k].text]
MarkedText(runs) == [k \in DOMAIN runs |-> IF runs[k].matched THEN runs[k].text ELSE <<>>]

\* The texts of runs are lists of characters.
LEMMA RunTexts ==
  ASSUME NEW C, NEW runs \in Seq(RunsIn(C))
  PROVE  /\ PlainText(runs) \in Seq(Seq(C)) /\ Len(PlainText(runs)) = Len(runs)
         /\ MarkedText(runs) \in Seq(Seq(C)) /\ Len(MarkedText(runs)) = Len(runs)
<1>1. PICK n \in Nat : n = Len(runs) /\ DOMAIN runs = 1..n
  BY LenProperties
<1>2. PICK T : T = Seq(C) /\ <<>> \in T
  BY EmptySeq
<1>3. \A k \in 1..n : runs[k].text \in T
  <2>1. \A k \in 1..n : runs[k] \in RunsIn(C)
    BY <1>1, ElementOfSeq
  <2> QED BY <1>2, <2>1 DEF RunsIn
<1>4. PICK a : a = PlainText(runs)
  OBVIOUS
<1>5. PICK b : b = MarkedText(runs)
  OBVIOUS
<1>6. a \in [1..n -> T] /\ b \in [1..n -> T]
  BY <1>1, <1>2, <1>3, <1>4, <1>5 DEF PlainText, MarkedText
<1>7. a \in Seq(T) /\ Len(a) = n /\ b \in Seq(T) /\ Len(b) = n
  BY <1>6
<1> QED BY <1>1, <1>2, <1>4, <1>5, <1>7

\* The runs with one more character, highlighted or not.
OneMore(runs, ch, hit) ==
  IF runs # <<>> /\ Last(runs).matched = hit
  THEN [runs EXCEPT ![Len(runs)].text = Append(@, ch)]
  ELSE Append(runs, [text |-> <<ch>>, matched |-> hit])

\* It is one more of all the characters, and of the highlighted ones if it is.
LEMMA RunsGrow ==
  ASSUME NEW C, NEW runs \in Seq(RunsIn(C)), NEW ch \in C, NEW hit \in BOOLEAN
  PROVE  LET more == OneMore(runs, ch, hit) IN
         /\ more \in Seq(RunsIn(C))
         /\ Joined(PlainText(more)) = Append(Joined(PlainText(runs)), ch)
         /\ Joined(MarkedText(more)) =
              IF hit THEN Append(Joined(MarkedText(runs)), ch) ELSE Joined(MarkedText(runs))
<1>1. PICK n \in Nat : n = Len(runs) /\ DOMAIN runs = 1..n
  BY LenProperties
<1>2. PICK more : more = OneMore(runs, ch, hit)
  OBVIOUS
<1>3. PICK a, b : a = PlainText(runs) /\ b = MarkedText(runs)
  OBVIOUS
<1>4. PICK x, y : x = PlainText(more) /\ y = MarkedText(more)
  OBVIOUS
<1>5. a \in Seq(Seq(C)) /\ b \in Seq(Seq(C)) /\ Len(a) = n /\ Len(b) = n
  BY <1>1, <1>3, RunTexts
<1>6. /\ \A k \in 1..n : a[k] = runs[k].text /\ b[k] = IF runs[k].matched THEN runs[k].text ELSE <<>>
  BY <1>1, <1>3 DEF PlainText, MarkedText
<1>7. CASE runs # <<>> /\ Last(runs).matched = hit
  <2>1. n \in Nat \ {0} /\ n \in 1..n
    BY <1>1, <1>7, EmptySeq
  <2>2. PICK run : run = runs[n] /\ run \in RunsIn(C)
    BY <1>1, <2>1, ElementOfSeq
  <2>3. run.text \in Seq(C) /\ run.matched = hit
    BY <1>1, <1>7, <2>2 DEF RunsIn, Last
  <2>4. Append(run.text, ch) \in Seq(C)
    BY <2>3, AppendProperties
  <2>5. PICK grown : grown = [run EXCEPT !.text = Append(run.text, ch)]
    OBVIOUS
  <2>6. grown \in RunsIn(C) /\ grown.text = Append(run.text, ch) /\ grown.matched = hit
    BY <2>2, <2>3, <2>4, <2>5 DEF RunsIn
  <2>7. more = [runs EXCEPT ![n] = grown]
    BY <1>1, <1>2, <1>7, <2>2, <2>5 DEF OneMore
  <2>8. /\ more \in Seq(RunsIn(C)) /\ Len(more) = n
        /\ \A k \in 1..n : more[k] = IF k = n THEN grown ELSE runs[k]
    BY <1>1, <2>1, <2>6, <2>7, ExceptSeq
  <2>9. DOMAIN more = 1..n
    BY <2>8, LenProperties
  <2>10. x \in Seq(Seq(C)) /\ y \in Seq(Seq(C)) /\ Len(x) = n /\ Len(y) = n
    BY <1>4, <2>8, RunTexts
  <2>11. \A k \in 1..n : x[k] = more[k].text /\ y[k] = IF more[k].matched THEN more[k].text ELSE <<>>
    BY <1>4, <2>9 DEF PlainText, MarkedText
  <2>12. \A k \in 1..n - 1 : x[k] = a[k] /\ y[k] = b[k]
    <3> SUFFICES ASSUME NEW k \in 1..n - 1 PROVE x[k] = a[k] /\ y[k] = b[k]
      OBVIOUS
    <3>1. k \in 1..n /\ k # n
      OBVIOUS
    <3>2. more[k] = runs[k]
      BY <2>8, <3>1
    <3> QED BY <1>6, <2>11, <3>1, <3>2
  <2>13. more[n] = grown
    BY <2>1, <2>8
  <2>14. x[n] = Append(a[n], ch)
    BY <1>6, <2>1, <2>2, <2>6, <2>11, <2>13
  <2>15. Joined(x) = Append(Joined(a), ch)
    BY <1>5, <2>1, <2>10, <2>12, <2>14, JoinedMore, ZenonT(60)
  <2>16. CASE hit
    <3>1. y[n] = Append(b[n], ch)
      BY <1>6, <2>1, <2>2, <2>3, <2>6, <2>11, <2>13, <2>16
    <3>2. Joined(y) = Append(Joined(b), ch)
      BY <1>5, <2>1, <2>10, <2>12, <3>1, JoinedMore, ZenonT(40)
    <3> QED BY <1>2, <1>3, <1>4, <2>8, <2>15, <2>16, <3>2
  <2>17. CASE ~hit
    <3>1. y[n] = <<>> /\ b[n] = <<>>
      BY <1>6, <2>1, <2>2, <2>3, <2>6, <2>11, <2>13, <2>17
    <3>2. \A k \in 1..n : y[k] = b[k]
      <4> SUFFICES ASSUME NEW k \in 1..n PROVE y[k] = b[k]
        OBVIOUS
      <4>1. k = n \/ k \in 1..n - 1
        OBVIOUS
      <4> QED BY <2>12, <3>1, <4>1
    <3>3. Joined(y) = Joined(b)
      BY <1>5, <2>10, <3>2, JoinedSame
    <3> QED BY <1>2, <1>3, <1>4, <2>8, <2>15, <2>17, <3>3
  <2> QED BY <2>16, <2>17
<1>8. CASE ~(runs # <<>> /\ Last(runs).matched = hit)
  <2>1. PICK run : run = [text |-> <<ch>>, matched |-> hit]
    OBVIOUS
  <2>2. PICK u : u = <<ch>> /\ u \in Seq(C)
    <3>1. <<ch>> \in Seq(C)
      OBVIOUS
    <3> QED BY <3>1
  <2>3. run \in RunsIn(C) /\ run.text = u /\ run.matched = hit
    BY <2>1, <2>2 DEF RunsIn
  <2>4. more = Append(runs, run)
    BY <1>2, <1>8, <2>1 DEF OneMore
  <2>5. /\ more \in Seq(RunsIn(C)) /\ Len(more) = n + 1
        /\ \A k \in 1..n : more[k] = runs[k]
        /\ more[n + 1] = run
    BY <1>1, <2>3, <2>4, AppendProperties
  <2>6. DOMAIN more = 1..n + 1
    BY <2>5, LenProperties
  <2>7. x \in Seq(Seq(C)) /\ y \in Seq(Seq(C)) /\ Len(x) = n + 1 /\ Len(y) = n + 1
    BY <1>4, <2>5, RunTexts
  <2>8. \A k \in 1..n + 1 : x[k] = more[k].text /\ y[k] = IF more[k].matched THEN more[k].text ELSE <<>>
    BY <1>4, <2>6 DEF PlainText, MarkedText
  <2>9. \A k \in 1..n : x[k] = a[k] /\ y[k] = b[k]
    <3> SUFFICES ASSUME NEW k \in 1..n PROVE x[k] = a[k] /\ y[k] = b[k]
      OBVIOUS
    <3>1. k \in 1..n + 1 /\ more[k] = runs[k]
      BY <2>5
    <3> QED BY <1>6, <2>8, <3>1
  <2>10. n + 1 \in 1..n + 1
    OBVIOUS
  <2>11. x[n + 1] = u /\ y[n + 1] = IF hit THEN u ELSE <<>>
    BY <2>3, <2>5, <2>8, <2>10
  <2>12. Joined(x) = Joined(a) \o u
    BY <1>5, <2>7, <2>9, <2>11, JoinedLast
  <2>13. Joined(y) = Joined(b) \o y[n + 1]
    BY <1>5, <2>7, <2>9, JoinedLast
  <2>14. PICK ja \in Seq(C), jb \in Seq(C) : ja = Joined(a) /\ jb = Joined(b)
    BY <1>5, JoinedIs
  <2>15. Append(ja, ch) = ja \o u /\ Append(jb, ch) = jb \o u
    BY <2>2, <2>14, AppendIsConcat
  <2>16. jb \o <<>> = jb
    BY <2>14, ConcatEmptySeq
  <2> QED BY <1>2, <1>3, <1>4, <2>5, <2>11, <2>12, <2>13, <2>14, <2>15, <2>16
<1> QED BY <1>7, <1>8

MatchRun(text, marks, runs) ==
  runs[0] = <<>> /\ \A n \in Nat \ {0} : runs[n] = OneMore(runs[n - 1], text[n], n \in marks)

\* matchRuns, unfolded.
LEMMA MatchRunsRuns ==
  ASSUME NEW text, NEW marked
  PROVE  \E runs : MatchRun(text, Range(marked), runs) /\ matchRuns(text, marked) = runs[Len(text)]
<1>1. PICK V : V = {text[n] : n \in Nat}
  OBVIOUS
<1>2. PICK S : S = Seq(RunsIn(V))
  OBVIOUS
<1>3. PICK marks : marks = Range(marked)
  OBVIOUS
<1> DEFINE step == [x \in Nat \X S |-> OneMore(x[2], text[x[1]], x[1] \in marks)]
           Unfolds(f) ==
             f = [n \in Nat |-> IF n = 0 THEN <<>>
                    ELSE LET sofar == f[n - 1] IN
                         IF sofar # <<>> /\ Last(sofar).matched = (n \in Range(marked))
                         THEN [sofar EXCEPT ![Len(sofar)].text = Append(@, text[n])]
                         ELSE Append(sofar, [text |-> <<text[n]>>, matched |-> n \in Range(marked)])]
           run == CHOOSE f : Unfolds(f)
<1>4. step \in [Nat \X S -> S]
  <2>1. ASSUME NEW n \in Nat, NEW s \in S PROVE OneMore(s, text[n], n \in marks) \in S
    <3>1. PICK hit : hit = (n \in marks)
      OBVIOUS
    <3>2. PICK ch \in V : ch = text[n]
      BY <1>1
    <3>3. hit \in BOOLEAN
      BY <3>1
    <3>4. OneMore(s, ch, hit) \in S
      BY <1>2, <3>3, RunsGrow
    <3> QED BY <3>1, <3>2, <3>4
  <2> QED BY <2>1
<1>5. <<>> \in S
  BY <1>2, EmptySeq
<1>6. PICK f \in [Nat -> S] : f[0] = <<>> /\ \A n \in Nat \ {0} : f[n] = step[<<n, f[n - 1]>>]
  <2>1. PICK st : st = step
    OBVIOUS
  <2> HIDE DEF step
  <2>2. st \in [Nat \X S -> S]
    BY <1>4, <2>1
  <2>3. PICK f : RunOf(f, S, <<>>, st)
    BY <1>5, <2>2, RunExists
  <2> QED BY <2>1, <2>3 DEF RunOf
<1>7. \A n \in Nat \ {0} : n - 1 \in Nat
  OBVIOUS
<1>8. \A n \in Nat \ {0} : f[n] = OneMore(f[n - 1], text[n], n \in marks)
  BY <1>6, <1>7
<1>9. Unfolds(f)
  BY <1>3, <1>6, <1>8, ZenonT(90) DEF OneMore
<1>10. Unfolds(run)
  <2> HIDE DEF Unfolds
  <2> QED BY <1>9
<1>11. matchRuns(text, marked) = run[Len(text)]
  BY DEF matchRuns
<1>12. MatchRun(text, marks, run)
  <2> HIDE DEF run
  <2> QED BY <1>3, <1>10 DEF MatchRun, OneMore
<1> HIDE DEF run
<1> QED BY <1>3, <1>11, <1>12

\* Each run comes from the one before it.
LEMMA MatchStep ==
  ASSUME NEW text, NEW marks, NEW runs, MatchRun(text, marks, runs), NEW n \in Nat
  PROVE  runs[n + 1] = OneMore(runs[n], text[n + 1], n + 1 \in marks)
<1>1. \A i \in Nat \ {0} : runs[i] = OneMore(runs[i - 1], text[i], i \in marks)
  BY Zenon DEF MatchRun
<1>2. PICK i \in Nat \ {0} : i = n + 1 /\ i - 1 = n
  OBVIOUS
<1>3. runs[i] = OneMore(runs[i - 1], text[i], i \in marks)
  BY <1>1, <1>2, Zenon
<1> QED BY <1>2, <1>3, Zenon

\* The runs of a text's first characters are those characters.
LEMMA RunsPlain ==
  ASSUME NEW C, NEW text \in Seq(C), NEW marks, NEW runs, MatchRun(text, marks, runs)
  PROVE  \A n \in 0..Len(text) :
           /\ runs[n] \in Seq(RunsIn(C)) /\ Joined(PlainText(runs[n])) \in Seq(C)
           /\ Len(Joined(PlainText(runs[n]))) = n
           /\ \A i \in 1..n : Joined(PlainText(runs[n]))[i] = text[i]
<1>1. PICK m \in Nat : m = Len(text)
  BY LenProperties
<1> DEFINE SoFar(n) == /\ runs[n] \in Seq(RunsIn(C)) /\ Joined(PlainText(runs[n])) \in Seq(C)
                       /\ Len(Joined(PlainText(runs[n]))) = n
                       /\ \A i \in 1..n : Joined(PlainText(runs[n]))[i] = text[i]
           Good == {n \in Nat : n \in 0..m => SoFar(n)}
<1>2. 0 \in Good
  <2>1. PICK none : none = runs[0]
    OBVIOUS
  <2>2. none = <<>> /\ none \in Seq(RunsIn(C)) /\ Len(none) = 0
    BY <2>1, EmptySeq DEF MatchRun
  <2>3. Len(PlainText(none)) = 0 /\ PlainText(none) \in Seq(Seq(C))
    BY <2>2, RunTexts
  <2>4. Joined(PlainText(none)) = <<>>
    BY <2>3, JoinedIs
  <2>5. <<>> \in Seq(C) /\ Len(<<>>) = 0
    BY EmptySeq
  <2>6. SoFar(0)
    <3>1. PICK j : j = Joined(PlainText(none))
      OBVIOUS
    <3>2. j \in Seq(C) /\ Len(j) = 0 /\ \A i \in 1..0 : j[i] = text[i]
      BY <2>4, <2>5, <3>1
    <3> QED BY <2>1, <2>2, <3>1, <3>2
  <2> HIDE DEF SoFar
  <2> QED BY <2>6
<1>3. ASSUME NEW n \in Nat, n \in Good PROVE n + 1 \in Good
  <2> SUFFICES ASSUME n + 1 \in 0..m PROVE SoFar(n + 1)
    OBVIOUS
  <2>1. SoFar(n) /\ n + 1 \in 1..m /\ n + 1 \in Nat \ {0} /\ (n + 1) - 1 = n
    BY <1>1, <1>3
  <2>2. PICK r, more, ch, hit : /\ r = runs[n] /\ more = runs[n + 1] /\ ch = text[n + 1]
                                /\ hit = (n + 1 \in marks)
    OBVIOUS
  <2>3. more = OneMore(r, ch, hit) /\ hit \in BOOLEAN
    <3>1. runs[n + 1] = OneMore(runs[n], text[n + 1], n + 1 \in marks)
      BY MatchStep
    <3>2. hit \in BOOLEAN
      BY <2>2, SMT
    <3> QED BY <2>2, <3>1, <3>2
  <2>4. ch \in C /\ r \in Seq(RunsIn(C))
    BY <1>1, <2>1, <2>2, ElementOfSeq
  <2>5. more \in Seq(RunsIn(C)) /\ Joined(PlainText(more)) = Append(Joined(PlainText(r)), ch)
    BY <2>3, <2>4, RunsGrow
  <2>6. PICK j : j = Joined(PlainText(r))
    OBVIOUS
  <2>7. j \in Seq(C) /\ Len(j) = n /\ \A i \in 1..n : j[i] = text[i]
    BY <2>1, <2>2, <2>6
  <2>8. PICK k : k = Append(j, ch)
    OBVIOUS
  <2>9. k \in Seq(C) /\ Len(k) = n + 1 /\ (\A i \in 1..n : k[i] = j[i]) /\ k[n + 1] = ch
    BY <2>4, <2>7, <2>8, AppendProperties
  <2>10. \A i \in 1..n + 1 : k[i] = text[i]
    BY <2>2, <2>7, <2>9
  <2> QED BY <2>2, <2>5, <2>6, <2>8, <2>9, <2>10
<1>4. \A n \in Nat : n \in Good
  <2> HIDE DEF Good
  <2> QED BY <1>2, <1>3, SetInduction
<1>5. \A n \in 0..m : SoFar(n)
  <2>1. \A n \in 0..m : n \in Nat
    OBVIOUS
  <2> HIDE DEF SoFar
  <2> QED BY <1>4, <2>1
<1> QED BY <1>1, <1>5

\* Where all of a needle is found, what is highlighted spells it.
LEMMA RunsMarked ==
  ASSUME NEW C, NEW needle \in Seq(C), NEW text \in Seq(C), NEW found, FoundRun(needle, text, found),
         NEW runs, MatchRun(text, Range(found[Len(text)]), runs)
  PROVE  \A n \in 0..Len(text) :
           /\ Joined(MarkedText(runs[n])) \in Seq(C)
           /\ Len(Joined(MarkedText(runs[n]))) = Len(found[n])
           /\ \A i \in 1..Len(found[n]) : Joined(MarkedText(runs[n]))[i] = needle[i]
<1>1. PICK m \in Nat : m = Len(text)
  BY LenProperties
<1>2. PICK marks : marks = Range(found[m])
  OBVIOUS
<1>3. MatchRun(text, marks, runs)
  BY <1>1, <1>2
<1> DEFINE Marked(n) == /\ Joined(MarkedText(runs[n])) \in Seq(C)
                        /\ Len(Joined(MarkedText(runs[n]))) = Len(found[n])
                        /\ \A i \in 1..Len(found[n]) : Joined(MarkedText(runs[n]))[i] = needle[i]
           Good == {n \in Nat : n \in 0..m => Marked(n)}
<1>4. 0 \in Good
  <2>1. PICK none : none = runs[0]
    OBVIOUS
  <2>2. none = <<>> /\ none \in Seq(RunsIn(C)) /\ Len(none) = 0
    BY <1>3, <2>1, EmptySeq DEF MatchRun
  <2>3. Len(MarkedText(none)) = 0 /\ MarkedText(none) \in Seq(Seq(C))
    BY <2>2, RunTexts
  <2>4. Joined(MarkedText(none)) = <<>>
    BY <2>3, JoinedIs
  <2>5. <<>> \in Seq(C) /\ Len(<<>>) = 0
    BY EmptySeq
  <2>6. Len(found[0]) = 0
    BY <2>5 DEF FoundRun
  <2>7. Marked(0)
    <3>1. PICK j : j = Joined(MarkedText(none))
      OBVIOUS
    <3>2. j \in Seq(C) /\ Len(j) = Len(found[0]) /\ \A i \in 1..Len(found[0]) : j[i] = needle[i]
      BY <2>4, <2>5, <2>6, <3>1
    <3> QED BY <2>1, <3>1, <3>2
  <2> HIDE DEF Marked
  <2> QED BY <2>7
<1>5. ASSUME NEW n \in Nat, n \in Good PROVE n + 1 \in Good
  <2> SUFFICES ASSUME n + 1 \in 0..m PROVE Marked(n + 1)
    OBVIOUS
  <2>1. Marked(n) /\ n + 1 \in 1..m /\ n + 1 \in Nat \ {0} /\ (n + 1) - 1 = n /\ n \in 0..m
    BY <1>1, <1>5
  <2>2. PICK r, more, ch, hit : /\ r = runs[n] /\ more = runs[n + 1] /\ ch = text[n + 1]
                                /\ hit = (n + 1 \in marks)
    OBVIOUS
  <2>3. more = OneMore(r, ch, hit) /\ hit \in BOOLEAN
    <3>1. runs[n + 1] = OneMore(runs[n], text[n + 1], n + 1 \in marks)
      BY <1>3, MatchStep
    <3>2. hit \in BOOLEAN
      BY <2>2, SMT
    <3> QED BY <2>2, <3>1, <3>2
  <2>4. ch \in C
    BY <1>1, <2>1, <2>2, ElementOfSeq
  <2>5. r \in Seq(RunsIn(C))
    BY <1>1, <1>3, <2>1, <2>2, RunsPlain
  <2>6. Joined(MarkedText(more)) = IF hit THEN Append(Joined(MarkedText(r)), ch) ELSE Joined(MarkedText(r))
    BY <2>3, <2>4, <2>5, RunsGrow
  <2>7. PICK s, t : s = found[n] /\ t = found[n + 1] /\ s \in Seq(Nat)
    BY DEF FoundRun
  <2>8. PICK c \in Nat : c = Len(s)
    BY <2>7, LenProperties
  <2>9. hit <=> Hit(needle, text, s, n + 1)
    <3>1. Greedy(needle, text, found, m)
      BY <1>1, GreedyFinds
    <3> QED BY <1>2, <2>1, <2>2, <2>7, <3>1 DEF Greedy
  <2>10. t = IF hit THEN Append(s, n + 1) ELSE s
    BY <2>1, <2>7, <2>9 DEF FoundRun
  <2>11. PICK j : j = Joined(MarkedText(r))
    OBVIOUS
  <2>12. j \in Seq(C) /\ Len(j) = c /\ \A i \in 1..c : j[i] = needle[i]
    BY <2>1, <2>2, <2>7, <2>8, <2>11
  <2>13. CASE ~hit
    <3>1. t = s /\ Joined(MarkedText(more)) = j
      BY <2>6, <2>10, <2>11, <2>13
    <3> QED BY <2>2, <2>7, <2>8, <2>12, <3>1
  <2>14. CASE hit
    <3>1. ch = needle[c + 1]
      BY <2>2, <2>8, <2>9, <2>14 DEF Hit
    <3>2. t = Append(s, n + 1)
      BY <2>10, <2>14
    <3>3. Len(t) = c + 1
      BY <2>1, <2>7, <2>8, <3>2, AppendProperties
    <3>4. PICK k : k = Append(j, ch)
      OBVIOUS
    <3>5. k \in Seq(C) /\ Len(k) = c + 1 /\ (\A i \in 1..c : k[i] = j[i]) /\ k[c + 1] = ch
      BY <2>4, <2>12, <3>4, AppendProperties
    <3>6. \A i \in 1..c + 1 : k[i] = needle[i]
      BY <2>8, <2>12, <3>1, <3>5
    <3>7. Joined(MarkedText(more)) = k
      BY <2>6, <2>11, <2>14, <3>4
    <3> QED BY <2>2, <2>7, <3>3, <3>5, <3>6, <3>7
  <2> QED BY <2>13, <2>14
<1>6. \A n \in Nat : n \in Good
  <2> HIDE DEF Good
  <2> QED BY <1>4, <1>5, SetInduction
<1>7. \A n \in 0..m : Marked(n)
  <2>1. \A n \in 0..m : n \in Nat
    OBVIOUS
  <2> HIDE DEF Marked
  <2> QED BY <1>6, <2>1
<1> QED BY <1>1, <1>7

\* What is found of a needle in a name, and the runs of it.
Spells(needle, name, found, runs) ==
  /\ found.matched <=> \E f \in [DOMAIN needle -> DOMAIN name] :
                          \A m, n \in DOMAIN needle : /\ name[f[n]] = needle[n]
                                                      /\ m < n => f[m] < f[n]
  /\ Joined([k \in DOMAIN runs |-> runs[k].text]) = name
  /\ found.matched => Joined([k \in DOMAIN runs |-> IF runs[k].matched THEN runs[k].text ELSE <<>>]) = needle

\* What matches is what a reader would find, and what is highlighted spells the query.
LEMMA ListHighlightSpells == ViewInv => HighlightSpells
<1> SUFFICES ASSUME ViewInv, NEW i \in DOMAIN rows
             PROVE  LET found == fuzzyMatchIndices(search, rows[i].name) IN
                    Spells(Trimmed(search), rows[i].name, found, matchRuns(rows[i].name, found.indices))
  BY DEF HighlightSpells, Spells
<1>1. PICK needle : needle = Trimmed(search) /\ needle \in Seq(Characters)
  <2>1. search \in Seq(Characters)
    BY ListViewAssumption, EmptySeq DEF ViewInv, Texts
  <2> QED BY <2>1, TrimmedIs
<1>2. PICK name : name = rows[i].name /\ name \in Seq(Characters)
  <2>1. rows[i] \in Catalogue
    BY ElementOfSeq, LenProperties DEF ViewInv
  <2> QED BY <2>1, ListViewAssumption
<1>3. PICK w \in Nat, n \in Nat : w = Len(needle) /\ n = Len(name) /\ DOMAIN needle = 1..w /\ DOMAIN name = 1..n
  BY <1>1, <1>2, LenProperties
<1>4. PICK run : FoundRun(needle, name, run) /\ charIndices(needle, name) = run[n]
  BY <1>3, CharIndicesRuns
<1>5. PICK chars : chars = charIndices(needle, name)
  OBVIOUS
<1>6. Len(chars) = w <=> \E f : Embeds(f, needle, name, w, n)
  BY <1>1, <1>2, <1>3, <1>5, FuzzyFinds
<1>7. PICK found : found = fuzzyMatchIndices(search, name)
  OBVIOUS
<1>8. found = spelling(needle, chars)
  BY <1>1, <1>5, <1>7 DEF fuzzyMatchIndices
<1>9. found.matched <=> Len(chars) = w
  BY <1>3, <1>8 DEF spelling
<1>10. (\E f : Embeds(f, needle, name, w, n)) <=>
         \E f \in [1..w -> 1..n] : \A k, l \in 1..w : name[f[l]] = needle[l] /\ (k < l => f[k] < f[l])
  BY DEF Embeds
<1>11. PICK runs : runs = matchRuns(name, found.indices)
  OBVIOUS
<1>12. PICK steps : MatchRun(name, Range(found.indices), steps) /\ runs = steps[n]
  BY <1>3, <1>11, MatchRunsRuns
<1>13. n \in 0..n
  OBVIOUS
<1>14. Joined(PlainText(runs)) = name
  <2>1. PICK j : j = Joined(PlainText(runs))
    OBVIOUS
  <2>2. j \in Seq(Characters) /\ Len(j) = n /\ \A k \in 1..n : j[k] = name[k]
    BY <1>2, <1>3, <1>12, <1>13, <2>1, RunsPlain
  <2> QED BY <1>2, <1>3, <2>1, <2>2, SeqEqual
<1>15. ASSUME found.matched PROVE Joined(MarkedText(runs)) = needle
  <2>1. found.indices = run[n] /\ Len(run[n]) = w
    BY <1>3, <1>4, <1>5, <1>8, <1>9, <1>15 DEF spelling
  <2>2. MatchRun(name, Range(run[Len(name)]), steps)
    BY <1>3, <1>12, <2>1
  <2>3. PICK j : j = Joined(MarkedText(runs))
    OBVIOUS
  <2>4. j \in Seq(Characters) /\ Len(j) = Len(run[n]) /\ \A k \in 1..Len(run[n]) : j[k] = needle[k]
    BY <1>1, <1>2, <1>3, <1>4, <1>12, <1>13, <2>2, <2>3, RunsMarked
  <2>5. Len(j) = Len(needle) /\ \A k \in 1..Len(j) : j[k] = needle[k]
    BY <1>3, <2>1, <2>4
  <2> QED BY <1>1, <2>3, <2>4, <2>5, SeqEqual
<1>16. found.matched <=> \E f \in [DOMAIN needle -> DOMAIN name] :
                           \A k, l \in DOMAIN needle : name[f[l]] = needle[l] /\ (k < l => f[k] < f[l])
  BY <1>3, <1>6, <1>9, <1>10
<1>17. Spells(needle, name, found, runs)
  <2>1. Joined([k \in DOMAIN runs |-> runs[k].text]) = name
    BY <1>14 DEF PlainText
  <2>2. found.matched =>
          Joined([k \in DOMAIN runs |-> IF runs[k].matched THEN runs[k].text ELSE <<>>]) = needle
    BY <1>15 DEF MarkedText
  <2> QED BY <1>16, <2>1, <2>2 DEF Spells
<1> QED BY <1>1, <1>2, <1>7, <1>11, <1>17

\* All of the list's invariant.
LEMMA ViewInvSound == ViewInv => ListSound
BY ViewTyped, ListHighlightSpells, ListNamesFirst, ListExtentExact, ListShowsAndKeeps DEF ListSound

(* The list shows what the search, the sort, the filter and the map select, in that *)
(* order, and the URL brings it back unless the rider is typing or has gone back or  *)
(* forward to an entry that nothing has synced since, whatever the tours, the        *)
(* queries, the views and the layers (tours.js, tourList.js, url.js, router.js).     *)
THEOREM ListAlwaysSound == ListViewSpec => []ListSound
<1>1. ListViewInit => ViewInv
  BY ViewStart
<1>2. ViewInv /\ [ListViewNext]_listViewVars => ViewInv'
  BY ViewStep
<1>3. ViewInv => ListSound
  BY ViewInvSound
<1> QED BY <1>1, <1>2, <1>3, PTL DEF ListViewSpec

=============================================================================
