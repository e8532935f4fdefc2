--------------------------- MODULE RecordsProofs ----------------------------
(***************************************************************************)
(* Uptime records, keys and marks, proved for any number of days, pruners  *)
(* and windows, and of consents, contacts and requests.                    *)
(*                                                                         *)
(* Heartbeat, where writes are serialised.  A beat is a row or in its day's*)
(* totals (Balanced).  An open prune holds what the tables still say       *)
(* (Isolated), so its commit moves beats and loses none, and a page that has*)
(* read the totals is below what was recorded by the beats still to come.  *)
(*                                                                         *)
(* Grants.  A key is handed out with the claim of its code.  A scrub lists *)
(* only codes whose time is over and a redemption reads only those whose   *)
(* time is not: for the two to meet the time must run out in between.      *)
(*                                                                         *)
(* Logbook.  A form writes back what it loaded, so what is true of the marks*)
(* has to be true of the instances that requests hold.                     *)
(***************************************************************************)
EXTENDS Heartbeat, Logbook, Grants, FiniteSetTheorems, WellFoundedInduction, NaturalsInduction,
        TLAPS

\* The beats of a day that are still rows.
Kept(b, d) == {t \in DayMinutes(d) : b[t] # "none"}

Sum(x) == x.ok + x.fail + x.maintenance

\* Every beat ever recorded is a row, or in the totals of its day.
Balanced == \A d \in Days : Sum(daily[d]) + Cardinality(Kept(beats, d)) = recorded[d]

\* One transaction is open at a time, and what it read is still so.
Isolated ==
    /\ \A p, q \in Pruners : prunes[p].pc # "idle" /\ prunes[q].pc # "idle" => p = q
    /\ \A p \in Pruners :
         /\ prunes[p].pc # "idle" =>
              \A d \in Days, c \in Int : c = prunes[p].cutoff => prunes[p].batch[d] = Batch(d, c)
         /\ prunes[p].pc = "read" => prunes[p].rows = daily

\* A page that has read the totals of a completed day has not counted the
\* beats that are still rows.
PageBelow ==
    page.pc \in {"summaries", "raw"} =>
        /\ DayEnd(page.day) <= minute
        /\ page.ok <= page.observed
        /\ page.observed + Cardinality(Kept(beats, page.day)) <= recorded[page.day]

HeartbeatInv == HeartbeatTypeOK /\ Balanced /\ Isolated /\ PageBelow /\ NeverOvercounts

-----------------------------------------------------------------------------
\* Two halves of a finite set count to the whole.
LEMMA Halves ==
    ASSUME NEW S, IsFiniteSet(S), NEW A, NEW B, S = A \cup B, A \cap B = {}
    PROVE  /\ IsFiniteSet(A) /\ IsFiniteSet(B)
           /\ Cardinality(A) \in Nat /\ Cardinality(B) \in Nat
           /\ Cardinality(S) = Cardinality(A) + Cardinality(B)
  <1>1. IsFiniteSet(A) /\ IsFiniteSet(B)
    BY FS_Subset
  <1>2. Cardinality(S) = Cardinality(A) + Cardinality(B) - Cardinality(A \cap B)
    BY <1>1, FS_Union
  <1>3. Cardinality(A \cap B) = 0
    BY FS_EmptySet
  <1>4. Cardinality(A) \in Nat /\ Cardinality(B) \in Nat
    BY <1>1, FS_CardinalityType
  <1> QED
    BY <1>1, <1>2, <1>3, <1>4

\* A day has finitely many minutes, all of them natural numbers.
LEMMA DaysAreFinite ==
    ASSUME NEW d, NEW S, S \subseteq DayMinutes(d)
    PROVE  IsFiniteSet(S) /\ S \subseteq Minutes /\ Minutes \subseteq Nat /\ Cardinality(S) \in Nat
  <1>1. (LastDay + 1) * DayLength - 1 \in Int
    BY HeartbeatAssumption
  <1>2. IsFiniteSet(Minutes) /\ Minutes \subseteq Nat
    BY <1>1, FS_Interval DEF Minutes
  <1>3. S \subseteq Minutes
    BY DEF DayMinutes
  <1>4. IsFiniteSet(S)
    BY <1>2, <1>3, FS_Subset
  <1> QED
    BY <1>2, <1>3, <1>4, FS_CardinalityType

\* Multiplication by the length of a day keeps the order.
LEMMA DaysInOrder ==
    ASSUME NEW a \in Int, NEW b \in Int, a <= b
    PROVE  a * DayLength <= b * DayLength
  <1>1. DayLength \in Nat
    BY HeartbeatAssumption
  <1>2. PICK k \in Nat : b = a + k
    <2>1. b - a \in Nat /\ b = a + (b - a)
      OBVIOUS
    <2> QED
      BY <2>1
  <1>3. b * DayLength = a * DayLength + k * DayLength
    BY <1>1, <1>2
  <1>4. k * DayLength \in Nat /\ a * DayLength \in Int
    BY <1>1
  <1> QED
    BY <1>3, <1>4

\* _day_bounds: a minute is in exactly one day, DayOf of it.
LEMMA DayBounds ==
    ASSUME NEW t \in Minutes
    PROVE  /\ DayOf(t) \in Days
           /\ t \in DayMinutes(DayOf(t))
           /\ \A d \in Days : t \in DayMinutes(d) => d = DayOf(t)
           /\ \A d \in Days : DayOf(t) > d => DayEnd(d) <= t
  <1> DEFINE q == t \div DayLength
  <1>1. t \in Nat /\ DayLength \in Nat /\ DayLength > 0 /\ LastDay \in Nat
    BY HeartbeatAssumption DEF Minutes
  <1>2. q \in Nat /\ q * DayLength <= t /\ t < (q + 1) * DayLength
    <2>1. q \in Int /\ t = DayLength * q + (t % DayLength) /\ t % DayLength \in 0 .. DayLength - 1
      BY <1>1
    <2>2. q >= 0
      BY <1>1
    <2> QED
      BY <1>1, <2>1, <2>2
  <1> HIDE DEF q
  <1>3. \A d \in Int : d < q => (d + 1) * DayLength <= t
    <2> TAKE d \in Int
    <2> HAVE d < q
    <2>1. (d + 1) * DayLength <= q * DayLength
      BY <1>2, DaysInOrder
    <2> QED
      BY <1>1, <1>2, <2>1
  <1>4. \A d \in Int : q < d => t < d * DayLength
    <2> TAKE d \in Int
    <2> HAVE q < d
    <2>1. (q + 1) * DayLength <= d * DayLength
      BY <1>2, DaysInOrder
    <2> QED
      BY <1>1, <1>2, <2>1
  <1>5. t < (LastDay + 1) * DayLength
    BY <1>1 DEF Minutes
  <1>6. q <= LastDay
    <2> SUFFICES ASSUME LastDay < q PROVE FALSE
      BY <1>1, <1>2
    <2>1. (LastDay + 1) * DayLength <= t
      BY <1>1, <1>3
    <2> QED
      BY <1>1, <1>5, <2>1
  <1>7. DayOf(t) = q
    BY DEF DayOf, q
  <1>8. t \in DayMinutes(q)
    BY <1>2 DEF DayMinutes, DayStart, DayEnd
  <1>9. ASSUME NEW d \in Days, t \in DayMinutes(d) PROVE d = q
    <2>1. d \in Int /\ d * DayLength <= t /\ t < (d + 1) * DayLength
      BY <1>9 DEF Days, DayMinutes, DayStart, DayEnd
    <2>2. ~(d < q) /\ ~(q < d)
      BY <1>1, <1>2, <1>3, <1>4, <2>1
    <2> QED
      BY <1>2, <2>1, <2>2
  <1>10. ASSUME NEW d \in Days, q > d PROVE DayEnd(d) <= t
    BY <1>2, <1>3, <1>10 DEF DayEnd, Days
  <1> QED
    BY <1>1, <1>2, <1>6, <1>7, <1>8, <1>9, <1>10 DEF Days

\* A day's share of a batch is all of its old beats, split three ways.
LEMMA BatchAddsUp ==
    ASSUME HeartbeatTypeOK, NEW d \in Days, NEW c \in Int
    PROVE  /\ Batch(d, c) \in Totals
           /\ Sum(Batch(d, c)) = Cardinality(OldRecords(c) \cap DayMinutes(d))
  <1> DEFINE old == OldRecords(c) \cap DayMinutes(d)
             counted == old \ Excluded
             apart == old \cap Excluded
             up == With("ok", counted)
             down == With("fail", counted)
  <1>1. old \subseteq DayMinutes(d) /\ \A t \in old : beats[t] \in {"ok", "fail"}
    BY DEF OldRecords, HeartbeatTypeOK
  <1>2. IsFiniteSet(old)
    BY <1>1, DaysAreFinite
  <1>3. old = counted \cup apart /\ counted \cap apart = {}
    OBVIOUS
  <1>4. counted = up \cup down /\ up \cap down = {}
    BY <1>1 DEF With
  <1>5. Batch(d, c) = [ok |-> Cardinality(up), fail |-> Cardinality(down), maintenance |-> Cardinality(apart)]
    BY DEF Batch
  <1> HIDE DEF old, counted, apart, up, down
  <1>6. /\ IsFiniteSet(counted) /\ Cardinality(apart) \in Nat /\ Cardinality(counted) \in Nat
        /\ Cardinality(old) = Cardinality(counted) + Cardinality(apart)
    BY <1>2, <1>3, Halves
  <1>7. /\ Cardinality(up) \in Nat /\ Cardinality(down) \in Nat
        /\ Cardinality(counted) = Cardinality(up) + Cardinality(down)
    <2>1. IsFiniteSet(counted)
      BY <1>6
    <2>2. counted = up \cup down
      BY <1>4
    <2>3. up \cap down = {}
      BY <1>4
    <2> QED
      BY <2>1, <2>2, <2>3, Halves
  <1>8. Sum(Batch(d, c)) = Cardinality(old)
    BY <1>5, <1>6, <1>7 DEF Sum
  <1> QED
    BY <1>5, <1>6, <1>7, <1>8 DEF Totals, old

\* A batch depends on beats and windows only.
LEMMA BatchStays ==
    ASSUME NEW d, NEW c, UNCHANGED <<beats, windows>>
    PROVE  Batch(d, c)' = Batch(d, c)
  BY DEF Batch, OldRecords, With, Excluded

\* The empty totals, the idle prune and the page before its first query.
LEMMA HeartbeatConstants ==
    /\ Empty \in Totals /\ Sum(Empty) = 0
    /\ NoPrune \in Prune /\ NoPrune.pc = "idle"
    /\ NoPage \in Page /\ NoPage.pc = "idle"
    /\ 0 \in Days /\ 0 \in Minutes
    /\ Minutes \subseteq Nat /\ DayLength \in Nat \ {0} /\ Retention \in Nat
  <1>1. Empty \in Totals /\ Sum(Empty) = 0
    BY DEF Empty, Totals, Sum
  <1>2. 0 \in Days
    BY HeartbeatAssumption DEF Days
  <1>3. NoPrune \in Prune /\ NoPrune.pc = "idle"
    BY <1>1 DEF NoPrune, Prune
  <1>4. NoPage \in Page /\ NoPage.pc = "idle"
    BY <1>2 DEF NoPage, Page
  <1>5. 0 \in Minutes /\ Minutes \subseteq Nat
    <2>1. 1 * DayLength <= (LastDay + 1) * DayLength
      BY HeartbeatAssumption, DaysInOrder
    <2>2. (LastDay + 1) * DayLength \in Int
      BY HeartbeatAssumption
    <2> QED
      BY <2>1, <2>2, HeartbeatAssumption DEF Minutes
  <1> QED
    BY <1>1, <1>2, <1>3, <1>4, <1>5, HeartbeatAssumption

\* The oldest beat exists as soon as there is one.
LEMMA OldestBeat ==
    ASSUME NEW S, S \subseteq Minutes, S # {}
    PROVE  \E t \in S : \A s \in S : t <= s
  <1>1. S \subseteq Nat
    BY HeartbeatConstants
  <1>2. IsWellFoundedOn(OpToRel(<, Nat), Nat)
    BY NatLessThanWellFounded
  <1>3. PICK t \in S : \A s \in S : ~(<<s, t>> \in OpToRel(<, Nat))
    BY <1>1, <1>2, WFMin
  <1>4. \A s \in S : ~(s < t)
    BY <1>1, <1>3 DEF OpToRel
  <1>5. \A s \in S : t <= s
    BY <1>1, <1>4
  <1> QED
    BY <1>5

\* The initial states satisfy the invariant.
LEMMA HeartbeatInitially == HeartbeatInit => HeartbeatInv
  <1> SUFFICES ASSUME HeartbeatInit PROVE HeartbeatInv
    OBVIOUS
  <1>1. HeartbeatTypeOK
    BY HeartbeatConstants DEF HeartbeatInit, HeartbeatTypeOK
  <1>2. Balanced
    <2>1. ASSUME NEW d \in Days PROVE Cardinality(Kept(beats, d)) = 0
      <3>1. Kept(beats, d) = {}
        BY DEF HeartbeatInit, Kept, DayMinutes
      <3> QED
        BY <3>1, FS_EmptySet
    <2>2. ASSUME NEW d \in Days PROVE daily[d] = Empty /\ recorded[d] = 0
      BY DEF HeartbeatInit
    <2> QED
      BY <2>1, <2>2, HeartbeatConstants DEF Balanced
  <1>3. Isolated /\ PageBelow /\ NeverOvercounts
    BY HeartbeatConstants DEF HeartbeatInit, Isolated, PageBelow, NeverOvercounts
  <1> QED
    BY <1>1, <1>2, <1>3 DEF HeartbeatInv

\* The clock moves and no row does.
LEMMA ClockTickKeeps == HeartbeatInv /\ ClockTick => HeartbeatInv'
  <1> SUFFICES ASSUME HeartbeatInv, ClockTick PROVE HeartbeatInv'
    OBVIOUS
  <1> USE DEF HeartbeatInv, ClockTick
  <1>1. HeartbeatTypeOK'
    BY DEF HeartbeatTypeOK
  <1>2. Balanced' /\ NeverOvercounts'
    BY DEF Balanced, Kept, NeverOvercounts
  <1>3. Isolated'
    BY DEF Isolated, Batch, OldRecords, With, Excluded
  <1>4. PageBelow'
    <2>1. page.day \in Days /\ minute \in Int /\ DayEnd(page.day) \in Int
      BY HeartbeatConstants DEF HeartbeatTypeOK, Page, Days, DayEnd
    <2> QED
      BY <2>1 DEF PageBelow, Kept
  <1> QED
    BY <1>1, <1>2, <1>3, <1>4

\* This minute's beat: a new row is counted once, and a page shows days that
\* are over.
LEMMA RunMonitorCheckKeeps ==
    ASSUME Serialised, HeartbeatInv, NEW status \in {"ok", "fail"}, RunMonitorCheck(status)
    PROVE  HeartbeatInv'
  <1> USE DEF HeartbeatInv
  <1>a. PICK today \in Days : today = DayOf(minute)
    BY DayBounds DEF HeartbeatTypeOK
  <1>0. /\ minute \in Minutes /\ today \in Days /\ minute \in DayMinutes(today)
        /\ \A d \in Days : minute \in DayMinutes(d) => d = today
    BY <1>a, DayBounds DEF HeartbeatTypeOK
  <1>1. /\ beats' = [beats EXCEPT ![minute] = status]
        /\ recorded' = [recorded EXCEPT ![today] = @ + (IF beats[minute] = "none" THEN 1 ELSE 0)]
        /\ UNCHANGED <<minute, daily, windows, prunes, page>>
        /\ \A p \in Pruners : prunes[p].pc = "idle"
    BY <1>a DEF RunMonitorCheck, MayWrite
  <1>2. HeartbeatTypeOK'
    <2>1. beats' \in [Minutes -> {"none", "ok", "fail"}] /\ beats'[minute] # "none"
      BY <1>0, <1>1 DEF HeartbeatTypeOK
    <2>2. recorded' \in [Days -> Nat]
      BY <1>0, <1>1 DEF HeartbeatTypeOK
    <2>3. epoch' \in Minutes \cup {NoEpoch}
      <3> DEFINE S == {t \in Minutes : beats'[t] # "none"}
      <3>1. \E t \in S : \A s \in S : t <= s
        BY <1>0, <2>1, OldestBeat
      <3>2. \E t \in Minutes : beats'[t] # "none" /\ \A s \in Minutes : beats'[s] # "none" => t <= s
        BY <3>1
      <3> QED
        BY <3>2 DEF RunMonitorCheck, HeartbeatTypeOK
    <2> QED
      BY <1>1, <2>1, <2>2, <2>3 DEF HeartbeatTypeOK
  <1>3. \A d \in Days : d # today => Kept(beats', d) = Kept(beats, d) /\ recorded'[d] = recorded[d]
    BY <1>0, <1>1 DEF Kept, DayMinutes, HeartbeatTypeOK
  <1>4. Kept(beats', today) = Kept(beats, today) \cup {minute}
    BY <1>0, <1>1 DEF Kept, DayMinutes, HeartbeatTypeOK
  <1>5. \A d \in Days : IsFiniteSet(Kept(beats, d)) /\ Cardinality(Kept(beats, d)) \in Nat
    BY DaysAreFinite DEF Kept
  <1>6. Cardinality(Kept(beats', today)) - Cardinality(Kept(beats, today)) = recorded'[today] - recorded[today]
    <2>1. minute \in Kept(beats, today) <=> beats[minute] # "none"
      BY <1>0 DEF Kept
    <2>2. Cardinality(Kept(beats', today)) = IF minute \in Kept(beats, today) THEN Cardinality(Kept(beats, today))
                                                              ELSE Cardinality(Kept(beats, today)) + 1
      BY <1>0, <1>4, <1>5, FS_AddElement
    <2>3. recorded'[today] = recorded[today] + (IF beats[minute] = "none" THEN 1 ELSE 0)
      BY <1>0, <1>1 DEF HeartbeatTypeOK
    <2>4. recorded[today] \in Nat /\ Cardinality(Kept(beats, today)) \in Nat
      BY <1>0, <1>5 DEF HeartbeatTypeOK
    <2> QED
      BY <2>1, <2>2, <2>3, <2>4
  <1>7. Balanced'
    <2> SUFFICES ASSUME NEW d \in Days
                 PROVE  Sum(daily[d]) + Cardinality(Kept(beats', d)) = recorded'[d]
      BY <1>1 DEF Balanced
    <2>1. Sum(daily[d]) + Cardinality(Kept(beats, d)) = recorded[d]
      BY DEF Balanced
    <2>2. Sum(daily[d]) \in Nat /\ recorded[d] \in Nat /\ recorded'[d] \in Nat /\ Cardinality(Kept(beats, d)) \in Nat
      BY <1>2, <1>5 DEF HeartbeatTypeOK, Totals, Sum
    <2>3. Cardinality(Kept(beats', d)) \in Nat
      BY <1>2, DaysAreFinite DEF Kept
    <2>4. CASE d = today
      BY <1>6, <2>1, <2>2, <2>3, <2>4
    <2>5. CASE d # today
      BY <1>3, <2>1, <2>5
    <2> QED
      BY <2>4, <2>5
  <1>8. Isolated'
    BY <1>1 DEF Isolated
  <1>9. PageBelow'
    <2> SUFFICES ASSUME page.pc \in {"summaries", "raw"}
                 PROVE  /\ DayEnd(page.day) <= minute /\ page.ok <= page.observed
                        /\ page.observed + Cardinality(Kept(beats', page.day)) <= recorded'[page.day]
      BY <1>1 DEF PageBelow
    <2>1. page.day \in Days
      BY DEF HeartbeatTypeOK, Page
    <2>2. page.day # today
      <3>1. DayEnd(page.day) <= minute
        BY DEF PageBelow
      <3>2. minute < DayEnd(today)
        BY <1>0 DEF DayMinutes
      <3>3. minute \in Int /\ DayEnd(today) \in Int
        BY <1>0, HeartbeatConstants DEF DayEnd, Days
      <3> QED
        BY <3>1, <3>2, <3>3
    <2> QED
      BY <1>3, <2>1, <2>2 DEF PageBelow
  <1>10. NeverOvercounts'
    <2>1. page \in Page /\ recorded[page.day] <= recorded'[page.day]
          /\ recorded[page.day] \in Nat /\ recorded'[page.day] \in Nat
      BY <1>0, <1>1 DEF HeartbeatTypeOK, Page
    <2>2. page.observed \in Nat
      BY <2>1 DEF Page
    <2> QED
      BY <1>1, <2>1, <2>2 DEF NeverOvercounts
  <1> QED
    BY <1>2, <1>7, <1>8, <1>9, <1>10

\* Staff move windows and the epoch while no prune is open.
LEMMA StaffKeeps ==
    ASSUME Serialised, HeartbeatInv,
           \/ \E t \in Epochs \cap Minutes : ResetEpoch(t)
           \/ \E w \in Windows : OpenWindow(w)
           \/ \E w \in windows : DeleteWindow(w)
           \/ \E deleteFuture \in BOOLEAN : CloseWindows(deleteFuture)
    PROVE  HeartbeatInv'
  <1> USE DEF HeartbeatInv
  <1>1. /\ UNCHANGED <<minute, beats, daily, prunes, page, recorded>>
        /\ \A p \in Pruners : prunes[p].pc = "idle"
    BY DEF ResetEpoch, OpenWindow, DeleteWindow, CloseWindows, MayWrite
  <1>2. epoch' \in Minutes \cup {NoEpoch}
    BY DEF ResetEpoch, OpenWindow, DeleteWindow, CloseWindows, HeartbeatTypeOK
  <1>3. windows' \subseteq [from : Int, to : Int, excluded : BOOLEAN]
    <2>1. minute \in Int
      BY HeartbeatConstants DEF HeartbeatTypeOK
    <2>2. \A w \in windows : [w EXCEPT !.to = minute] \in [from : Int, to : Int, excluded : BOOLEAN]
      BY <2>1 DEF HeartbeatTypeOK
    <2>3. ASSUME NEW deleteFuture \in BOOLEAN, CloseWindows(deleteFuture)
          PROVE  windows' \subseteq [from : Int, to : Int, excluded : BOOLEAN]
      BY <2>2, <2>3 DEF CloseWindows, HeartbeatTypeOK
    <2> QED
      BY <2>3, HeartbeatAssumption DEF ResetEpoch, OpenWindow, DeleteWindow, HeartbeatTypeOK
  <1>4. HeartbeatTypeOK'
    BY <1>1, <1>2, <1>3 DEF HeartbeatTypeOK
  <1>5. Balanced' /\ PageBelow' /\ NeverOvercounts'
    BY <1>1 DEF Balanced, PageBelow, NeverOvercounts
  <1>6. Isolated'
    BY <1>1 DEF Isolated
  <1> QED
    BY <1>4, <1>5, <1>6

\* A transaction opens when no other is: its batch is of the rows as they are.
LEMMA PruneGroupKeeps ==
    ASSUME Serialised, HeartbeatInv, NEW p \in Pruners, PruneGroup(p)
    PROVE  HeartbeatInv'
  <1> USE DEF HeartbeatInv
  <1>1. /\ UNCHANGED <<minute, beats, daily, epoch, windows, page, recorded>>
        /\ \A q \in Pruners : prunes[q].pc = "idle"
    BY DEF PruneGroup, MayWrite
  <1>2. PICK c \in Int : c = Cutoff
    BY HeartbeatConstants DEF Cutoff, HeartbeatTypeOK
  <1> DEFINE new == [NoPrune EXCEPT !.pc = "grouped", !.cutoff = c, !.batch = [d \in Days |-> Batch(d, c)]]
  <1>3. prunes' = [prunes EXCEPT ![p] = new]
    BY <1>2 DEF PruneGroup
  <1>4. /\ new \in Prune /\ new.pc = "grouped" /\ new.cutoff = c
        /\ new.batch = [d \in Days |-> Batch(d, c)]
    <2>1. [d \in Days |-> Batch(d, c)] \in [Days -> Totals]
      BY BatchAddsUp
    <2> QED
      BY <2>1, HeartbeatConstants DEF NoPrune, Prune
  <1> HIDE DEF new
  <1>5. HeartbeatTypeOK'
    BY <1>1, <1>3, <1>4 DEF HeartbeatTypeOK
  <1>6. Balanced' /\ PageBelow' /\ NeverOvercounts'
    BY <1>1 DEF Balanced, PageBelow, NeverOvercounts
  <1>7. Isolated'
    <2>1. prunes'[p] = new /\ \A q \in Pruners : q # p => prunes'[q].pc = "idle"
      BY <1>1, <1>3 DEF HeartbeatTypeOK
    <2>2. ASSUME NEW d \in Days, NEW e \in Int, e = prunes'[p].cutoff
          PROVE  prunes'[p].batch[d] = Batch(d, e)'
      <3>1. prunes'[p].batch[d] = Batch(d, e)
        BY <1>4, <2>1, <2>2
      <3> QED
        BY <1>1, <3>1, BatchStays
    <2>3. prunes'[p].pc # "read"
      BY <1>4, <2>1
    <2> QED
      BY <1>4, <2>1, <2>2, <2>3 DEF Isolated
  <1> QED
    BY <1>5, <1>6, <1>7

\* get_or_create reads the totals the transaction will add to.
LEMMA PruneReadKeeps ==
    ASSUME HeartbeatInv, NEW p \in Pruners, PruneRead(p)
    PROVE  HeartbeatInv'
  <1> USE DEF HeartbeatInv, PruneRead
  <1>1. prunes' = [prunes EXCEPT ![p] = [prunes[p] EXCEPT !.pc = "read", !.rows = daily]]
    BY DEF HeartbeatTypeOK
  <1>2. /\ prunes'[p] \in Prune /\ prunes'[p].pc = "read" /\ prunes'[p].rows = daily
        /\ prunes'[p].batch = prunes[p].batch /\ prunes'[p].cutoff = prunes[p].cutoff
        /\ \A q \in Pruners : q # p => prunes'[q] = prunes[q]
    BY <1>1 DEF HeartbeatTypeOK, Prune
  <1>3. HeartbeatTypeOK'
    BY <1>1, <1>2 DEF HeartbeatTypeOK
  <1>4. Balanced' /\ PageBelow' /\ NeverOvercounts'
    BY DEF Balanced, PageBelow, NeverOvercounts
  <1>5. Isolated'
    <2>1. ASSUME NEW q \in Pruners, prunes'[q].pc # "idle",
                 NEW d \in Days, NEW e \in Int, e = prunes'[q].cutoff
          PROVE  prunes'[q].batch[d] = Batch(d, e)'
      <3>1. prunes'[q].batch[d] = Batch(d, e)
        <4>1. /\ prunes[q].pc # "idle" /\ e = prunes[q].cutoff
              /\ prunes'[q].batch = prunes[q].batch
          BY <1>2, <2>1
        <4> QED
          BY <4>1 DEF Isolated
      <3> QED
        BY <3>1, BatchStays
    <2>2. \A q, r \in Pruners : prunes'[q].pc # "idle" /\ prunes'[r].pc # "idle" => q = r
      BY <1>2 DEF Isolated
    <2>3. \A q \in Pruners : prunes'[q].pc = "read" => prunes'[q].rows = daily
      BY <1>2 DEF Isolated
    <2> QED
      BY <2>1, <2>2, <2>3 DEF Isolated
  <1> QED
    BY <1>3, <1>4, <1>5

\* What a commit does to a day: its old beats leave the rows and are in the
\* totals, by status.
LEMMA CommitMoves ==
    ASSUME HeartbeatInv, NEW p \in Pruners, PruneCommit(p), NEW d \in Days
    PROVE  LET c == prunes[p].cutoff IN
           /\ c \in Int
           /\ daily' \in [Days -> Totals]
           /\ daily'[d] = Plus(daily[d], Batch(d, c))
           /\ beats' = [t \in Minutes |-> IF t < c THEN "none" ELSE beats[t]]
           /\ Kept(beats, d) = Kept(beats', d) \cup (OldRecords(c) \cap DayMinutes(d))
           /\ Kept(beats', d) \cap (OldRecords(c) \cap DayMinutes(d)) = {}
  <1> USE DEF HeartbeatInv
  <1> DEFINE c == prunes[p].cutoff
  <1>1. c \in Int /\ prunes[p].pc = "read" /\ prunes[p].batch \in [Days -> Totals]
    BY DEF HeartbeatTypeOK, Prune, PruneCommit
  <1>2. prunes[p].rows = daily /\ \A e \in Days : prunes[p].batch[e] = Batch(e, c)
    BY <1>1 DEF Isolated
  <1>3. ASSUME NEW e \in Days PROVE daily'[e] = Plus(daily[e], Batch(e, c)) /\ daily'[e] \in Totals
    <2>1. prunes[p].batch[e] = Batch(e, c) /\ Batch(e, c) \in Totals /\ daily[e] \in Totals
      BY <1>1, <1>2 DEF HeartbeatTypeOK
    <2>2. Plus(daily[e], Batch(e, c)) \in Totals /\ Plus(daily[e], Empty) = daily[e]
      BY <2>1 DEF Plus, Totals, Empty
    <2>3. daily'[e] = IF prunes[p].batch[e] # Empty THEN Plus(daily[e], prunes[p].batch[e]) ELSE daily[e]
      BY <1>2 DEF PruneCommit, Fold
    <2> QED
      BY <2>1, <2>2, <2>3
  <1>4. daily' \in [Days -> Totals]
    <2>1. daily' = [e \in Days |-> daily'[e]]
      BY DEF PruneCommit
    <2> QED
      BY <1>3, <2>1
  <1>5. beats' = [t \in Minutes |-> IF t < c THEN "none" ELSE beats[t]]
    BY DEF PruneCommit
  <1>6. /\ Kept(beats, d) = Kept(beats', d) \cup (OldRecords(c) \cap DayMinutes(d))
        /\ Kept(beats', d) \cap (OldRecords(c) \cap DayMinutes(d)) = {}
    BY <1>5 DEF Kept, OldRecords, DayMinutes
  <1> QED
    BY <1>1, <1>3, <1>4, <1>5, <1>6

\* The commit moves beats from the rows to the totals and loses none.
LEMMA PruneCommitKeeps ==
    ASSUME HeartbeatInv, NEW p \in Pruners, PruneCommit(p)
    PROVE  HeartbeatInv'
  <1> USE DEF HeartbeatInv
  <1>1. PICK c \in Int : c = prunes[p].cutoff
    BY DEF HeartbeatTypeOK, Prune
  <1>2. UNCHANGED <<minute, epoch, windows, page, recorded>> /\ prunes' = [prunes EXCEPT ![p] = NoPrune]
    BY DEF PruneCommit
  <1>3. HeartbeatTypeOK'
    <2>1. beats' \in [Minutes -> {"none", "ok", "fail"}]
      BY DEF PruneCommit, HeartbeatTypeOK
    <2>2. daily' \in [Days -> Totals]
      BY HeartbeatConstants, CommitMoves
    <2>3. prunes' \in [Pruners -> Prune]
      BY <1>2, HeartbeatConstants DEF HeartbeatTypeOK
    <2> QED
      BY <1>2, <2>1, <2>2, <2>3 DEF HeartbeatTypeOK
  <1>4. ASSUME NEW d \in Days
        PROVE  /\ Sum(daily'[d]) + Cardinality(Kept(beats', d)) = recorded[d]
               /\ Cardinality(Kept(beats', d)) <= Cardinality(Kept(beats, d))
               /\ Cardinality(Kept(beats', d)) \in Nat /\ Cardinality(Kept(beats, d)) \in Nat
    <2> DEFINE old == OldRecords(c) \cap DayMinutes(d)
    <2>1. /\ daily'[d] = Plus(daily[d], Batch(d, c))
          /\ Kept(beats, d) = Kept(beats', d) \cup old /\ Kept(beats', d) \cap old = {}
      BY <1>1, CommitMoves
    <2>2. IsFiniteSet(Kept(beats, d))
      BY DaysAreFinite DEF Kept
    <2>3. /\ Cardinality(Kept(beats', d)) \in Nat /\ Cardinality(old) \in Nat
          /\ Cardinality(Kept(beats, d)) = Cardinality(Kept(beats', d)) + Cardinality(old)
      <3>1. PICK S, A, B : S = Kept(beats, d) /\ A = Kept(beats', d) /\ B = old
        OBVIOUS
      <3>2. IsFiniteSet(S) /\ S = A \cup B /\ A \cap B = {}
        BY <2>1, <2>2, <3>1
      <3>3. Cardinality(A) \in Nat /\ Cardinality(B) \in Nat /\ Cardinality(S) = Cardinality(A) + Cardinality(B)
        BY <3>2, Halves
      <3> QED
        BY <3>1, <3>3
    <2>4. Batch(d, c) \in Totals /\ Sum(Batch(d, c)) = Cardinality(old)
      BY BatchAddsUp
    <2>5. Sum(daily'[d]) = Sum(daily[d]) + Sum(Batch(d, c)) /\ Sum(daily[d]) \in Nat
      <3>1. daily[d] \in Totals
        BY DEF HeartbeatTypeOK
      <3> QED
        BY <2>1, <2>4, <3>1 DEF Sum, Plus, Totals
    <2>6. Sum(daily[d]) + Cardinality(Kept(beats, d)) = recorded[d]
      BY DEF Balanced
    <2> QED
      BY <2>3, <2>4, <2>5, <2>6
  <1>5. Balanced'
    BY <1>2, <1>4 DEF Balanced
  <1>6. PageBelow' /\ NeverOvercounts'
    <2>1. page.day \in Days /\ page.observed \in Nat /\ recorded[page.day] \in Nat
      BY DEF HeartbeatTypeOK, Page
    <2> QED
      BY <1>2, <1>4, <2>1 DEF PageBelow, NeverOvercounts
  <1>7. Isolated'
    <2>1. prunes'[p].pc = "idle" /\ \A q \in Pruners : q # p => prunes'[q] = prunes[q]
      BY <1>2, HeartbeatConstants DEF HeartbeatTypeOK
    <2>2. \A q \in Pruners : q # p => prunes[q].pc = "idle"
      BY DEF Isolated, PruneCommit
    <2>3. \A q \in Pruners : prunes'[q].pc = "idle"
      BY <2>1, <2>2
    <2> QED
      BY <2>3 DEF Isolated
  <1> QED
    BY <1>3, <1>5, <1>6, <1>7

\* The page's queries: totals of a day that is over, then the beats that are
\* still rows.
LEMMA PageKeeps ==
    ASSUME HeartbeatInv,
           (\E d \in Days : ReadSummaries(d)) \/ FindRaw \/ ReadBeats \/ LeavePage
    PROVE  HeartbeatInv'
  <1> USE DEF HeartbeatInv
  <1>1. UNCHANGED <<minute, beats, daily, epoch, windows, prunes, recorded>>
    BY DEF ReadSummaries, FindRaw, ReadBeats, LeavePage
  <1>2. Balanced' /\ Isolated'
    BY <1>1 DEF Balanced, Isolated, Batch, OldRecords, With, Excluded
  <1>3. page' \in Page => HeartbeatTypeOK'
    BY <1>1 DEF HeartbeatTypeOK
  <1>4. page \in Page /\ page.day \in Days /\ page.ok \in Nat /\ page.observed \in Nat
        /\ recorded[page.day] \in Nat
    BY DEF HeartbeatTypeOK, Page
  <1>5. ASSUME NEW d \in Days, ReadSummaries(d)
        PROVE  page' \in Page /\ PageBelow' /\ NeverOvercounts'
    <2>1. daily[d].ok \in Nat /\ daily[d].fail \in Nat /\ daily[d].maintenance \in Nat
      BY DEF HeartbeatTypeOK, Totals
    <2>2. page' = [pc |-> "summaries", day |-> d, ok |-> daily[d].ok, observed |-> daily[d].ok + daily[d].fail]
      BY <1>5 DEF ReadSummaries
    <2>3. page' \in Page /\ page'.pc = "summaries" /\ page'.day = d /\ page'.ok <= page'.observed
      BY <2>1, <2>2 DEF Page
    <2>4. DayEnd(d) <= minute
      BY <1>5, DayBounds DEF ReadSummaries, HeartbeatTypeOK
    <2>5. page'.observed + Cardinality(Kept(beats, d)) <= recorded[d]
      <3>1. Sum(daily[d]) + Cardinality(Kept(beats, d)) = recorded[d]
        BY DEF Balanced
      <3>2. Cardinality(Kept(beats, d)) \in Nat
        BY DaysAreFinite DEF Kept
      <3> QED
        BY <2>1, <2>2, <3>1, <3>2 DEF Sum
    <2> QED
      BY <1>1, <2>3, <2>4, <2>5 DEF PageBelow, NeverOvercounts
  <1>6. ASSUME FindRaw PROVE page' \in Page /\ PageBelow' /\ NeverOvercounts'
    <2>1. PICK to \in {"raw", "shown"} : page' = [page EXCEPT !.pc = to]
      BY <1>6 DEF FindRaw
    <2>2. /\ page' \in Page /\ page'.day = page.day /\ page'.ok = page.ok
          /\ page'.observed = page.observed /\ page.pc = "summaries"
      BY <1>4, <1>6, <2>1 DEF Page, FindRaw
    <2>3. Cardinality(Kept(beats, page.day)) \in Nat
      BY DaysAreFinite DEF Kept
    <2> QED
      BY <1>1, <1>4, <2>2, <2>3 DEF PageBelow, NeverOvercounts
  <1>7. ASSUME ReadBeats PROVE page' \in Page /\ PageBelow' /\ NeverOvercounts'
    <2> DEFINE raw == Observed(page.day)
    <2>1. /\ IsFiniteSet(Kept(beats, page.day)) /\ Cardinality(Kept(beats, page.day)) \in Nat
          /\ raw \subseteq Kept(beats, page.day)
      BY DaysAreFinite DEF Kept, Observed
    <2>2. /\ IsFiniteSet(raw) /\ Cardinality(raw) \in Nat
          /\ Cardinality(raw) <= Cardinality(Kept(beats, page.day))
      BY <2>1, FS_Subset, FS_CardinalityType
    <2>3. Cardinality(With("ok", raw)) \in Nat /\ Cardinality(With("ok", raw)) <= Cardinality(raw)
      BY <2>2, FS_Subset, FS_CardinalityType DEF With
    <2>a. PICK m \in Nat, n \in Nat : m = page.ok + Cardinality(With("ok", raw)) /\ n = page.observed + Cardinality(raw)
      BY <1>4, <2>2, <2>3
    <2>4. page' = [page EXCEPT !.pc = "shown", !.ok = m, !.observed = n]
      BY <1>7, <2>a DEF ReadBeats
    <2> HIDE DEF raw
    <2>5. /\ page' \in Page /\ page'.pc = "shown" /\ page'.day = page.day
          /\ page'.ok = page.ok + Cardinality(With("ok", raw))
          /\ page'.observed = page.observed + Cardinality(raw)
      BY <1>4, <2>a, <2>4 DEF Page
    <2>6. page.ok <= page.observed /\ page.observed + Cardinality(Kept(beats, page.day)) <= recorded[page.day]
      BY <1>7 DEF ReadBeats, PageBelow
    <2>7. page'.ok <= page'.observed /\ page'.observed <= recorded[page.day]
      BY <1>4, <2>1, <2>2, <2>3, <2>5, <2>6
    <2> QED
      BY <1>1, <2>5, <2>7 DEF PageBelow, NeverOvercounts
  <1>8. ASSUME LeavePage PROVE page' \in Page /\ PageBelow' /\ NeverOvercounts'
    BY <1>8, HeartbeatConstants DEF LeavePage, PageBelow, NeverOvercounts
  <1> QED
    BY <1>2, <1>3, <1>5, <1>6, <1>7, <1>8

\* Every step keeps the invariant.
LEMMA HeartbeatPreserved ==
    ASSUME Serialised
    PROVE  HeartbeatInv /\ [HeartbeatNext]_beatVars => HeartbeatInv'
  <1> SUFFICES ASSUME HeartbeatInv, [HeartbeatNext]_beatVars PROVE HeartbeatInv'
    OBVIOUS
  <1>1. CASE UNCHANGED beatVars
    <2> USE <1>1 DEF beatVars, HeartbeatInv
    <2>1. HeartbeatTypeOK' /\ Balanced' /\ PageBelow' /\ NeverOvercounts'
      BY DEF HeartbeatTypeOK, Balanced, PageBelow, NeverOvercounts
    <2>2. Isolated'
      BY DEF Isolated, Batch, OldRecords, With, Excluded
    <2> QED
      BY <2>1, <2>2
  <1> QED
    BY <1>1, ClockTickKeeps, RunMonitorCheckKeeps, StaffKeeps, PruneGroupKeeps, PruneReadKeeps,
       PruneCommitKeeps, PageKeeps DEF HeartbeatNext

\* The invariant of the uptime records (heartbeat/views.py, status.py), where
\* writes are serialised: a beat is a row or in its day's totals, and an open
\* prune holds what the tables still say.
THEOREM HeartbeatInvariant ==
    ASSUME Serialised
    PROVE  HeartbeatSpec => []HeartbeatInv
  BY HeartbeatInitially, HeartbeatPreserved, PTL DEF HeartbeatSpec

\* NeverOvercounts for any number of days, pruners and windows: a page that
\* adds totals and surviving beats up while prunes commit shows no day above
\* what was recorded of it.
THEOREM NoBeatCountsTwice ==
    ASSUME Serialised
    PROVE  HeartbeatSpec => []NeverOvercounts
  <1>1. HeartbeatInv => NeverOvercounts
    BY DEF HeartbeatInv
  <1> QED
    BY <1>1, HeartbeatInvariant, PTL

\* A commit leaves a day's figure: the beats that leave the rows are the
\* totals that come in, by status, the excluded ones set apart.
LEMMA CommitKeepsFigure ==
    ASSUME HeartbeatInv, NEW p \in Pruners, PruneCommit(p), NEW d \in Days
    PROVE  Figure(d)' = Figure(d)
  <1> USE DEF HeartbeatInv
  <1>1. PICK c \in Int : c = prunes[p].cutoff
    BY DEF HeartbeatTypeOK, Prune
  <1> DEFINE shown == Observed(d)
             old == (OldRecords(c) \cap DayMinutes(d)) \ Excluded
             left == shown \ old
  <1>2. /\ daily'[d] = Plus(daily[d], Batch(d, c)) /\ daily[d] \in Totals /\ Batch(d, c) \in Totals
        /\ beats' = [t \in Minutes |-> IF t < c THEN "none" ELSE beats[t]]
        /\ UNCHANGED <<minute, epoch, windows>>
    BY <1>1, CommitMoves, BatchAddsUp DEF HeartbeatTypeOK, PruneCommit
  <1>3. Excluded' = Excluded /\ Expected(d)' = Expected(d)
    BY <1>2 DEF Excluded, Expected
  <1>4. /\ shown = left \cup old /\ left \cap old = {} /\ IsFiniteSet(shown)
        /\ \A t \in shown : beats[t] \in {"ok", "fail"}
    <2>1. shown \subseteq DayMinutes(d) /\ DayMinutes(d) \subseteq Minutes
      BY DEF Observed, DayMinutes
    <2>2. old \subseteq shown
      BY DEF Observed, OldRecords
    <2>3. IsFiniteSet(shown)
      BY <2>1, DaysAreFinite
    <2>4. \A t \in shown : beats[t] \in {"ok", "fail"}
      BY <2>1 DEF Observed, HeartbeatTypeOK
    <2> QED
      BY <2>2, <2>3, <2>4
  <1>5. Observed(d)' = left /\ With("ok", Observed(d))' = With("ok", left)
    <2>1. Observed(d)' = left
      BY <1>2, <1>3 DEF Observed, OldRecords, DayMinutes
    <2>2. \A t \in left : beats'[t] = beats[t]
      BY <1>2 DEF Observed, OldRecords, DayMinutes
    <2> QED
      BY <2>1, <2>2 DEF With
  <1>6. Batch(d, c).ok = Cardinality(With("ok", old)) /\ Batch(d, c).fail = Cardinality(With("fail", old))
    BY DEF Batch
  <1> HIDE DEF shown, old, left
  <1>7. /\ IsFiniteSet(left) /\ IsFiniteSet(old)
        /\ Cardinality(left) \in Nat /\ Cardinality(old) \in Nat
        /\ Cardinality(shown) = Cardinality(left) + Cardinality(old)
    BY <1>4, Halves
  <1>8. /\ Cardinality(With("ok", old)) \in Nat /\ Cardinality(With("fail", old)) \in Nat
        /\ Cardinality(old) = Cardinality(With("ok", old)) + Cardinality(With("fail", old))
    <2>1. PICK S, A, B : S = old /\ A = With("ok", old) /\ B = With("fail", old)
      OBVIOUS
    <2>2. IsFiniteSet(S) /\ S = A \cup B /\ A \cap B = {}
      BY <1>4, <1>7, <2>1 DEF With
    <2>3. Cardinality(A) \in Nat /\ Cardinality(B) \in Nat /\ Cardinality(S) = Cardinality(A) + Cardinality(B)
      BY <2>2, Halves
    <2> QED
      BY <2>1, <2>3
  <1>9. /\ Cardinality(With("ok", left)) \in Nat
        /\ Cardinality(With("ok", shown)) = Cardinality(With("ok", left)) + Cardinality(With("ok", old))
    <2>1. PICK S, A, B : S = With("ok", shown) /\ A = With("ok", left) /\ B = With("ok", old)
      OBVIOUS
    <2>2. S = A \cup B /\ A \cap B = {} /\ S \subseteq shown
      BY <1>4, <2>1 DEF With
    <2>3. IsFiniteSet(S)
      BY <1>4, <2>2, FS_Subset
    <2>4. IsFiniteSet(S) /\ S = A \cup B /\ A \cap B = {}
      BY <2>2, <2>3
    <2>5. Cardinality(A) \in Nat /\ Cardinality(S) = Cardinality(A) + Cardinality(B)
      BY <2>4, Halves
    <2> QED
      BY <2>1, <2>5
  <1>10. /\ daily'[d].ok = daily[d].ok + Cardinality(With("ok", old))
         /\ daily'[d].fail = daily[d].fail + Cardinality(With("fail", old))
         /\ daily[d].ok \in Nat /\ daily[d].fail \in Nat
    BY <1>2, <1>6 DEF Plus, Totals
  <1>11. /\ daily'[d].ok + Cardinality(With("ok", left)) = daily[d].ok + Cardinality(With("ok", shown))
         /\ daily'[d].ok + daily'[d].fail + Cardinality(left)
              = daily[d].ok + daily[d].fail + Cardinality(shown)
    BY <1>7, <1>8, <1>9, <1>10
  <1> QED
    BY <1>3, <1>5, <1>11 DEF Figure, shown

\* PruneIsInvisible for any number of days, pruners and windows: when the
\* pruner deletes beats past the retention boundary no completed day's
\* uptime moves, whether maintenance covers part of it or not.
THEOREM PrunesAreInvisible ==
    ASSUME Serialised
    PROVE  HeartbeatSpec => PruneIsInvisible
  <1> DEFINE Prunes == beats' # beats /\ minute' = minute /\ recorded' = recorded
                         /\ windows' = windows /\ epoch' = epoch
             Same == \A d \in Days : d < DayOf(minute) => Figure(d)' = Figure(d)
  <1>1. ASSUME HeartbeatInv, [HeartbeatNext]_beatVars, Prunes PROVE Same
    <2>1. ASSUME NEW p \in Pruners, PruneCommit(p) PROVE Same
      BY <1>1, <2>1, CommitKeepsFigure
    <2>2. ASSUME NEW status \in {"ok", "fail"}, RunMonitorCheck(status) PROVE Same
      <3> SUFFICES ASSUME NEW d \in Days, d < DayOf(minute) PROVE Figure(d)' = Figure(d)
        OBVIOUS
      <3>1. minute \notin DayMinutes(d)
        <4>1. DayEnd(d) <= minute /\ minute \in Int /\ DayEnd(d) \in Int
          BY <1>1, DayBounds, HeartbeatConstants DEF HeartbeatInv, HeartbeatTypeOK, DayEnd, Days
        <4> QED
          BY <4>1 DEF DayMinutes
      <3>2. \A t \in DayMinutes(d) : beats'[t] = beats[t]
        BY <1>1, <2>2, <3>1 DEF RunMonitorCheck, HeartbeatInv, HeartbeatTypeOK, DayMinutes
      <3>3. Observed(d)' = Observed(d) /\ With("ok", Observed(d))' = With("ok", Observed(d))
        BY <1>1, <3>2 DEF Observed, With, Excluded
      <3>4. daily' = daily
        BY <2>2 DEF RunMonitorCheck
      <3>5. Expected(d)' = Expected(d)
        BY <1>1 DEF Expected, Excluded
      <3> QED
        BY <3>3, <3>4, <3>5 DEF Figure
    <2>3. \/ UNCHANGED beats \/ (\E p \in Pruners : PruneCommit(p))
          \/ \E status \in {"ok", "fail"} : RunMonitorCheck(status)
      BY <1>1 DEF HeartbeatNext, beatVars, ClockTick, ResetEpoch, OpenWindow, DeleteWindow, CloseWindows,
                  PruneGroup, PruneRead, ReadSummaries, FindRaw, ReadBeats, LeavePage
    <2> QED
      BY <1>1, <2>1, <2>2, <2>3
  <1>2. HeartbeatInv /\ [HeartbeatNext]_beatVars => [Prunes => Same]_beatVars
    BY <1>1
  <1> QED
    BY <1>2, HeartbeatInvariant, PTL DEF HeartbeatSpec, PruneIsInvisible

-----------------------------------------------------------------------------
\* h is the consent that will create g's code.
Creating(h, g) == handlers[h].then = "code" /\ g \in handlers[h].grants

\* h is a redemption of g that has read the code and not claimed it.
Redeeming(h, g) == At(h, "claim") /\ g \in handlers[h].grants

\* A code is created once, by the consent that minted its token.
CodesAreFresh ==
    /\ \A g \in Consents : tokens[g] = "none" =>
           ~codes[g].there /\ \A h \in Handlers : g \notin handlers[h].grants
    /\ \A h \in Handlers : /\ At(h, "code") => handlers[h].then = "code"
                           /\ At(h, "claim") => handlers[h].then = "idle"
                           /\ At(h, "idle") => handlers[h].grants = {}
    /\ \A h \in Handlers, g \in Consents :
           /\ Creating(h, g) => ~codes[g].there
           /\ Redeeming(h, g) => codes[g].there
    /\ \A h, k \in Handlers, g \in Consents : Creating(h, g) /\ Creating(k, g) => h = k

\* A key that was handed out went out with the claim of its code.
KeysAreClaimed ==
    \A g \in Consents :
        /\ codes[g].used => codes[g].there
        /\ given[g] = 0 \/ (given[g] = 1 /\ codes[g].used)

\* What a scrub and a redemption of one code know of it: the scrub lists only
\* codes whose time is over, the redemption read one whose time was not.
ScrubsAreLate ==
    /\ \A g \in Consents : tokens[g] = "revoked" => g \in expired \cup withdrawn
    /\ \A h \in Handlers, g \in Consents : Redeeming(h, g) /\ g \in expired => g \in straddled
    /\ \A h \in Handlers, g \in Consents : At(h, "deactivate") /\ g \in handlers[h].stale =>
           /\ codes[g].there /\ g \in expired
           /\ given[g] > 0 => g \in straddled

GrantsInv ==
    /\ GrantsTypeOK
    /\ CodesAreFresh
    /\ KeysAreClaimed
    /\ ScrubsAreLate
    /\ OneWorkingKey

\* The initial states satisfy the invariant.
LEMMA GrantsInitially == GrantsInit => GrantsInv
  BY GrantsAssumption DEF GrantsInit, GrantsInv, GrantsTypeOK, CodesAreFresh, KeysAreClaimed, ScrubsAreLate,
     OneWorkingKey, NoCode, Free, Handler, At, Creating, Redeeming

\* A request moves on: what it knows keeps its type.
LEMMA HandlerMoves ==
  ASSUME GrantsTypeOK, NEW h \in Handlers, NEW new \in Handler,
         handlers' = [handlers EXCEPT ![h] = new]
  PROVE  handlers' \in [Handlers -> Handler]
  BY DEF GrantsTypeOK

\* Every step keeps the types.
LEMMA GrantsTypesKept == GrantsTypeOK /\ [GrantsNext]_grantVars => GrantsTypeOK'
  <1> SUFFICES ASSUME GrantsTypeOK, [GrantsNext]_grantVars PROVE GrantsTypeOK'
    OBVIOUS
  <1> USE GrantsAssumption
  <1>0. Free \in Handler
    BY DEF Free, Handler
  <1>a. \A h \in Handlers : handlers[h] \in Handler
    BY DEF GrantsTypeOK
  <1>1. ASSUME NEW h \in Handlers, NEW g \in Consents, MintToken(h, g) PROVE GrantsTypeOK'
    <2>1. [Free EXCEPT !.at = "list", !.grants = {g}, !.then = "code"] \in Handler
      BY DEF Free, Handler
    <2>2. handlers' \in [Handlers -> Handler]
      BY <1>1, <2>1, HandlerMoves DEF MintToken
    <2> QED
      BY <1>1, <2>2 DEF MintToken, GrantsTypeOK
  <1>2. ASSUME NEW h \in Handlers, CreateCode(h) PROVE GrantsTypeOK'
    <2>1. handlers' \in [Handlers -> Handler]
      BY <1>0, <1>2, HandlerMoves DEF CreateCode, Finish
    <2> QED
      BY <1>2, <2>1 DEF CreateCode, GrantsTypeOK
  <1>3. ASSUME NEW h \in Handlers, ListStale(h) PROVE GrantsTypeOK'
    <2>1. Unredeemed \subseteq Consents
      BY DEF Unredeemed, GrantsTypeOK
    <2>2. [handlers[h] EXCEPT !.at = "deactivate", !.stale = Unredeemed] \in Handler
      BY <1>a, <2>1 DEF Handler
    <2>3. [handlers[h] EXCEPT !.at = handlers[h].then] \in Handler
      BY <1>a DEF Handler
    <2>4. handlers' \in [Handlers -> Handler]
      BY <1>0, <1>3, <2>2, <2>3 DEF ListStale, GrantsTypeOK
    <2> QED
      BY <1>3, <2>4 DEF ListStale, GrantsTypeOK
  <1>4. ASSUME NEW h \in Handlers, Deactivate(h) PROVE GrantsTypeOK'
    <2>1. [handlers[h] EXCEPT !.at = "clear"] \in Handler
      BY <1>a DEF Handler
    <2>2. handlers' \in [Handlers -> Handler]
      BY <1>4, <2>1 DEF Deactivate, Send, GrantsTypeOK
    <2> QED
      BY <1>4, <2>2 DEF Deactivate, GrantsTypeOK
  <1>5. ASSUME NEW h \in Handlers, ClearKeys(h) PROVE GrantsTypeOK'
    <2>1. [handlers[h] EXCEPT !.at = handlers[h].then, !.stale = {}] \in Handler
      BY <1>a DEF Handler
    <2>2. handlers' \in [Handlers -> Handler]
      BY <1>0, <1>5, <2>1 DEF ClearKeys, GrantsTypeOK
    <2> QED
      BY <1>5, <2>2 DEF ClearKeys, GrantsTypeOK
  <1>6. ASSUME NEW g \in Consents, CodeAges(g) PROVE GrantsTypeOK'
    BY <1>6 DEF CodeAges, GrantsTypeOK
  <1>7. ASSUME NEW h \in Handlers, NEW g \in Consents, ReadCode(h, g) PROVE GrantsTypeOK'
    <2>1. [Free EXCEPT !.at = "list"] \in Handler
      BY DEF Free, Handler
    <2>2. [Free EXCEPT !.at = "claim", !.grants = {g},
                       !.stale = IF codes[g].key THEN {} ELSE {g}] \in Handler
      BY DEF Free, Handler
    <2>3. handlers' \in [Handlers -> Handler]
      BY <1>7, <2>1, <2>2 DEF ReadCode, GrantsTypeOK
    <2> QED
      BY <1>7, <2>3 DEF ReadCode, GrantsTypeOK
  <1>8. ASSUME NEW h \in Handlers, ClaimCode(h) PROVE GrantsTypeOK'
    <2>1. handlers' \in [Handlers -> Handler]
      BY <1>0, <1>8, HandlerMoves DEF ClaimCode, Finish
    <2>2. PICK g \in handlers[h].grants :
             /\ codes' = IF Unclaimed(g) THEN [codes EXCEPT ![g].used = TRUE, ![g].key = FALSE]
                         ELSE codes
             /\ given' \in {given, [given EXCEPT ![g] = @ + 1], [given EXCEPT ![g] = @ + 0]}
             /\ lost' = lost \/ (lost < MaxLost /\ lost' = lost + 1)
      BY <1>8 DEF ClaimCode
    <2>3. codes' \in [Consents -> [there : BOOLEAN, used : BOOLEAN, key : BOOLEAN]]
      BY <2>2, ZenonT(30) DEF GrantsTypeOK
    <2>4. given' \in [Consents -> Nat] /\ lost' \in 0 .. MaxLost
      BY <2>2 DEF GrantsTypeOK
    <2> QED
      BY <1>8, <2>1, <2>3, <2>4 DEF ClaimCode, GrantsTypeOK
  <1>9. ASSUME NEW g \in Consents, RevokeToken(g) PROVE GrantsTypeOK'
    BY <1>9 DEF RevokeToken, GrantsTypeOK
  <1>10. ASSUME NEW h \in Handlers, HandlerDies(h) PROVE GrantsTypeOK'
    <2>1. handlers' \in [Handlers -> Handler]
      BY <1>0, <1>10, HandlerMoves DEF HandlerDies, Finish
    <2> QED
      BY <1>10, <2>1 DEF HandlerDies, GrantsTypeOK
  <1>11. CASE UNCHANGED grantVars
    BY <1>11 DEF grantVars, GrantsTypeOK
  <1> QED
    BY <1>1, <1>2, <1>3, <1>4, <1>5, <1>6, <1>7, <1>8, <1>9, <1>10, <1>11 DEF GrantsNext

\* Every step of a consent, a scrub or a redemption keeps the invariant.
LEMMA GrantsPreserved == GrantsInv /\ [GrantsNext]_grantVars => GrantsInv'
  <1> SUFFICES ASSUME GrantsInv, [GrantsNext]_grantVars PROVE GrantsInv'
    OBVIOUS
  <1>0. GrantsTypeOK'
    BY GrantsTypesKept DEF GrantsInv
  <1> USE DEF GrantsInv, GrantsTypeOK, CodesAreFresh, KeysAreClaimed, ScrubsAreLate,
              OneWorkingKey, At, Creating, Handler, Redeeming, Free, NoCode, Send, Finish
  <1>1. ASSUME NEW h \in Handlers, NEW g \in Consents, MintToken(h, g) PROVE GrantsInv'
    <2> USE <1>1 DEF MintToken
    <2>1. CodesAreFresh'
      OBVIOUS
    <2>2. KeysAreClaimed'
      OBVIOUS
    <2>3. ScrubsAreLate'
      OBVIOUS
    <2>4. OneWorkingKey'
      OBVIOUS
    <2> QED
      BY <1>0, <2>1, <2>2, <2>3, <2>4
  <1>2. ASSUME NEW h \in Handlers, CreateCode(h) PROVE GrantsInv'
    <2> USE <1>2 DEF CreateCode
    <2>1. CodesAreFresh'
      OBVIOUS
    <2>2. KeysAreClaimed'
      OBVIOUS
    <2>3. ScrubsAreLate'
      OBVIOUS
    <2>4. OneWorkingKey'
      OBVIOUS
    <2> QED
      BY <1>0, <2>1, <2>2, <2>3, <2>4
  <1>3. ASSUME NEW h \in Handlers, ListStale(h) PROVE GrantsInv'
    <2> USE <1>3 DEF ListStale, Unredeemed
    <2>1. CodesAreFresh'
      OBVIOUS
    <2>2. KeysAreClaimed'
      OBVIOUS
    <2>3. ScrubsAreLate'
      OBVIOUS
    <2>4. OneWorkingKey'
      OBVIOUS
    <2> QED
      BY <1>0, <2>1, <2>2, <2>3, <2>4
  <1>4. ASSUME NEW h \in Handlers, Deactivate(h) PROVE GrantsInv'
    BY <1>0, <1>4 DEF Deactivate
  <1>5. ASSUME NEW h \in Handlers, ClearKeys(h) PROVE GrantsInv'
    <2> USE <1>5 DEF ClearKeys, Unredeemed
    <2>1. CodesAreFresh'
      OBVIOUS
    <2>2. KeysAreClaimed'
      OBVIOUS
    <2>3. ScrubsAreLate'
      OBVIOUS
    <2>4. OneWorkingKey'
      OBVIOUS
    <2> QED
      BY <1>0, <2>1, <2>2, <2>3, <2>4
  <1>6. ASSUME NEW g \in Consents, CodeAges(g) PROVE GrantsInv'
    BY <1>0, <1>6 DEF CodeAges
  <1>7. ASSUME NEW h \in Handlers, NEW g \in Consents, ReadCode(h, g) PROVE GrantsInv'
    <2> USE <1>7 DEF ReadCode
    <2>1. CodesAreFresh'
      OBVIOUS
    <2>2. KeysAreClaimed'
      OBVIOUS
    <2>3. ScrubsAreLate'
      OBVIOUS
    <2>4. OneWorkingKey'
      OBVIOUS
    <2> QED
      BY <1>0, <2>1, <2>2, <2>3, <2>4
  <1>8. ASSUME NEW h \in Handlers, ClaimCode(h) PROVE GrantsInv'
    <2> USE <1>8, GrantsAssumption DEF ClaimCode, Unclaimed
    <2>1. CodesAreFresh'
      OBVIOUS
    <2>2. KeysAreClaimed'
      OBVIOUS
    <2>3. ScrubsAreLate'
      OBVIOUS
    <2>4. OneWorkingKey'
      OBVIOUS
    <2> QED
      BY <1>0, <2>1, <2>2, <2>3, <2>4
  <1>9. ASSUME NEW g \in Consents, RevokeToken(g) PROVE GrantsInv'
    BY <1>0, <1>9 DEF RevokeToken
  <1>10. ASSUME NEW h \in Handlers, HandlerDies(h) PROVE GrantsInv'
    BY <1>0, <1>10, GrantsAssumption DEF HandlerDies
  <1>11. CASE UNCHANGED grantVars
    BY <1>0, <1>11 DEF grantVars
  <1> QED
    BY <1>1, <1>2, <1>3, <1>4, <1>5, <1>6, <1>7, <1>8, <1>9, <1>10, <1>11 DEF GrantsNext

\* The invariant of the OAuth grants: what consents, the scrub of expired codes
\* and redemptions (mcp/oauth_views.py, models.py) know of a code between two
\* statements stays true.
THEOREM GrantsInvariant == GrantsSpec => []GrantsInv
  BY GrantsInitially, GrantsPreserved, PTL DEF GrantsSpec

\* OneWorkingKey for any number of consents and requests: a code is redeemed
\* once, and a key that was handed out works until it is withdrawn, unless the
\* code ran out during its redemption.
THEOREM KeysWorkOnce == GrantsSpec => []OneWorkingKey
  <1>1. GrantsInv => OneWorkingKey
    BY DEF GrantsInv
  <1> QED
    BY <1>1, GrantsInvariant, PTL

-----------------------------------------------------------------------------
\* v has listed i for eQSL and not yet marked it.
Sending(v, i) == visits[v].at \in {"upload", "mark"} /\ i \in visits[v].rows

\* Ids beyond the last one have never been seen.
IdsAreFresh ==
    /\ \A i \in RowIds : i > lastId => qsos[i] = Gone /\ uploads[i] = 0
    /\ \A v \in Visits : /\ visits[v].id <= lastId
                         /\ \A i \in visits[v].rows : i <= lastId

\* Rows point at rows, and whoever will write a mark has the service's answer.
HeldMarksAreTrue ==
    \A v \in Visits :
        /\ visits[v].at \in {"edit", "again", "sent"} => visits[v].id \in RowIds
        /\ visits[v].at \in {"edit", "again"} =>
               /\ visits[v].seen.eqsl => visits[v].id \in taken["eqsl"]
               /\ visits[v].seen.qrz => visits[v].id \in taken["qrz"]
        /\ visits[v].at = "mark" => visits[v].rows \subseteq taken["eqsl"]
        /\ visits[v].at = "sent" => visits[v].id \in taken["qrz"]

\* A row that eQSL has is marked, about to be, deleted, or has a reason to be
\* sent again; two requests that send one row, and a request that sends what
\* eQSL has, have a reason.
SentIsRemembered ==
    /\ \A i \in RowIds : uploads[i] > 0 =>
           \/ i \in excused \/ qsos[i].eqsl \/ qsos[i] = Gone
           \/ \E v \in Visits : visits[v].at = "mark" /\ i \in visits[v].rows
    /\ \A v, w \in Visits, i \in RowIds : Sending(v, i) /\ Sending(w, i) /\ v # w => i \in excused
    /\ \A v \in Visits, i \in RowIds :
           visits[v].at = "upload" /\ i \in visits[v].rows /\ uploads[i] > 0 => i \in excused

LogbookInv ==
    /\ LogbookTypeOK
    /\ IdsAreFresh
    /\ HeldMarksAreTrue
    /\ SentIsRemembered
    /\ MarksAreTrue

\* Facts about the empty row and the idle request.
LEMMA LogbookConstants ==
  /\ RowIds \subseteq Nat /\ 0 \notin RowIds
  /\ Gone \in QSO /\ Gone.contact = 0 /\ ~Gone.eqsl /\ ~Gone.qrz
  /\ NoVisit \in Visit /\ NoVisit.at = "idle" /\ NoVisit.rows = {} /\ NoVisit.id = 0
  BY DEF RowIds, QSO, Gone, Visit, NoVisit

\* The initial states satisfy the invariant.
LEMMA LogbookInitially == LogbookInit => LogbookInv
  <1> SUFFICES ASSUME LogbookInit PROVE LogbookInv
    OBVIOUS
  <1> USE LogbookAssumption, LogbookConstants DEF LogbookInit
  <1>1. LogbookTypeOK
    BY DEF LogbookTypeOK
  <1>2. IdsAreFresh /\ HeldMarksAreTrue /\ SentIsRemembered /\ MarksAreTrue
    BY DEF IdsAreFresh, HeldMarksAreTrue, SentIsRemembered, MarksAreTrue, Sending
  <1> QED
    BY <1>1, <1>2 DEF LogbookInv

\* One request moves, the others stay.
LEMMA VisitMoves ==
  ASSUME LogbookTypeOK, NEW v \in Visits, NEW new \in Visit,
         visits' = [visits EXCEPT ![v] = new]
  PROVE  /\ visits' \in [Visits -> Visit]
         /\ visits'[v] = new
         /\ \A w \in Visits \ {v} : visits'[w] = visits[w]
  BY DEF LogbookTypeOK

\* A request that touches no row moves to a place where it sends and holds
\* nothing: it reads, skips, fails or dies.
LEMMA QuietStepKeeps ==
  ASSUME LogbookInv, NEW v \in Visits, NEW new \in Visit,
         visits' = [visits EXCEPT ![v] = new],
         new.at \in {"idle", "import", "create", "insert"},
         new.id <= lastId, \A i \in new.rows : i <= lastId,
         UNCHANGED <<qsos, lastId, taken, uploads>>,
         mishaps' \in 0 .. MaxMishaps,
         excused \subseteq excused', excused' \subseteq RowIds,
         visits[v].at = "mark" => visits[v].rows \subseteq excused'
  PROVE  LogbookInv'
  <1>1. /\ visits' \in [Visits -> Visit] /\ visits'[v] = new
        /\ \A w \in Visits \ {v} : visits'[w] = visits[w]
    BY VisitMoves DEF LogbookInv
  <1>2. LogbookTypeOK'
    BY <1>1 DEF LogbookInv, LogbookTypeOK
  <1>3. IdsAreFresh'
    BY <1>1 DEF LogbookInv, IdsAreFresh
  <1>4. HeldMarksAreTrue'
    BY <1>1 DEF LogbookInv, HeldMarksAreTrue
  <1>5. SentIsRemembered'
    <2>1. ASSUME NEW i \in RowIds, uploads'[i] > 0, i \notin excused', ~qsos'[i].eqsl, qsos'[i] # Gone
          PROVE  \E w \in Visits : visits'[w].at = "mark" /\ i \in visits'[w].rows
      <3>1. PICK w \in Visits : visits[w].at = "mark" /\ i \in visits[w].rows
        BY <2>1 DEF LogbookInv, SentIsRemembered
      <3>2. w # v
        BY <2>1, <3>1
      <3> QED
        BY <1>1, <3>1, <3>2
    <2>2. \A w, u \in Visits, i \in RowIds :
             Sending(w, i)' /\ Sending(u, i)' /\ w # u => i \in excused'
      BY <1>1 DEF LogbookInv, SentIsRemembered, Sending
    <2>3. \A w \in Visits, i \in RowIds :
             visits'[w].at = "upload" /\ i \in visits'[w].rows /\ uploads'[i] > 0 => i \in excused'
      BY <1>1 DEF LogbookInv, SentIsRemembered
    <2> QED
      BY <2>1, <2>2, <2>3 DEF SentIsRemembered
  <1>6. MarksAreTrue'
    BY DEF LogbookInv, MarksAreTrue
  <1> QED
    BY <1>2, <1>3, <1>4, <1>5, <1>6 DEF LogbookInv

\* A new row gets an id nobody has seen.
LEMMA InsertKeeps ==
  ASSUME LogbookInv, NEW c \in Contacts \cup {0}, Insert(c),
         visits' \in [Visits -> Visit],
         \A w \in Visits :
             \/ visits'[w] = visits[w]
             \/ /\ visits[w].at \in {"idle", "create"} /\ visits'[w].rows = {}
                /\ \/ visits'[w].at \in {"idle", "import"} /\ visits'[w].id = 0
                   \/ /\ visits'[w].at = "again" /\ visits'[w].id = lastId + 1
                      /\ ~visits'[w].seen.eqsl /\ ~visits'[w].seen.qrz,
         UNCHANGED <<taken, mishaps, uploads, excused>>
  PROVE  LogbookInv'
  <1> DEFINE row == [Gone EXCEPT !.contact = c]
  <1>1. row \in QSO /\ ~row.eqsl /\ ~row.qrz
    BY DEF QSO, Gone
  <1>2. /\ lastId' = lastId + 1 /\ lastId \in Nat /\ lastId' \in RowIds /\ lastId' \in 0 .. MaxRows
        /\ qsos' = [qsos EXCEPT ![lastId'] = row]
    BY LogbookAssumption DEF Insert, LogbookInv, LogbookTypeOK, RowIds
  <1> HIDE DEF row
  <1>3. /\ qsos' \in [RowIds -> QSO] /\ qsos'[lastId'] = row
        /\ \A i \in RowIds \ {lastId'} : qsos'[i] = qsos[i]
    BY <1>1, <1>2 DEF LogbookInv, LogbookTypeOK
  <1>4. uploads[lastId'] = 0
    BY <1>2 DEF LogbookInv, IdsAreFresh
  <1>5. LogbookTypeOK'
    BY <1>2, <1>3 DEF LogbookInv, LogbookTypeOK
  <1>6. IdsAreFresh'
    <2>1. \A i \in RowIds : i > lastId' => qsos'[i] = Gone /\ uploads'[i] = 0
      BY <1>2, <1>3, LogbookConstants DEF LogbookInv, IdsAreFresh
    <2>2. ASSUME NEW w \in Visits PROVE visits'[w].id <= lastId' /\ \A i \in visits'[w].rows : i <= lastId'
      <3>1. CASE visits'[w] = visits[w]
        <4>1. visits[w].id \in RowIds \cup {0} /\ visits[w].rows \subseteq RowIds
          BY DEF LogbookInv, LogbookTypeOK, Visit
        <4>2. visits[w].id \in Nat /\ visits[w].rows \subseteq Nat
          BY <4>1 DEF RowIds
        <4> QED
          BY <1>2, <3>1, <4>2 DEF LogbookInv, IdsAreFresh
      <3>2. CASE visits'[w].rows = {} /\ visits'[w].id \in {0, lastId + 1}
        BY <1>2, <3>2
      <3> QED
        BY <3>1, <3>2
    <2> QED
      BY <2>1, <2>2 DEF IdsAreFresh
  <1>7. HeldMarksAreTrue'
    BY <1>2 DEF LogbookInv, HeldMarksAreTrue
  <1>8. SentIsRemembered'
    <2>1. ASSUME NEW i \in RowIds, uploads'[i] > 0, i \notin excused', ~qsos'[i].eqsl, qsos'[i] # Gone
          PROVE  \E w \in Visits : visits'[w].at = "mark" /\ i \in visits'[w].rows
      <3>1. i # lastId'
        BY <1>4, <2>1
      <3>2. PICK w \in Visits : visits[w].at = "mark" /\ i \in visits[w].rows
        BY <1>3, <2>1, <3>1 DEF LogbookInv, SentIsRemembered
      <3> QED
        BY <3>2
    <2>2. \A w, u \in Visits, i \in RowIds :
             Sending(w, i)' /\ Sending(u, i)' /\ w # u => i \in excused'
      BY DEF LogbookInv, SentIsRemembered, Sending
    <2>3. \A w \in Visits, i \in RowIds :
             visits'[w].at = "upload" /\ i \in visits'[w].rows /\ uploads'[i] > 0 => i \in excused'
      BY DEF LogbookInv, SentIsRemembered
    <2> QED
      BY <2>1, <2>2, <2>3 DEF SentIsRemembered
  <1>9. MarksAreTrue'
    BY <1>1, <1>3 DEF LogbookInv, MarksAreTrue
  <1> QED
    BY <1>5, <1>6, <1>7, <1>8, <1>9 DEF LogbookInv

\* A deleted row is in nobody's way: requests that hold it write to nothing.
LEMMA DeleteKeeps ==
  ASSUME LogbookInv, NEW i \in RowIds, Delete(i)
  PROVE  LogbookInv'
  <1>1. /\ qsos' \in [RowIds -> QSO] /\ qsos'[i] = Gone
        /\ \A j \in RowIds \ {i} : qsos'[j] = qsos[j]
        /\ UNCHANGED <<lastId, visits, taken, mishaps, uploads, excused>>
    BY LogbookConstants DEF Delete, LogbookInv, LogbookTypeOK
  <1>2. LogbookTypeOK'
    BY <1>1 DEF LogbookInv, LogbookTypeOK
  <1>3. IdsAreFresh' /\ HeldMarksAreTrue'
    BY <1>1 DEF LogbookInv, IdsAreFresh, HeldMarksAreTrue
  <1>4. SentIsRemembered' /\ MarksAreTrue'
    BY <1>1, LogbookConstants DEF LogbookInv, SentIsRemembered, MarksAreTrue, Sending
  <1> QED
    BY <1>2, <1>3, <1>4 DEF LogbookInv

\* A form opens with the marks of the row, which are true.
LEMMA OpenFormKeeps ==
  ASSUME LogbookInv, NEW v \in Visits, NEW i \in RowIds, OpenForm(v, i)
  PROVE  LogbookInv'
  <1> DEFINE new == [NoVisit EXCEPT !.at = "edit", !.id = i, !.seen = qsos[i]]
  <1>1. /\ new \in Visit /\ new.at = "edit" /\ new.rows = {} /\ new.id = i /\ new.seen = qsos[i]
        /\ visits[v] = NoVisit /\ visits' = [visits EXCEPT ![v] = new]
        /\ UNCHANGED <<qsos, lastId, taken, mishaps, uploads, excused>>
    BY DEF OpenForm, Begin, NoVisit, Visit, LogbookInv, LogbookTypeOK
  <1> HIDE DEF new
  <1>2. /\ visits' \in [Visits -> Visit] /\ visits'[v] = new
        /\ \A w \in Visits \ {v} : visits'[w] = visits[w]
    BY <1>1, VisitMoves DEF LogbookInv
  <1>3. i <= lastId
    BY LogbookConstants DEF OpenForm, Logged, LogbookInv, IdsAreFresh, LogbookTypeOK
  <1>4. LogbookTypeOK'
    BY <1>1, <1>2 DEF LogbookInv, LogbookTypeOK
  <1>5. IdsAreFresh'
    BY <1>1, <1>2, <1>3 DEF LogbookInv, IdsAreFresh
  <1>6. HeldMarksAreTrue'
    BY <1>1, <1>2 DEF LogbookInv, HeldMarksAreTrue, MarksAreTrue
  <1>7. SentIsRemembered'
    BY <1>1, <1>2, LogbookConstants DEF LogbookInv, SentIsRemembered, Sending
  <1>8. MarksAreTrue'
    BY <1>1 DEF LogbookInv, MarksAreTrue
  <1> QED
    BY <1>4, <1>5, <1>6, <1>7, <1>8 DEF LogbookInv

\* A form writes back a row with marks that were true when it was read: they
\* still are, and if a mark is lost or a deleted row comes back, there is a
\* reason to send the row again.
LEMMA WriteBackKeeps ==
  ASSUME LogbookInv, NEW v \in Visits, NEW row \in QSO, NEW new \in Visit,
         visits[v].at \in {"edit", "again"},
         row.eqsl = visits[v].seen.eqsl, row.qrz = visits[v].seen.qrz,
         WriteBack(visits[v].id, row),
         visits' = [visits EXCEPT ![v] = new],
         \/ new = NoVisit
         \/ /\ new.at = "again" /\ new.id = visits[v].id /\ new.rows = visits[v].rows
            /\ new.seen = row,
         UNCHANGED <<lastId, taken, mishaps, uploads>>
  PROVE  LogbookInv'
  <1> DEFINE i == visits[v].id
  <1>1. /\ i \in RowIds /\ i <= lastId
        /\ row.eqsl => i \in taken["eqsl"]
        /\ row.qrz => i \in taken["qrz"]
    BY DEF LogbookInv, HeldMarksAreTrue, IdsAreFresh
  <1>2. /\ qsos' \in [RowIds -> QSO] /\ qsos'[i] = row
        /\ \A j \in RowIds \ {i} : qsos'[j] = qsos[j]
        /\ excused \subseteq excused' /\ excused' \subseteq RowIds
        /\ (qsos[i].eqsl /\ ~row.eqsl) \/ qsos[i] = Gone => i \in excused'
    BY <1>1 DEF WriteBack, LogbookInv, LogbookTypeOK
  <1>3. /\ visits' \in [Visits -> Visit] /\ visits'[v] = new
        /\ \A w \in Visits \ {v} : visits'[w] = visits[w]
    BY VisitMoves DEF LogbookInv
  <1> HIDE DEF i
  <1>4. LogbookTypeOK'
    BY <1>2, <1>3 DEF LogbookInv, LogbookTypeOK
  <1>5. IdsAreFresh'
    <2>1. \A j \in RowIds : j > lastId => qsos'[j] = Gone /\ uploads'[j] = 0
      <3>1. i \in Nat /\ lastId \in Nat /\ RowIds \subseteq Nat
        BY <1>1, LogbookConstants, LogbookAssumption DEF LogbookInv, LogbookTypeOK
      <3> QED
        BY <1>1, <1>2, <3>1 DEF LogbookInv, IdsAreFresh
    <2>2. \A w \in Visits : visits'[w].id <= lastId /\ \A j \in visits'[w].rows : j <= lastId
      <3>1. 0 <= lastId
        BY LogbookAssumption DEF LogbookInv, LogbookTypeOK
      <3> QED
        BY <1>3, <3>1, LogbookConstants DEF LogbookInv, IdsAreFresh
    <2> QED
      BY <2>1, <2>2 DEF IdsAreFresh
  <1>6. HeldMarksAreTrue'
    BY <1>1, <1>3, LogbookConstants DEF LogbookInv, HeldMarksAreTrue, i
  <1>7. SentIsRemembered'
    <2>1. ASSUME NEW j \in RowIds, uploads'[j] > 0, j \notin excused', ~qsos'[j].eqsl, qsos'[j] # Gone
          PROVE  \E w \in Visits : visits'[w].at = "mark" /\ j \in visits'[w].rows
      <3>1. uploads[j] > 0 /\ j \notin excused /\ ~qsos[j].eqsl /\ qsos[j] # Gone
        BY <1>1, <1>2, <2>1
      <3>2. PICK w \in Visits : visits[w].at = "mark" /\ j \in visits[w].rows
        BY <3>1 DEF LogbookInv, SentIsRemembered
      <3> QED
        BY <1>3, <3>2
    <2>2. \A w, u \in Visits, j \in RowIds :
             Sending(w, j)' /\ Sending(u, j)' /\ w # u => j \in excused'
      BY <1>2, <1>3, LogbookConstants DEF LogbookInv, SentIsRemembered, Sending
    <2>3. \A w \in Visits, j \in RowIds :
             visits'[w].at = "upload" /\ j \in visits'[w].rows /\ uploads'[j] > 0 => j \in excused'
      BY <1>2, <1>3, LogbookConstants DEF LogbookInv, SentIsRemembered
    <2> QED
      BY <2>1, <2>2, <2>3 DEF SentIsRemembered
  <1>8. MarksAreTrue'
    BY <1>1, <1>2 DEF LogbookInv, MarksAreTrue
  <1> QED
    BY <1>4, <1>5, <1>6, <1>7, <1>8 DEF LogbookInv

\* A form writes back marks that were true when it was opened; services do not
\* give a contact back.
LEMMA SaveKeeps ==
  ASSUME LogbookInv, NEW v \in Visits, (\E c \in Contacts : SaveEdit(v, c)) \/ SaveAgain(v)
  PROVE  LogbookInv'
  <1>0. visits[v] \in Visit /\ visits[v].seen \in QSO
    BY DEF LogbookInv, LogbookTypeOK, Visit
  <1>1. ASSUME NEW c \in Contacts, SaveEdit(v, c) PROVE LogbookInv'
    <2> DEFINE row == [visits[v].seen EXCEPT !.contact = c]
               new == [visits[v] EXCEPT !.at = "again", !.seen = row]
    <2>1. row \in QSO /\ row.eqsl = visits[v].seen.eqsl /\ row.qrz = visits[v].seen.qrz
      BY <1>0 DEF QSO
    <2>2. visits[v].at = "edit" /\ WriteBack(visits[v].id, row)
      BY <1>1 DEF SaveEdit
    <2> HIDE DEF row
    <2>3. /\ new \in Visit /\ new.at = "again" /\ new.id = visits[v].id /\ new.rows = visits[v].rows
          /\ new.seen = row
      BY <1>0, <2>1 DEF Visit
    <2>4. visits' = [visits EXCEPT ![v] = new] /\ UNCHANGED <<lastId, taken, mishaps, uploads>>
      BY <1>1 DEF SaveEdit, row, LogbookInv, LogbookTypeOK
    <2> HIDE DEF new
    <2> QED
      BY <2>1, <2>2, <2>3, <2>4, WriteBackKeeps
  <1>2. CASE SaveAgain(v)
    BY <1>0, <1>2, WriteBackKeeps, LogbookConstants DEF SaveAgain, Leave
  <1> QED
    BY <1>1, <1>2

\* An upload is listed: what eQSL has already and what another request is
\* sending has a reason to go twice.
LEMMA BeginUploadKeeps ==
  ASSUME LogbookInv, NEW v \in Visits, NEW rows \in SUBSET RowIds, NEW resend \in BOOLEAN,
         BeginUpload(v, rows, resend)
  PROVE  LogbookInv'
  <1> DEFINE new == [NoVisit EXCEPT !.at = "upload", !.rows = rows]
  <1>1. /\ new \in Visit /\ new.at = "upload" /\ new.rows = rows /\ new.id = 0
        /\ visits[v] = NoVisit /\ visits' = [visits EXCEPT ![v] = new]
    BY DEF BeginUpload, Begin, NoVisit, Visit, Gone, QSO
  <1> HIDE DEF new
  <1>2. /\ visits' \in [Visits -> Visit] /\ visits'[v] = new
        /\ \A w \in Visits \ {v} : visits'[w] = visits[w]
    BY <1>1, VisitMoves DEF LogbookInv
  <1>3. /\ UNCHANGED <<qsos, lastId, taken, mishaps, uploads>>
        /\ rows \subseteq Logged /\ (~resend => rows \subseteq Unsent)
        /\ excused \subseteq excused' /\ excused' \subseteq RowIds
        /\ resend => rows \subseteq excused'
        /\ \A i \in rows, w \in Visits : Sending(w, i) => i \in excused'
    BY DEF BeginUpload, Unsent, Sending, LogbookInv, LogbookTypeOK
  <1>4. LogbookTypeOK'
    BY <1>2, <1>3 DEF LogbookInv, LogbookTypeOK
  <1>5. IdsAreFresh'
    <2>1. \A i \in rows : i <= lastId
      BY <1>3, LogbookConstants, LogbookAssumption DEF Logged, LogbookInv, IdsAreFresh, LogbookTypeOK
    <2>2. 0 <= lastId
      BY LogbookAssumption DEF LogbookInv, LogbookTypeOK
    <2> QED
      BY <1>1, <1>2, <1>3, <2>1, <2>2 DEF LogbookInv, IdsAreFresh
  <1>6. HeldMarksAreTrue'
    BY <1>1, <1>2, <1>3 DEF LogbookInv, HeldMarksAreTrue
  <1>7. SentIsRemembered'
    <2>1. ASSUME NEW i \in RowIds, uploads'[i] > 0, i \notin excused', ~qsos'[i].eqsl, qsos'[i] # Gone
          PROVE  \E w \in Visits : visits'[w].at = "mark" /\ i \in visits'[w].rows
      <3>1. PICK w \in Visits : visits[w].at = "mark" /\ i \in visits[w].rows
        BY <1>3, <2>1 DEF LogbookInv, SentIsRemembered
      <3> QED
        BY <1>1, <1>2, <3>1, LogbookConstants
    <2>2. \A w, u \in Visits, i \in RowIds :
             Sending(w, i)' /\ Sending(u, i)' /\ w # u => i \in excused'
      <3> SUFFICES ASSUME NEW w \in Visits, NEW u \in Visits, NEW i \in RowIds,
                          Sending(w, i)', Sending(u, i)', w # u
                   PROVE  i \in excused'
        OBVIOUS
      <3>1. CASE w # v /\ u # v
        BY <1>2, <1>3, <3>1 DEF LogbookInv, SentIsRemembered, Sending
      <3>2. CASE w = v \/ u = v
        BY <1>1, <1>2, <1>3, <3>2 DEF Sending
      <3> QED
        BY <3>1, <3>2
    <2>3. ASSUME NEW i \in rows, uploads[i] > 0 PROVE i \in excused'
      <3>1. CASE resend
        BY <1>3, <3>1
      <3>2. CASE i \in Unsent
        <4>1. \/ i \in excused
              \/ \E w \in Visits : visits[w].at = "mark" /\ i \in visits[w].rows
          BY <2>3, <3>2 DEF Unsent, Logged, LogbookInv, SentIsRemembered
        <4> QED
          BY <1>3, <4>1 DEF Sending
      <3> QED
        BY <1>3, <3>1, <3>2
    <2>4. \A w \in Visits, i \in RowIds :
             visits'[w].at = "upload" /\ i \in visits'[w].rows /\ uploads'[i] > 0 => i \in excused'
      BY <1>1, <1>2, <1>3, <2>3 DEF LogbookInv, SentIsRemembered
    <2> QED
      BY <2>1, <2>2, <2>4 DEF SentIsRemembered
  <1>8. MarksAreTrue'
    BY <1>3 DEF LogbookInv, MarksAreTrue
  <1> QED
    BY <1>4, <1>5, <1>6, <1>7, <1>8 DEF LogbookInv

\* eQSL is given rows: a row it gets for the second time had a reason.
LEMMA GivenCounts ==
  ASSUME LogbookInv, NEW v \in Visits, visits[v].at = "upload", Given(visits[v].rows)
  PROVE  /\ uploads' \in [RowIds -> 0 .. 2]
         /\ \A i \in RowIds : i \notin visits[v].rows => uploads'[i] = uploads[i]
         /\ \A i \in visits[v].rows : i \in RowIds /\ i <= lastId
         /\ \A i \in visits[v].rows : uploads'[i] > 1 => i \in excused
         /\ \A i \in RowIds : uploads[i] > 0 => uploads'[i] > 0
  <1>1. visits[v].rows \subseteq RowIds
    BY DEF LogbookInv, LogbookTypeOK, Visit
  <1>2. \A i \in RowIds : uploads[i] \in 0 .. 2
    BY DEF LogbookInv, LogbookTypeOK
  <1>3. \A i \in RowIds : uploads'[i] = IF i \in visits[v].rows /\ uploads[i] < 2
                                       THEN uploads[i] + 1 ELSE uploads[i]
    BY DEF Given
  <1>4. uploads' \in [RowIds -> 0 .. 2]
    BY <1>2 DEF Given
  <1>5. \A i \in visits[v].rows : uploads'[i] > 1 => i \in excused
    BY <1>1, <1>2, <1>3 DEF LogbookInv, SentIsRemembered
  <1>6. \A i \in RowIds : uploads[i] > 0 => uploads'[i] > 0
    BY <1>2, <1>3
  <1> QED
    BY <1>1, <1>3, <1>4, <1>5, <1>6 DEF LogbookInv, IdsAreFresh

\* eQSL has what it answered for, and the request goes on to mark it.
LEMMA UploadAnsweredKeeps ==
  ASSUME LogbookInv, NEW v \in Visits, UploadAnswered(v)
  PROVE  LogbookInv'
  <1> DEFINE new == [visits[v] EXCEPT !.at = "mark"]
             rows == visits[v].rows
  <1>1. /\ new \in Visit /\ new.at = "mark" /\ new.rows = rows /\ new.id = visits[v].id
        /\ visits[v].at = "upload" /\ visits' = [visits EXCEPT ![v] = new]
        /\ UNCHANGED <<qsos, lastId, mishaps, excused>>
    BY DEF UploadAnswered, Advance, Visit, LogbookInv, LogbookTypeOK
  <1> HIDE DEF new
  <1>2. /\ visits' \in [Visits -> Visit] /\ visits'[v] = new
        /\ \A w \in Visits \ {v} : visits'[w] = visits[w]
    BY <1>1, VisitMoves DEF LogbookInv
  <1>3. /\ uploads' \in [RowIds -> 0 .. 2]
        /\ \A i \in RowIds : i \notin rows => uploads'[i] = uploads[i]
        /\ \A i \in rows : i \in RowIds /\ i <= lastId
        /\ \A i \in rows : uploads'[i] > 1 => i \in excused
    BY GivenCounts DEF UploadAnswered
  <1>4. /\ taken' \in [{"eqsl", "qrz"} -> SUBSET RowIds]
        /\ taken'["eqsl"] = taken["eqsl"] \cup rows /\ taken'["qrz"] = taken["qrz"]
    BY <1>3 DEF UploadAnswered, LogbookInv, LogbookTypeOK
  <1>5. LogbookTypeOK'
    BY <1>1, <1>2, <1>3, <1>4 DEF LogbookInv, LogbookTypeOK
  <1>6. IdsAreFresh'
    <2>1. \A i \in RowIds : i > lastId => i \notin rows
      <3>1. lastId \in Nat /\ RowIds \subseteq Nat
        BY LogbookConstants DEF LogbookInv, LogbookTypeOK
      <3>2. \A i \in Nat : i <= lastId => ~(i > lastId)
        BY <3>1
      <3> QED
        BY <1>3, <3>1, <3>2
    <2> QED
      BY <1>1, <1>2, <1>3, <2>1 DEF LogbookInv, IdsAreFresh
  <1>7. HeldMarksAreTrue'
    BY <1>1, <1>2, <1>4 DEF LogbookInv, HeldMarksAreTrue
  <1>8. SentIsRemembered'
    <2>1. ASSUME NEW i \in RowIds, uploads'[i] > 0, i \notin excused', ~qsos'[i].eqsl, qsos'[i] # Gone
          PROVE  \E w \in Visits : visits'[w].at = "mark" /\ i \in visits'[w].rows
      <3>1. CASE i \in rows
        BY <1>1, <1>2, <3>1
      <3>2. CASE i \notin rows
        <4>1. PICK w \in Visits : visits[w].at = "mark" /\ i \in visits[w].rows
          BY <1>1, <1>3, <2>1, <3>2 DEF LogbookInv, SentIsRemembered
        <4> QED
          BY <1>1, <1>2, <4>1
      <3> QED
        BY <3>1, <3>2
    <2>2. \A w, u \in Visits, i \in RowIds :
             Sending(w, i)' /\ Sending(u, i)' /\ w # u => i \in excused'
      <3>1. \A w \in Visits, i \in RowIds : Sending(w, i)' => Sending(w, i)
        BY <1>1, <1>2 DEF Sending
      <3> QED
        BY <1>1, <3>1 DEF LogbookInv, SentIsRemembered
    <2>3. ASSUME NEW w \in Visits, NEW i \in RowIds,
                 visits'[w].at = "upload", i \in visits'[w].rows, uploads'[i] > 0
          PROVE  i \in excused'
      <3>1. w # v /\ visits[w].at = "upload" /\ i \in visits[w].rows
        BY <1>1, <1>2, <2>3
      <3>2. CASE i \in rows
        BY <1>1, <3>1, <3>2 DEF LogbookInv, SentIsRemembered, Sending
      <3>3. CASE i \notin rows
        BY <1>1, <1>3, <2>3, <3>1, <3>3 DEF LogbookInv, SentIsRemembered
      <3> QED
        BY <3>2, <3>3
    <2> QED
      BY <2>1, <2>2, <2>3 DEF SentIsRemembered
  <1>9. MarksAreTrue'
    BY <1>1, <1>3, <1>4 DEF LogbookInv, MarksAreTrue
  <1> QED
    BY <1>5, <1>6, <1>7, <1>8, <1>9 DEF LogbookInv

\* An upload without an answer excuses a second one.
LEMMA UploadFailsKeeps ==
  ASSUME LogbookInv, NEW v \in Visits, UploadFails(v)
  PROVE  LogbookInv'
  <1>1. /\ visits[v].at = "upload" /\ visits' = [visits EXCEPT ![v] = NoVisit]
        /\ mishaps' \in 0 .. MaxMishaps /\ UNCHANGED <<qsos, lastId, taken>>
    BY LogbookAssumption DEF UploadFails, UploadGivenUp, Leave, Mishap, LogbookInv, LogbookTypeOK
  <1>2. 0 <= lastId
    BY LogbookAssumption DEF LogbookInv, LogbookTypeOK
  <1>3. CASE UNCHANGED <<uploads, excused>>
    <2>1. excused \subseteq RowIds
      BY DEF LogbookInv, LogbookTypeOK
    <2> QED
      BY <1>1, <1>2, <1>3, <2>1, LogbookConstants, QuietStepKeeps
  <1>4. CASE Given(visits[v].rows) /\ excused' = excused \cup visits[v].rows
    <2> DEFINE rows == visits[v].rows
    <2>1. /\ visits' \in [Visits -> Visit] /\ visits'[v] = NoVisit
          /\ \A w \in Visits \ {v} : visits'[w] = visits[w]
      BY <1>1, LogbookConstants, VisitMoves DEF LogbookInv
    <2>2. /\ uploads' \in [RowIds -> 0 .. 2]
          /\ \A i \in RowIds : i \notin rows => uploads'[i] = uploads[i]
          /\ \A i \in rows : i \in RowIds /\ i <= lastId
      BY <1>1, <1>4, GivenCounts
    <2>3. LogbookTypeOK'
      BY <1>1, <1>4, <2>1, <2>2 DEF LogbookInv, LogbookTypeOK
    <2>4. IdsAreFresh'
      <3>1. \A i \in RowIds : i > lastId => i \notin rows
        <4>1. lastId \in Nat /\ RowIds \subseteq Nat
          BY LogbookConstants DEF LogbookInv, LogbookTypeOK
        <4>2. \A i \in Nat : i <= lastId => ~(i > lastId)
          BY <4>1
        <4> QED
          BY <2>2, <4>1, <4>2
      <3> QED
        BY <1>1, <1>2, <2>1, <2>2, <3>1, LogbookConstants DEF LogbookInv, IdsAreFresh
    <2>5. HeldMarksAreTrue'
      BY <1>1, <2>1, LogbookConstants DEF LogbookInv, HeldMarksAreTrue
    <2>6. SentIsRemembered'
      BY <1>1, <1>4, <2>1, <2>2, LogbookConstants DEF LogbookInv, SentIsRemembered, Sending
    <2>7. MarksAreTrue'
      BY <1>1, <1>4, <2>2 DEF LogbookInv, MarksAreTrue
    <2> QED
      BY <2>3, <2>4, <2>5, <2>6, <2>7 DEF LogbookInv
  <1> QED
    BY <1>3, <1>4 DEF UploadFails

\* The rows of an answered upload are marked.
LEMMA MarkUploadedKeeps ==
  ASSUME LogbookInv, NEW v \in Visits, MarkUploaded(v)
  PROVE  LogbookInv'
  <1> DEFINE rows == visits[v].rows
  <1>1. /\ visits[v].at = "mark" /\ visits' = [visits EXCEPT ![v] = NoVisit]
        /\ UNCHANGED <<lastId, taken, mishaps, uploads, excused>>
    BY DEF MarkUploaded, Leave
  <1>2. /\ visits' \in [Visits -> Visit] /\ visits'[v] = NoVisit
        /\ \A w \in Visits \ {v} : visits'[w] = visits[w]
    BY <1>1, LogbookConstants, VisitMoves DEF LogbookInv
  <1>3. rows \subseteq taken["eqsl"]
    BY <1>1 DEF LogbookInv, HeldMarksAreTrue
  <1>4. \A i \in RowIds : qsos[i] \in QSO
    BY DEF LogbookInv, LogbookTypeOK
  <1>5. \A q \in QSO : /\ [q EXCEPT !.eqsl = TRUE] \in QSO
                       /\ [q EXCEPT !.eqsl = TRUE].eqsl /\ [q EXCEPT !.eqsl = TRUE].qrz = q.qrz
    BY DEF QSO
  <1>6. /\ qsos' \in [RowIds -> QSO]
        /\ \A i \in RowIds : qsos'[i] = qsos[i] \/ (qsos'[i].eqsl /\ qsos'[i].qrz = qsos[i].qrz /\ i \in rows)
        /\ \A i \in rows \cap RowIds : qsos'[i].eqsl \/ qsos'[i] = Gone
        /\ \A i \in RowIds : qsos[i] = Gone => qsos'[i] = Gone
    BY <1>4, <1>5 DEF MarkUploaded, Logged
  <1>7. LogbookTypeOK'
    BY <1>1, <1>2, <1>6 DEF LogbookInv, LogbookTypeOK
  <1>8. IdsAreFresh'
    <2>1. 0 <= lastId
      BY LogbookAssumption DEF LogbookInv, LogbookTypeOK
    <2> QED
      BY <1>1, <1>2, <1>6, <2>1, LogbookConstants DEF LogbookInv, IdsAreFresh
  <1>9. HeldMarksAreTrue'
    BY <1>1, <1>2, LogbookConstants DEF LogbookInv, HeldMarksAreTrue
  <1>10. SentIsRemembered'
    <2>1. ASSUME NEW i \in RowIds, uploads'[i] > 0, i \notin excused', ~qsos'[i].eqsl, qsos'[i] # Gone
          PROVE  \E w \in Visits : visits'[w].at = "mark" /\ i \in visits'[w].rows
      <3>1. i \notin rows /\ ~qsos[i].eqsl /\ qsos[i] # Gone
        BY <1>6, <2>1
      <3>2. PICK w \in Visits : visits[w].at = "mark" /\ i \in visits[w].rows
        BY <1>1, <2>1, <3>1 DEF LogbookInv, SentIsRemembered
      <3> QED
        BY <1>2, <3>1, <3>2
    <2>2. \A w, u \in Visits, i \in RowIds :
             Sending(w, i)' /\ Sending(u, i)' /\ w # u => i \in excused'
      BY <1>1, <1>2, LogbookConstants DEF LogbookInv, SentIsRemembered, Sending
    <2>3. \A w \in Visits, i \in RowIds :
             visits'[w].at = "upload" /\ i \in visits'[w].rows /\ uploads'[i] > 0 => i \in excused'
      BY <1>1, <1>2, LogbookConstants DEF LogbookInv, SentIsRemembered
    <2> QED
      BY <2>1, <2>2, <2>3 DEF SentIsRemembered
  <1>11. MarksAreTrue'
    BY <1>1, <1>3, <1>6 DEF LogbookInv, MarksAreTrue
  <1> QED
    BY <1>7, <1>8, <1>9, <1>10, <1>11 DEF LogbookInv

\* QRZ has the record it answered for.
LEMMA InsertRecordKeeps ==
  ASSUME LogbookInv, NEW v \in Visits, NEW i \in RowIds, InsertRecord(v, i)
  PROVE  LogbookInv'
  <1> DEFINE new == [visits[v] EXCEPT !.at = "sent", !.id = i]
  <1>1. /\ new \in Visit /\ new.at = "sent" /\ new.rows = visits[v].rows /\ new.id = i
        /\ visits[v].at = "insert" /\ i \in visits[v].rows /\ visits' = [visits EXCEPT ![v] = new]
        /\ UNCHANGED <<qsos, lastId, mishaps, uploads, excused>>
    BY DEF InsertRecord, Visit, LogbookInv, LogbookTypeOK
  <1> HIDE DEF new
  <1>2. /\ visits' \in [Visits -> Visit] /\ visits'[v] = new
        /\ \A w \in Visits \ {v} : visits'[w] = visits[w]
    BY <1>1, VisitMoves DEF LogbookInv
  <1>3. /\ taken' \in [{"eqsl", "qrz"} -> SUBSET RowIds]
        /\ taken'["eqsl"] = taken["eqsl"] /\ taken'["qrz"] = taken["qrz"] \cup {i}
    BY DEF InsertRecord, LogbookInv, LogbookTypeOK
  <1>4. LogbookTypeOK'
    BY <1>1, <1>2, <1>3 DEF LogbookInv, LogbookTypeOK
  <1>5. IdsAreFresh'
    BY <1>1, <1>2 DEF LogbookInv, IdsAreFresh
  <1>6. HeldMarksAreTrue'
    BY <1>1, <1>2, <1>3 DEF LogbookInv, HeldMarksAreTrue
  <1>7. SentIsRemembered'
    BY <1>1, <1>2 DEF LogbookInv, SentIsRemembered, Sending
  <1>8. MarksAreTrue'
    BY <1>1, <1>3 DEF LogbookInv, MarksAreTrue
  <1> QED
    BY <1>4, <1>5, <1>6, <1>7, <1>8 DEF LogbookInv

\* The row of an answered record is marked.
LEMMA MarkExportedKeeps ==
  ASSUME LogbookInv, NEW v \in Visits, MarkExported(v)
  PROVE  LogbookInv'
  <1> DEFINE i == visits[v].id
             left == visits[v].rows \ {i}
             new == IF i \in Logged /\ left # {} THEN [NoVisit EXCEPT !.at = "insert", !.rows = left]
                    ELSE NoVisit
  <1>0. visits[v] \in Visit /\ left \subseteq RowIds
    BY DEF LogbookInv, LogbookTypeOK, Visit
  <1>1. /\ new \in Visit /\ new.at \in {"idle", "insert"} /\ new.rows \subseteq visits[v].rows /\ new.id = 0
    BY <1>0 DEF NoVisit, Visit, Gone, QSO
  <1>2. /\ visits[v].at = "sent" /\ visits' = [visits EXCEPT ![v] = new]
        /\ UNCHANGED <<lastId, taken, mishaps, uploads, excused>>
    BY DEF MarkExported, Leave
  <1>3. i \in RowIds /\ i \in taken["qrz"]
    BY <1>2 DEF LogbookInv, HeldMarksAreTrue
  <1>4. qsos[i] \in QSO
    BY <1>3 DEF LogbookInv, LogbookTypeOK
  <1>5. CASE i \in Logged
    <2> DEFINE row == [qsos[i] EXCEPT !.qrz = TRUE]
    <2>1. row \in QSO /\ row.eqsl = qsos[i].eqsl
      BY <1>4 DEF QSO
    <2>2. qsos' = [qsos EXCEPT ![i] = row] /\ qsos[i] # Gone
      BY <1>3, <1>5 DEF MarkExported, Logged, LogbookInv, LogbookTypeOK
    <2> HIDE DEF row, new, i
    <2>3. /\ qsos' \in [RowIds -> QSO] /\ qsos'[i] = row
          /\ \A j \in RowIds \ {i} : qsos'[j] = qsos[j]
      BY <1>3, <2>1, <2>2 DEF LogbookInv, LogbookTypeOK
    <2>4. /\ visits' \in [Visits -> Visit] /\ visits'[v] = new
          /\ \A w \in Visits \ {v} : visits'[w] = visits[w]
      BY <1>1, <1>2, VisitMoves DEF LogbookInv
    <2>5. LogbookTypeOK'
      BY <1>2, <2>3, <2>4 DEF LogbookInv, LogbookTypeOK
    <2>6. IdsAreFresh'
      <3>1. \A j \in RowIds : j > lastId => qsos'[j] = Gone /\ uploads'[j] = 0
        BY <1>2, <2>2, <2>3 DEF LogbookInv, IdsAreFresh
      <3>2. 0 <= lastId
        BY LogbookAssumption DEF LogbookInv, LogbookTypeOK
      <3> QED
        BY <1>1, <1>2, <2>4, <3>1, <3>2 DEF LogbookInv, IdsAreFresh
    <2>7. HeldMarksAreTrue'
      BY <1>1, <1>2, <2>4 DEF LogbookInv, HeldMarksAreTrue
    <2>8. SentIsRemembered'
      BY <1>1, <1>2, <2>1, <2>2, <2>3, <2>4 DEF LogbookInv, SentIsRemembered, Sending
    <2>9. MarksAreTrue'
      BY <1>2, <1>3, <2>1, <2>3 DEF LogbookInv, MarksAreTrue
    <2> QED
      BY <2>5, <2>6, <2>7, <2>8, <2>9 DEF LogbookInv
  <1>6. CASE i \notin Logged
    <2>1. UNCHANGED qsos /\ new = NoVisit
      BY <1>6 DEF MarkExported
    <2>2. excused \subseteq RowIds /\ mishaps \in 0 .. MaxMishaps /\ 0 <= lastId
      BY LogbookAssumption DEF LogbookInv, LogbookTypeOK
    <2> QED
      BY <1>2, <2>1, <2>2, LogbookConstants, QuietStepKeeps
  <1> QED
    BY <1>5, <1>6

\* The steps that touch no row.
LEMMA ReadingKeeps ==
  ASSUME LogbookInv, NEW v \in Visits,
         \/ \E records \in SUBSET Contacts : BeginImport(v, records)
         \/ \E c \in Contacts : CheckRecord(v, c)
         \/ BeginExport(v) \/ InsertFails(v) \/ VisitDies(v)
  PROVE  LogbookInv'
  <1>0. /\ visits[v] \in Visit /\ visits[v].rows \subseteq RowIds /\ excused \subseteq RowIds
        /\ mishaps \in 0 .. MaxMishaps /\ 0 <= lastId
    BY LogbookAssumption DEF LogbookInv, LogbookTypeOK, Visit
  <1>1. ASSUME NEW records \in SUBSET Contacts, BeginImport(v, records) PROVE LogbookInv'
    <2> DEFINE new == [NoVisit EXCEPT !.at = "import", !.records = records]
    <2>1. new \in Visit /\ new.at = "import" /\ new.id = 0 /\ new.rows = {}
      BY DEF NoVisit, Visit, Gone, QSO
    <2>2. /\ visits[v] = NoVisit /\ visits' = [visits EXCEPT ![v] = new]
          /\ UNCHANGED <<qsos, lastId, taken, mishaps, uploads, excused>>
      BY <1>1 DEF BeginImport, Begin
    <2> HIDE DEF new
    <2> QED
      BY <1>0, <2>1, <2>2, LogbookConstants, QuietStepKeeps
  <1>2. ASSUME NEW c \in Contacts, CheckRecord(v, c) PROVE LogbookInv'
    <2> DEFINE skipped == [visits[v] EXCEPT !.records = visits[v].records \ {c}]
               found == [visits[v] EXCEPT !.at = "create", !.seen.contact = c]
    <2>1. skipped \in Visit /\ skipped.at = visits[v].at /\ skipped.id = visits[v].id /\ skipped.rows = visits[v].rows
      BY <1>0 DEF Visit
    <2>2. found \in Visit /\ found.at = "create" /\ found.id = visits[v].id /\ found.rows = visits[v].rows
      BY <1>0 DEF Visit, QSO
    <2>3. visits[v].id <= lastId /\ \A i \in visits[v].rows : i <= lastId
      BY DEF LogbookInv, IdsAreFresh
    <2>4. PICK new \in {NoVisit, skipped, found} : visits' = [visits EXCEPT ![v] = new]
      <3>1. CASE ~Known(c)
        BY <1>0, <1>2, <3>1 DEF CheckRecord, LogbookInv, LogbookTypeOK, Visit
      <3>2. CASE Known(c) /\ visits[v].records = {c}
        BY <1>2, <3>2 DEF CheckRecord
      <3>3. CASE Known(c) /\ visits[v].records # {c}
        BY <1>0, <1>2, <3>3 DEF CheckRecord
      <3> QED
        BY <3>1, <3>2, <3>3
    <2>5. visits[v].at = "import" /\ UNCHANGED <<qsos, lastId, taken, mishaps, uploads, excused>>
      BY <1>2 DEF CheckRecord
    <2> HIDE DEF skipped, found
    <2>6. /\ new \in Visit /\ new.at \in {"idle", "import", "create"} /\ new.id <= lastId
          /\ \A i \in new.rows : i <= lastId
      BY <1>0, <2>1, <2>2, <2>3, <2>4, <2>5, LogbookConstants
    <2> QED
      BY <1>0, <2>4, <2>5, <2>6, QuietStepKeeps
  <1>3. CASE BeginExport(v)
    <2> DEFINE rows == {i \in Logged : ~qsos[i].qrz}
               new == [NoVisit EXCEPT !.at = "insert", !.rows = rows]
    <2>1. rows \subseteq RowIds /\ rows \subseteq Logged
      BY DEF Logged
    <2>0. \A i \in rows : i <= lastId
      <3>1. rows \subseteq Nat /\ lastId \in Nat
        BY <2>1, LogbookAssumption DEF RowIds, LogbookInv, LogbookTypeOK
      <3>2. \A i \in rows : ~(i > lastId)
        BY <2>1 DEF Logged, LogbookInv, IdsAreFresh
      <3> QED
        BY <3>1, <3>2
    <2>2. /\ visits[v] = NoVisit /\ visits' = [visits EXCEPT ![v] = new]
          /\ UNCHANGED <<qsos, lastId, taken, mishaps, uploads, excused>>
      BY <1>3 DEF BeginExport, Begin
    <2> HIDE DEF rows
    <2>3. new \in Visit /\ new.at = "insert" /\ new.id = 0 /\ new.rows = rows
      BY <2>1 DEF NoVisit, Visit, Gone, QSO
    <2> HIDE DEF new
    <2> QED
      BY <1>0, <2>0, <2>1, <2>2, <2>3, LogbookConstants, QuietStepKeeps
  <1>4. CASE InsertFails(v)
    <2>1. /\ visits[v].at = "insert" /\ visits' = [visits EXCEPT ![v] = NoVisit]
          /\ mishaps' \in 0 .. MaxMishaps /\ UNCHANGED <<qsos, lastId, taken, uploads, excused>>
      BY <1>0, <1>4, LogbookAssumption DEF InsertFails, Leave, Mishap
    <2> QED
      BY <1>0, <2>1, LogbookConstants, QuietStepKeeps
  <1>5. CASE VisitDies(v)
    <2>1. /\ visits' = [visits EXCEPT ![v] = NoVisit]
          /\ mishaps' \in 0 .. MaxMishaps /\ UNCHANGED <<qsos, lastId, taken, uploads>>
          /\ excused' = excused \cup (IF visits[v].at = "mark" THEN visits[v].rows ELSE {})
      BY <1>0, <1>5, LogbookAssumption DEF VisitDies, Leave, Mishap
    <2> QED
      BY <1>0, <2>1, LogbookConstants, QuietStepKeeps
  <1> QED
    BY <1>1, <1>2, <1>3, <1>4, <1>5

\* Every step keeps the invariant.
LEMMA LogbookPreserved == LogbookInv /\ [LogbookNext]_logbookVars => LogbookInv'
  <1> SUFFICES ASSUME LogbookInv, [LogbookNext]_logbookVars PROVE LogbookInv'
    OBVIOUS
  <1>1. ASSUME NEW c \in Contacts, QuickLog(c) PROVE LogbookInv'
    <2>1. Insert(c) /\ UNCHANGED <<visits, taken, mishaps, uploads, excused>>
      BY <1>1 DEF QuickLog
    <2>2. visits' \in [Visits -> Visit]
      BY <2>1 DEF LogbookInv, LogbookTypeOK
    <2> QED
      BY <2>1, <2>2, InsertKeeps
  <1>2. ASSUME NEW v \in Visits, CreateRecord(v) PROVE LogbookInv'
    <2> DEFINE c == visits[v].seen.contact
               left == visits[v].records \ {c}
               new == IF left = {} THEN NoVisit ELSE [NoVisit EXCEPT !.at = "import", !.records = left]
    <2>1. visits[v] \in Visit /\ c \in Contacts \cup {0} /\ left \subseteq Contacts
      BY DEF LogbookInv, LogbookTypeOK, Visit, QSO
    <2>2. /\ visits[v].at = "create" /\ Insert(c) /\ visits' = [visits EXCEPT ![v] = new]
          /\ UNCHANGED <<taken, mishaps, uploads, excused>>
      BY <1>2 DEF CreateRecord
    <2>3. new \in Visit /\ new.at \in {"idle", "import"} /\ new.rows = {} /\ new.id = 0
      BY <2>1 DEF NoVisit, Visit, Gone, QSO
    <2> HIDE DEF new, c
    <2>4. /\ visits' \in [Visits -> Visit] /\ visits'[v] = new
          /\ \A w \in Visits \ {v} : visits'[w] = visits[w]
      BY <2>2, <2>3, VisitMoves DEF LogbookInv
    <2> QED
      BY <2>1, <2>2, <2>3, <2>4, InsertKeeps
  <1>3. ASSUME NEW v \in Visits, NEW c \in Contacts, SubmitNew(v, c) PROVE LogbookInv'
    <2> DEFINE row == [Gone EXCEPT !.contact = c]
               new == [NoVisit EXCEPT !.at = "again", !.id = lastId + 1, !.seen = row]
    <2>0. lastId + 1 \in RowIds
      <3>1. lastId \in 0 .. MaxRows /\ lastId < MaxRows
        BY <1>3 DEF SubmitNew, Insert, LogbookInv, LogbookTypeOK
      <3> QED
        BY <3>1, LogbookAssumption DEF RowIds
    <2>1. row \in QSO /\ ~row.eqsl /\ ~row.qrz /\ lastId + 1 \in RowIds
      BY <2>0 DEF Gone, QSO
    <2>2. /\ visits[v] = NoVisit /\ Insert(c) /\ visits' = [visits EXCEPT ![v] = new]
          /\ UNCHANGED <<taken, mishaps, uploads, excused>>
      BY <1>3 DEF SubmitNew, Begin
    <2> HIDE DEF row
    <2>3. /\ new \in Visit /\ new.at = "again" /\ new.rows = {} /\ new.id = lastId + 1
          /\ new.seen = row
      BY <2>1 DEF NoVisit, Visit
    <2> HIDE DEF new
    <2>4. /\ visits' \in [Visits -> Visit] /\ visits'[v] = new
          /\ \A w \in Visits \ {v} : visits'[w] = visits[w]
      BY <2>2, <2>3, VisitMoves DEF LogbookInv
    <2> QED
      BY <2>1, <2>2, <2>3, <2>4, LogbookConstants, InsertKeeps
  <1>4. CASE UNCHANGED logbookVars
    BY <1>4 DEF logbookVars, LogbookInv, LogbookTypeOK, IdsAreFresh, HeldMarksAreTrue,
                SentIsRemembered, Sending, MarksAreTrue
  <1> QED
    BY <1>1, <1>2, <1>3, <1>4, DeleteKeeps, OpenFormKeeps, SaveKeeps, BeginUploadKeeps,
       UploadAnsweredKeeps, UploadFailsKeeps, MarkUploadedKeeps, InsertRecordKeeps,
       MarkExportedKeeps, ReadingKeeps DEF LogbookNext

\* The invariant of the QSL exchange (cw/api.py, eqsl.py, qrzlogbook.py, the
\* logbook's forms): whoever will write a mark has the answer of the service,
\* and a row goes to eQSL twice only for a reason.
THEOREM LogbookInvariant == LogbookSpec => []LogbookInv
  BY LogbookInitially, LogbookPreserved, PTL DEF LogbookSpec

\* MarksAreTrue for any number of contacts, rows and requests: a mark says what
\* the service was given, in whatever order uploads, exports, imports and forms
\* write the rows.
THEOREM MarksStayTrue == LogbookSpec => []MarksAreTrue
  <1>1. LogbookInv => MarksAreTrue
    BY DEF LogbookInv
  <1> QED
    BY <1>1, LogbookInvariant, PTL
=============================================================================
