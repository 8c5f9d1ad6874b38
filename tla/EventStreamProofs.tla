------------------------- MODULE EventStreamProofs -------------------------
(***************************************************************************)
(* Proofs about the events of a Session, from the Worker's write-ahead     *)
(* file to the view of a browser.                                          *)
(***************************************************************************)
EXTENDS EventStream, FiniteSetTheorems, WellFoundedInduction, SequenceTheorems, TLAPS

-----------------------------------------------------------------------------
(* Induction over the natural numbers, in the form in which a proof can    *)
(* cite it: a set of natural numbers that is not empty has a least one.    *)

(* A set of natural numbers that is not empty has a least element.         *)
LEMMA LeastNat ==
  ASSUME NEW T, T \subseteq Nat, T # {}
  PROVE \E x \in T : \A y \in T : x <= y
<1> DEFINE R == {ss \in Nat \X Nat : ss[1] < ss[2]}
<1>1. IsWellFoundedOn(R, Nat)
  <2>1. SUFFICES ASSUME NEW f \in [Nat -> Nat], \A n \in Nat : f[n + 1] < f[n]
                 PROVE FALSE
    BY DEF IsWellFoundedOn
  <2> DEFINE g == [n \in Nat |-> 1..f[n]]
  <2>2. g \in [Nat -> FiniteSubsetsOf(Nat)]
    <3>1. ASSUME NEW n \in Nat PROVE 1..f[n] \in FiniteSubsetsOf(Nat)
      <4>1. IsFiniteSet(1..f[n])
        BY FS_Interval
      <4>2. 1..f[n] \in SUBSET Nat
        OBVIOUS
      <4> QED BY <4>1, <4>2 DEF FiniteSubsetsOf
    <3> QED BY <3>1
  <2>3. ASSUME NEW n \in Nat PROVE <<g[n + 1], g[n]>> \in StrictSubsetOrdering(Nat)
    <3>1. f[n + 1] < f[n] /\ f[n] \in Nat /\ f[n + 1] \in Nat
      BY <2>1
    <3>2. 1..f[n + 1] \subseteq 1..f[n] /\ f[n] \in 1..f[n] /\ f[n] \notin 1..f[n + 1]
      BY <3>1
    <3>3. 1..f[n + 1] # 1..f[n]
      BY <3>2
    <3>4. g[n + 1] = 1..f[n + 1] /\ g[n] = 1..f[n]
      OBVIOUS
    <3>5. g[n + 1] \in SUBSET Nat /\ g[n] \in SUBSET Nat
      <4>1. \A k : 1..k \in SUBSET Nat
        OBVIOUS
      <4> QED BY <3>4, <4>1
    <3> HIDE DEF g
    <3>6. <<g[n + 1], g[n]>> \in (SUBSET Nat) \X (SUBSET Nat)
      BY <3>5
    <3>7. <<g[n + 1], g[n]>>[1] \subseteq <<g[n + 1], g[n]>>[2]
          /\ <<g[n + 1], g[n]>>[1] # <<g[n + 1], g[n]>>[2]
      BY <3>2, <3>3, <3>4
    <3> QED BY <3>2, <3>3, <3>4, <3>5, <3>6, <3>7 DEF StrictSubsetOrdering
  <2>4. IsWellFoundedOn(StrictSubsetOrdering(Nat), FiniteSubsetsOf(Nat))
    BY FS_StrictSubsetOrderingWellFounded
  <2> QED BY <2>2, <2>3, <2>4 DEF IsWellFoundedOn
<1>2. \E x \in T : \A y \in T : ~ (<<y, x>> \in R)
  BY <1>1, WFMin
<1>3. PICK x \in T : \A y \in T : ~ (<<y, x>> \in R)
  BY <1>2
<1>4. \A y \in T : x <= y
  <2>1. SUFFICES ASSUME NEW y \in T, y < x PROVE FALSE
    OBVIOUS
  <2>2. <<y, x>> \in Nat \X Nat /\ <<y, x>>[1] < <<y, x>>[2]
    BY <2>1
  <2> QED BY <2>2, <1>3
<1> QED BY <1>4

(* A bounded set of natural numbers that is not empty has a greatest       *)
(* element, and Max is it.                                                 *)
LEMMA MaxNat ==
  ASSUME NEW T, T \subseteq Nat, T # {}, NEW n \in Nat, \A x \in T : x <= n
  PROVE /\ Max(T) \in T
        /\ \A x \in T : x <= Max(T)
<1> DEFINE D == {d \in Nat : n - d \in T}
<1>1. PICK t \in T : TRUE
  OBVIOUS
<1>2. n - t \in D
  BY <1>1
<1>3. PICK d \in D : \A e \in D : d <= e
  <2>1. D \subseteq Nat /\ D # {}
    BY <1>2
  <2> QED BY <2>1, LeastNat
<1>4. n - d \in T /\ \A x \in T : x <= n - d
  <2>1. n - d \in T
    OBVIOUS
  <2>2. ASSUME NEW x \in T PROVE x <= n - d
    <3>1. n - x \in Nat /\ n - (n - x) = x
      OBVIOUS
    <3>2. n - x \in D
      BY <3>1
    <3>3. d <= n - x
      BY <3>2, <1>3
    <3> QED BY <3>3
  <2> QED BY <2>1, <2>2
<1>5. \E x \in T : \A y \in T : x >= y
  BY <1>4
<1> QED BY <1>5 DEF Max
-----------------------------------------------------------------------------
(* The write-ahead file.                                                   *)

Records == [kind : {"assignment", "event", "ack", "rejection"}, seq : Nat]
FileRecords == [kind : {"assignment", "event", "ack", "rejection", "torn"}, seq : Nat]
Spools  == [ack : Nat, high : Nat, rejected : BOOLEAN]

Unfolds(recs, u, n) ==
  u = [k \in 1..n |-> IF k = 1 THEN OpenedSpool(recs[1].seq) ELSE LoadStep(u[k - 1], recs[k])]

(* The recursion of Replay has a solution on every prefix of a file.       *)
LEMMA ReplayExists ==
  ASSUME NEW recs, NEW n \in Nat
  PROVE \E u : Unfolds(recs, u, n)
<1> DEFINE T == {m \in Nat : ~ \E u : Unfolds(recs, u, m)}
<1>1. SUFFICES ASSUME T # {} PROVE FALSE
  OBVIOUS
<1>2. PICK m \in T : \A k \in T : m <= k
  <2>1. T \subseteq Nat
    OBVIOUS
  <2> QED BY <2>1, <1>1, LeastNat
<1>3. m \in Nat /\ ~ \E u : Unfolds(recs, u, m)
  OBVIOUS
<1>4. m # 0
  <2>1. Unfolds(recs, [k \in 1..0 |-> 0], 0)
    BY DEF Unfolds
  <2> QED BY <2>1, <1>3
<1>5. PICK u : Unfolds(recs, u, m - 1)
  <2>1. m - 1 \in Nat /\ ~(m <= m - 1)
    BY <1>3, <1>4
  <2> QED BY <2>1, <1>2
<1> DEFINE first == OpenedSpool(recs[1].seq)
           v == [k \in 1..m |-> IF k = m THEN (IF k = 1 THEN first ELSE LoadStep(u[k - 1], recs[k]))
                                ELSE u[k]]
<1>6. ASSUME NEW k \in 1..m
      PROVE v[k] = IF k = 1 THEN first ELSE LoadStep(v[k - 1], recs[k])
  <2>1. CASE k = m
    <3>1. CASE k = 1
      BY <2>1, <3>1
    <3>2. CASE k # 1
      <4>1. k - 1 \in 1..m /\ k - 1 # m
        BY <3>2, <2>1, <1>3
      <4>2. v[k - 1] = u[k - 1]
        BY <4>1
      <4>3. v[k] = LoadStep(u[k - 1], recs[k])
        BY <2>1, <3>2
      <4> QED BY <4>2, <4>3, <3>2
    <3> QED BY <3>1, <3>2
  <2>2. CASE k # m
    <3>1. k \in 1..(m - 1) /\ v[k] = u[k]
      BY <2>2, <1>3
    <3>2. u[k] = IF k = 1 THEN first ELSE LoadStep(u[k - 1], recs[k])
      BY <3>1, <1>5 DEF Unfolds
    <3>3. CASE k = 1
      BY <3>1, <3>2, <3>3
    <3>4. CASE k # 1
      <4>1. k - 1 \in 1..m /\ k - 1 # m
        BY <3>1, <3>4, <1>3
      <4>2. v[k - 1] = u[k - 1]
        BY <4>1
      <4> QED BY <3>1, <3>2, <3>4, <4>2
    <3> QED BY <3>3, <3>4
  <2> QED BY <2>1, <2>2
<1>7. v = [k \in 1..m |-> v[k]]
  OBVIOUS
<1>8. Unfolds(recs, v, m)
  <2> HIDE DEF v
  <2> QED BY <1>6, <1>7 DEF Unfolds
<1> QED BY <1>8, <1>3

(* Replay is the fold of LoadStep over the records of the file.            *)
LEMMA ReplayAt ==
  ASSUME NEW recs, Len(recs) \in Nat, NEW k \in 1..Len(recs)
  PROVE Replay(recs)[k] = IF k = 1 THEN OpenedSpool(recs[1].seq)
                          ELSE LoadStep(Replay(recs)[k - 1], recs[k])
<1> DEFINE upto[n \in 1..Len(recs)] ==
             IF n = 1 THEN OpenedSpool(recs[1].seq) ELSE LoadStep(upto[n - 1], recs[n])
<1>1. \E u : u = [n \in 1..Len(recs) |->
                    IF n = 1 THEN OpenedSpool(recs[1].seq) ELSE LoadStep(u[n - 1], recs[n])]
  BY ReplayExists DEF Unfolds
<1>2. upto = [n \in 1..Len(recs) |->
                IF n = 1 THEN OpenedSpool(recs[1].seq) ELSE LoadStep(upto[n - 1], recs[n])]
  BY <1>1, Zenon
<1>3. Replay(recs) = upto
  BY Zenon DEF Replay
<1> HIDE DEF upto
<1>4. upto[k] = IF k = 1 THEN OpenedSpool(recs[1].seq) ELSE LoadStep(upto[k - 1], recs[k])
  BY <1>2
<1> QED BY <1>3, <1>4

(* What was read of a file does not change when a record is appended.      *)
LEMMA ReplayPrefix ==
  ASSUME NEW recs \in Seq(Records), NEW r \in Records, NEW n \in 1..Len(recs)
  PROVE Replay(Append(recs, r))[n] = Replay(recs)[n]
<1> DEFINE more == Append(recs, r)
           T == {m \in 1..Len(recs) : Replay(more)[m] # Replay(recs)[m]}
<1>1. SUFFICES ASSUME T # {} PROVE FALSE
  OBVIOUS
<1>2. /\ Len(recs) \in Nat /\ Len(more) = Len(recs) + 1
      /\ \A m \in 1..Len(recs) : more[m] = recs[m] /\ m \in 1..Len(more)
  OBVIOUS
<1> HIDE DEF more
<1>3. PICK m \in T : \A k \in T : m <= k
  <2>1. T \subseteq Nat
    OBVIOUS
  <2> QED BY <2>1, <1>1, LeastNat
<1>4. m \in 1..Len(recs) /\ Replay(more)[m] # Replay(recs)[m]
  OBVIOUS
<1>5. Replay(more)[m] = IF m = 1 THEN OpenedSpool(more[1].seq)
                        ELSE LoadStep(Replay(more)[m - 1], more[m])
  <2>1. m \in 1..Len(more) /\ Len(more) \in Nat
    BY <1>2, <1>4
  <2> QED BY <2>1, ReplayAt
<1>6. Replay(recs)[m] = IF m = 1 THEN OpenedSpool(recs[1].seq)
                        ELSE LoadStep(Replay(recs)[m - 1], recs[m])
  BY <1>2, <1>4, ReplayAt
<1>7. m # 1
  BY <1>2, <1>4, <1>5, <1>6
<1>8. Replay(more)[m - 1] = Replay(recs)[m - 1]
  <2>1. m - 1 \in 1..Len(recs) /\ ~(m <= m - 1)
    BY <1>4, <1>7
  <2> QED BY <2>1, <1>3
<1> QED BY <1>2, <1>4, <1>5, <1>6, <1>7, <1>8

(* A well-formed file that rebuilds a spool.                               *)
Rebuilds(recs, sp) ==
  /\ recs \in Seq(Records) /\ recs # << >>
  /\ recs[1].kind = "assignment"
  /\ Replay(recs)[Len(recs)] = sp

(* The file of a new assignment rebuilds the spool the assignment opens.   *)
LEMMA RebuildsOpened ==
  ASSUME NEW a \in Nat
  PROVE Rebuilds(OpenedFile(a), OpenedSpool(a))
<1> DEFINE recs == OpenedFile(a)
<1>1. recs = << [kind |-> "assignment", seq |-> a] >>
  BY DEF OpenedFile, Rec
<1>2. /\ recs \in Seq(Records) /\ recs # << >> /\ Len(recs) = 1
      /\ recs[1].kind = "assignment" /\ recs[1].seq = a
  BY <1>1 DEF Records
<1> HIDE DEF recs
<1>3. Replay(recs)[1] = OpenedSpool(recs[1].seq)
  BY <1>2, ReplayAt
<1> QED BY <1>2, <1>3 DEF Rebuilds, recs

(* Appending a record to a file takes its spool one step further.          *)
LEMMA RebuildsAppend ==
  ASSUME NEW recs, NEW sp, Rebuilds(recs, sp), NEW r \in Records
  PROVE Rebuilds(Append(recs, r), LoadStep(sp, r))
<1> DEFINE more == Append(recs, r)
<1>1. recs \in Seq(Records) /\ recs # << >> /\ Len(recs) \in Nat \ {0}
  BY DEF Rebuilds
<1>2. /\ more \in Seq(Records) /\ more # << >> /\ Len(more) = Len(recs) + 1
      /\ more[1] = recs[1] /\ more[Len(more)] = r
  BY <1>1
<1>3. Replay(more)[Len(recs)] = Replay(recs)[Len(recs)]
  BY <1>1, ReplayPrefix
<1> HIDE DEF more
<1>4. Replay(more)[Len(more)] = LoadStep(Replay(more)[Len(more) - 1], more[Len(more)])
  <2>1. Len(more) \in 1..Len(more) /\ Len(more) # 1 /\ Len(more) \in Nat
    BY <1>1, <1>2
  <2> QED BY <2>1, ReplayAt
<1>5. Len(more) - 1 = Len(recs)
  BY <1>1, <1>2
<1> QED BY <1>1, <1>2, <1>3, <1>4, <1>5 DEF Rebuilds, more

(* A spool is never taken for the mark of a corrupt file.                  *)
LEMMA SpoolIsNotCorrupt ==
  ASSUME NEW sp \in Spools
  PROVE sp # Corrupt
<1>1. DOMAIN sp = {"ack", "high", "rejected"}
  BY DEF Spools
<1>2. DOMAIN Corrupt = {"ack", "high", "rejected", "corrupt"}
  BY DEF Corrupt
<1> QED BY <1>1, <1>2

(* Two spools with the same cursors and the same flag are the same.        *)
LEMMA SpoolEqual ==
  ASSUME NEW sp \in Spools, NEW tp \in Spools,
         sp.ack = tp.ack, sp.high = tp.high, sp.rejected = tp.rejected
  PROVE sp = tp
  BY DEF Spools

(* What reading one more record does to a spool that was not rejected.     *)
LEMMA LoadSteps ==
  ASSUME NEW sp \in Spools, ~sp.rejected
  PROVE /\ LoadStep(sp, Rec("event", sp.high + 1)) = AppendSpool(sp)
        /\ \A n \in sp.ack..sp.high : LoadStep(sp, Rec("ack", n)) = AcknowledgeSpool(sp, n)
        /\ Pending(sp) > 0 => LoadStep(sp, Rec("rejection", sp.ack + 1)) = RejectSpool(sp)
<1>1. sp # Corrupt
  BY SpoolIsNotCorrupt
<1>2. sp.ack \in Nat /\ sp.high \in Nat
  BY DEF Spools
<1>3. LoadStep(sp, Rec("event", sp.high + 1)) = AppendSpool(sp)
  BY <1>1, <1>2 DEF LoadStep, Rec
<1>4. ASSUME NEW n \in sp.ack..sp.high
      PROVE LoadStep(sp, Rec("ack", n)) = AcknowledgeSpool(sp, n)
  BY <1>1, <1>2 DEF LoadStep, Rec, AcknowledgeSpool
<1>5. ASSUME Pending(sp) > 0
      PROVE LoadStep(sp, Rec("rejection", sp.ack + 1)) = RejectSpool(sp)
  <2>1. sp.ack + 1 \in (sp.ack + 1)..sp.high
    BY <1>2, <1>5 DEF Pending
  <2> QED BY <1>1, <1>2, <2>1 DEF LoadStep, Rec, RejectSpool
<1> QED BY <1>3, <1>4, <1>5

(* The file that a compaction writes rebuilds the spool it was written of. *)
LEMMA RebuildsCompact ==
  ASSUME NEW sp \in Spools, sp.ack <= sp.high, ~sp.rejected
  PROVE Rebuilds(CompactFile(sp), sp)
<1> DEFINE recs == CompactFile(sp)
           at(n) == [ack |-> sp.ack, high |-> sp.ack + n - 1, rejected |-> FALSE]
           T == {n \in 1..Len(recs) : Replay(recs)[n] # at(n)}
<1>1. sp.ack \in Nat /\ sp.high \in Nat /\ Pending(sp) \in Nat
  BY DEF Spools, Pending
<1>2. /\ recs \in Seq(Records) /\ Len(recs) = Pending(sp) + 1
      /\ recs[1] = Rec("assignment", sp.ack)
      /\ \A n \in 2..Len(recs) : recs[n] = Rec("event", sp.ack + n - 1)
  <2> DEFINE a == << Rec("assignment", sp.ack) >>
             b == [i \in 1..Pending(sp) |-> Rec("event", sp.ack + i)]
  <2>1. a \in Seq(Records) /\ Len(a) = 1 /\ a[1] = Rec("assignment", sp.ack)
    BY <1>1 DEF Rec, Records
  <2>2. b \in Seq(Records) /\ Len(b) = Pending(sp)
        /\ \A i \in 1..Pending(sp) : b[i] = Rec("event", sp.ack + i)
    <3>1. \A i \in 1..Pending(sp) : Rec("event", sp.ack + i) \in Records
      BY <1>1 DEF Rec, Records
    <3> QED BY <1>1, <3>1
  <2>3. recs = a \o b
    BY DEF CompactFile
  <2> HIDE DEF a, b, recs
  <2>4. recs \in Seq(Records) /\ Len(recs) = 1 + Pending(sp) /\ recs[1] = a[1]
        /\ \A i \in 1..Len(recs) : recs[i] = IF i <= 1 THEN a[i] ELSE b[i - 1]
    <3>1. /\ a \o b \in Seq(Records)
          /\ Len(a \o b) = Len(a) + Len(b)
          /\ \A i \in 1..(Len(a) + Len(b)) : (a \o b)[i] = IF i <= Len(a) THEN a[i] ELSE b[i - Len(a)]
      BY <2>1, <2>2, ConcatProperties
    <3>2. 1 \in 1..(1 + Pending(sp))
      BY <1>1
    <3> QED BY <1>1, <2>1, <2>2, <2>3, <3>1, <3>2
  <2>5. ASSUME NEW n \in 2..Len(recs) PROVE recs[n] = Rec("event", sp.ack + n - 1)
    <3>1. n - 1 \in 1..Pending(sp) /\ sp.ack + (n - 1) = sp.ack + n - 1
      BY <1>1, <2>4
    <3>2. recs[n] = b[n - 1]
      BY <1>1, <2>4
    <3> QED BY <2>2, <3>1, <3>2
  <2> QED BY <1>1, <2>1, <2>4, <2>5
<1> HIDE DEF recs
<1>3. Len(recs) \in Nat /\ 1 \in 1..Len(recs)
  BY <1>1, <1>2
<1>4. T = {}
  <2>1. SUFFICES ASSUME T # {} PROVE FALSE
    OBVIOUS
  <2>2. PICK n \in T : \A k \in T : n <= k
    <3>1. T \subseteq Nat
      BY <1>3
    <3> QED BY <3>1, <2>1, LeastNat
  <2>3. n \in 1..Len(recs) /\ Replay(recs)[n] # at(n)
    OBVIOUS
  <2>4. Replay(recs)[n] = IF n = 1 THEN OpenedSpool(recs[1].seq)
                          ELSE LoadStep(Replay(recs)[n - 1], recs[n])
    BY <1>3, <2>3, ReplayAt
  <2>5. n # 1
    <3>1. at(1) = OpenedSpool(sp.ack)
      <4>1. sp.ack + 1 - 1 = sp.ack
        BY <1>1
      <4> QED BY <4>1 DEF OpenedSpool
    <3>2. recs[1].seq = sp.ack
      BY <1>2 DEF Rec
    <3> HIDE DEF at
    <3> QED BY <2>3, <2>4, <3>1, <3>2
  <2>6. Replay(recs)[n - 1] = at(n - 1)
    <3>1. n - 1 \in 1..Len(recs) /\ ~(n <= n - 1)
      BY <1>3, <2>3, <2>5
    <3> QED BY <3>1, <2>2
  <2>7. recs[n] = Rec("event", at(n - 1).high + 1)
    <3>1. n \in 2..Len(recs) /\ sp.ack + n - 1 = sp.ack + (n - 1) - 1 + 1
      BY <1>1, <1>3, <2>3, <2>5
    <3> QED BY <1>2, <3>1
  <2>8. at(n - 1) \in Spools /\ ~at(n - 1).rejected
    BY <1>1, <1>3, <2>3, <2>5 DEF Spools
  <2>9. LoadStep(at(n - 1), recs[n]) = AppendSpool(at(n - 1))
    <3> HIDE DEF at
    <3> QED BY <2>7, <2>8, LoadSteps
  <2>10. AppendSpool(at(n - 1)) = at(n)
    <3>1. sp.ack + (n - 1) - 1 + 1 = sp.ack + n - 1
      BY <1>1, <1>3, <2>3
    <3>2. at(n - 1).high + 1 = at(n).high
      BY <3>1
    <3>3. AppendSpool(at(n - 1)) = [at(n - 1) EXCEPT !.high = at(n).high]
      BY <3>2 DEF AppendSpool
    <3>4. at(n) \in Spools
      BY <1>1, <1>3, <2>3 DEF Spools
    <3> HIDE DEF at
    <3>5. AppendSpool(at(n - 1)) \in Spools
          /\ AppendSpool(at(n - 1)).ack = at(n - 1).ack
          /\ AppendSpool(at(n - 1)).high = at(n).high
          /\ AppendSpool(at(n - 1)).rejected = at(n - 1).rejected
      BY <2>8, <3>3, <3>4 DEF Spools
    <3>6. at(n - 1).ack = at(n).ack /\ at(n - 1).rejected = at(n).rejected
      BY DEF at
    <3> QED BY <3>4, <3>5, <3>6, SpoolEqual
  <2> HIDE DEF at
  <2> QED BY <2>3, <2>4, <2>5, <2>6, <2>9, <2>10
<1>5. Replay(recs)[Len(recs)] = at(Len(recs))
  <2>1. Len(recs) \in 1..Len(recs)
    BY <1>3
  <2> HIDE DEF at
  <2> QED BY <1>4, <2>1
<1>6. at(Len(recs)) = sp
  <2>1. sp = [ack |-> sp.ack, high |-> sp.high, rejected |-> sp.rejected] /\ sp.rejected = FALSE
    BY DEF Spools
  <2>2. sp.ack + (Pending(sp) + 1) - 1 = sp.high
    BY <1>1 DEF Pending
  <2> QED BY <1>2, <2>1, <2>2
<1>7. recs # << >> /\ recs[1].kind = "assignment"
  BY <1>2, <1>3 DEF Rec
<1> HIDE DEF at
<1> QED BY <1>2, <1>5, <1>6, <1>7 DEF Rebuilds, recs

(* The file as a crash may leave it, with a record torn at its end, is     *)
(* truncated to whole records and rebuilds the spool they stand for.       *)
LEMMA LoadRebuilds ==
  ASSUME NEW recs, NEW sp \in Spools, Rebuilds(recs, sp),
         NEW file \in {recs, Append(recs, Torn)}
  PROVE /\ Complete(file) = recs
        /\ Pending(sp) <= MaxPending => Load(file) = sp
<1>1. recs \in Seq(Records) /\ recs # << >> /\ Len(recs) \in Nat \ {0}
  BY DEF Rebuilds
<1>2. Complete(file) = recs
  <2>1. CASE file = recs
    <3>1. recs[Len(recs)] \in Records
      BY <1>1
    <3>2. recs[Len(recs)] # Torn
      BY <3>1 DEF Records, Torn, Rec
    <3> QED BY <2>1, <3>2 DEF Complete
  <2>2. CASE file = Append(recs, Torn)
    <3>1. Len(file) = Len(recs) + 1 /\ file[Len(file)] = Torn
          /\ \A i \in 1..Len(recs) : file[i] = recs[i]
      BY <1>1, <2>2
    <3>2. SubSeq(file, 1, Len(file) - 1) = recs
      <4>1. Len(file) - 1 = Len(recs)
        BY <1>1, <3>1
      <4>2. SubSeq(file, 1, Len(recs)) = [i \in 1..Len(recs) |-> file[i]]
        BY <1>1, <3>1
      <4>3. recs = [i \in 1..Len(recs) |-> recs[i]]
        BY <1>1
      <4> QED BY <3>1, <4>1, <4>2, <4>3
    <3> QED BY <3>1, <3>2 DEF Complete
  <2> QED BY <2>1, <2>2
<1>3. ASSUME Pending(sp) <= MaxPending PROVE Load(file) = sp
  <2>1. ~(Pending(sp) > MaxPending)
    <3>1. Pending(sp) \in Int /\ MaxPending \in Nat
      BY MaxPendingAssumption DEF Pending, Spools
    <3> QED BY <1>3, <3>1
  <2> QED BY <1>2, <2>1 DEF Rebuilds, Load
<1> QED BY <1>2, <1>3
-----------------------------------------------------------------------------
(* The inductive invariant of the pipeline.                                *)

Kinds       == {"worker", "terminal"}
Entries     == [by : Fences, kind : Kinds]
Events      == [seq : Nat, by : Fences, kind : Kinds]
Batches     == [by : Fences, lo : Nat, hi : Nat, via : {"batch", "recovery"}]
Replies     == {None, "ack", "stale", "error"}
Cursors     == [fence : 0..MaxFence, lease : 0..MaxFence, persisted : Nat, projected : Nat, floor : Nat]
Workers     == [phase : WorkerPhases, file : Seq(FileRecords), spool : Spools,
                base : Nat, sent : Nat, flight : Nat]
Settlements == [ready : {"no", "yes", "threw"}, prev : Nat, read : SUBSET Events,
                outcome : {None, "completed", "failed"}, transcript : SUBSET Events]

PipeTypes ==
  /\ external \in BOOLEAN /\ gateway \in BOOLEAN
  /\ worker \in [Fences -> Workers]
  /\ net \subseteq Batches
  /\ reply \in [Fences -> Replies]
  /\ db \in Cursors
  /\ settle \in [Fences -> Settlements]
  /\ kafka \in Seq(Batches)
  /\ proj \in [pos : Nat, stored : Nat, dead : BOOLEAN]
  /\ live \in [last : Nat, events : SUBSET Events, batched : SUBSET Nat, lost : BOOLEAN]
  /\ jobs \in [Fences -> {None, "pending", "again", "trimmed", "done"}]
  /\ log \in Seq(Entries)

(* The log is a sequence of Turns in the order of their fences, each       *)
(* closed by its terminal event before the next begins.                    *)
LogOK ==
  /\ db.persisted = Len(log)
  /\ db.lease \in {0, db.fence}
  /\ \A i \in DOMAIN log : log[i].by <= db.fence
  /\ \A i, j \in DOMAIN log : i <= j => log[i].by <= log[j].by
  /\ \A s \in Terminals : \A i \in DOMAIN log : s < i => log[s].by < log[i].by
  /\ \A f \in Fences : f < db.fence => Settled(f)
  /\ db.lease # 0 => ~Settled(db.fence)

(* Floor, projected and persisted cursor follow each other, and no         *)
(* terminal event is ahead of the projection.                              *)
CursorsOK ==
  /\ db.floor <= db.projected /\ db.projected <= db.persisted
  /\ ~external => db.projected = db.persisted
  /\ \A s \in Terminals : s <= db.projected
  /\ db.floor = 0 \/ db.floor \in Terminals
  /\ \A f \in Fences : jobs[f] # None => external /\ Settled(f)

(* Each Turn has its own window of sequence numbers, from the event its    *)
(* spool began at; while the last one is open, what follows is its own.    *)
Ceiling(f) == worker[f].base + PerTurn
WindowsOK ==
  /\ db.fence = 0 => db.persisted = 0
  /\ \A f \in Fences :
       IF db.fence < f THEN worker[f] = FreshWorker /\ reply[f] = None
       ELSE /\ worker[f].phase # "none"
            /\ worker[f].base <= db.persisted
            /\ worker[f].base <= (f - 1) * (PerTurn + 1)
  /\ \A m \in net : /\ m.by <= db.fence
                    /\ worker[m.by].base < m.lo /\ m.lo <= m.hi /\ m.hi <= Ceiling(m.by)
  /\ \A f \in Fences : f = db.fence =>
       IF Settled(f) THEN db.persisted <= Ceiling(f) + 1
       ELSE /\ db.persisted <= Ceiling(f)
            /\ \A s \in (worker[f].base + 1)..db.persisted : log[s] = Entry(f, "worker")

(* Sequence numbers lo to hi are in the log, written under fence f.        *)
Durable(f, lo, hi) ==
  \A s \in lo..hi : s <= db.persisted /\ log[s] = Entry(f, "worker")

Sending == {"running", "draining", "aborting", "recovering"}

(* The cursors of a spool and of its publisher.                            *)
CursorsOf(w) ==
  /\ w.base <= w.spool.ack /\ w.spool.ack <= w.spool.high
  /\ w.spool.high <= w.base + PerTurn
  /\ Pending(w.spool) <= MaxPending
  /\ w.phase \notin {"rejected", "quarantined", "dead"} => ~w.spool.rejected
  /\ w.flight # 0 => /\ w.phase \in Sending
                     /\ w.flight = w.spool.ack + 1
                     /\ w.flight <= w.sent /\ w.sent <= w.spool.high
                     /\ w.sent - w.flight < MaxBatch
  /\ w.flight = 0 /\ w.phase \in Sending => w.sent = w.spool.ack

(* The file rebuilds the spool; after a crash perhaps with the event that  *)
(* was being appended, or with the remains of one.                         *)
FileOf(w) ==
  IF w.phase # "dead" THEN Rebuilds(w.file, w.spool)
  ELSE LET recs == Complete(w.file) IN
       /\ w.file \in {recs, Append(recs, Torn)}
       /\ \/ Rebuilds(recs, w.spool)
          \/ /\ Rebuilds(recs, AppendSpool(w.spool)) /\ CanAppend(w.spool)
             /\ w.spool.high < w.base + PerTurn

SpoolOK(f, w, r) ==
  /\ CursorsOf(w)
  /\ FileOf(w)
  /\ w.flight = 0 => r = None
  /\ Durable(f, w.base + 1, w.spool.ack)
  /\ r = "ack" => Durable(f, w.flight, w.sent)

SpoolsOK == \A f \in Fences : worker[f].phase # "none" => SpoolOK(f, worker[f], reply[f])

InBatch(s, i) == s \in kafka[i].lo..kafka[i].hi

(* With a broker, every accepted worker event is in one of its batches.    *)
KafkaOK ==
  /\ external => \A s \in 1..db.persisted : s \in Terminals \/ \E i \in DOMAIN kafka : InBatch(s, i)
  /\ \A i \in DOMAIN kafka : /\ 1 <= kafka[i].lo /\ kafka[i].lo <= kafka[i].hi
                             /\ kafka[i].by <= db.fence
  /\ ~external => kafka = << >>
  /\ proj.pos \in 1..(proj.stored + 1) /\ proj.stored <= Len(kafka)

Excused(s) == \E f \in Fences : jobs[f] \in {"trimmed", "again"} /\ s <= TerminalOf(f)

(* The live stream holds events of the broker's batches only; it has all   *)
(* of the replay window, or what it lacks was lost or trimmed; and what it *)
(* lacks is a prefix.                                                      *)
LiveOK ==
  /\ \A e \in live.events : \E i \in DOMAIN kafka :
        InBatch(e.seq, i) /\ e.by = kafka[i].by /\ e.kind = "worker"
  /\ external => \A s \in (db.floor + 1)..db.projected :
        s \in Terminals \/ live.lost \/ s \in Seqs(live.events) \/ Excused(s)
  /\ external => \A s, t \in 1..db.projected :
        s <= t /\ s \in Seqs(live.events) => t \in Terminals \/ t \in Seqs(live.events)

PipeInv == PipeTypes /\ LogOK /\ CursorsOK /\ WindowsOK /\ SpoolsOK /\ KafkaOK /\ LiveOK
-----------------------------------------------------------------------------
(* Steps of a Worker: the stores do not change.                            *)

(* A publication that the Worker of fence f may have sent.                 *)
Publication(f, w, m) ==
  m \in Batches /\ m.by = f /\ w.base < m.lo /\ m.lo <= m.hi /\ m.hi <= w.base + PerTurn

(* One Worker takes a step that keeps its spool in order.                  *)
WorkerMoves(f, w, r) ==
  /\ worker[f].phase # "none"
  /\ worker' = [worker EXCEPT ![f] = w]
  /\ reply' = [reply EXCEPT ![f] = r]
  /\ w \in Workers /\ r \in Replies
  /\ w.phase # "none" /\ w.base = worker[f].base
  /\ SpoolOK(f, w, r)
  /\ \A m \in net' : m \in net \/ Publication(f, w, m)
  /\ external' = external
  /\ db' = db /\ settle' = settle /\ log' = log
  /\ kafka' = kafka /\ proj' = proj /\ live' = live /\ jobs' = jobs /\ gateway' = gateway

(* Such a step keeps the invariant of the pipeline.                        *)
LEMMA WorkerMovesKeep ==
  ASSUME PipeInv, NEW f \in Fences, NEW w, NEW r, WorkerMoves(f, w, r)
  PROVE PipeInv'
<1> USE DEF WorkerMoves
<1>1. PipeTypes'
  BY DEF PipeInv, PipeTypes, Publication
<1>2. LogOK' /\ CursorsOK' /\ KafkaOK' /\ LiveOK'
  BY DEF PipeInv, LogOK, CursorsOK, KafkaOK, LiveOK, Settled, Terminals, Excused, TerminalOf, InBatch
<1>3. /\ worker'[f] = w /\ reply'[f] = r
      /\ \A g \in Fences \ {f} : worker'[g] = worker[g] /\ reply'[g] = reply[g]
      /\ \A g \in Fences : worker'[g].base = worker[g].base
  BY DEF PipeInv, PipeTypes
<1>4. WindowsOK'
  <2>1. f <= db.fence /\ db.fence \in Nat /\ f \in Nat
    BY DEF PipeInv, PipeTypes, Cursors, WindowsOK, FreshWorker, Fences
  <2>2. db.fence = 0 => db.persisted = 0
    BY DEF PipeInv, WindowsOK
  <2>3. ASSUME NEW g \in Fences
        PROVE IF db.fence < g THEN worker'[g] = FreshWorker /\ reply'[g] = None
              ELSE /\ worker'[g].phase # "none"
                   /\ worker'[g].base <= db.persisted
                   /\ worker'[g].base <= (g - 1) * (PerTurn + 1)
    <3>1. ~(db.fence < f)
      BY <2>1
    <3>2. CASE g = f
      <4>1. worker[f].base <= db.persisted /\ worker[f].base <= (f - 1) * (PerTurn + 1)
        BY <3>1 DEF PipeInv, WindowsOK
      <4> QED BY <1>3, <3>1, <3>2, <4>1
    <3>3. CASE g # f
      BY <1>3, <3>3 DEF PipeInv, WindowsOK
    <3> QED BY <3>2, <3>3
  <2>4. ASSUME NEW m \in net'
        PROVE /\ m.by <= db.fence
              /\ worker'[m.by].base < m.lo /\ m.lo <= m.hi /\ m.hi <= worker'[m.by].base + PerTurn
    <3>1. CASE m \in net
      <4>1. m.by \in Fences
        BY <3>1 DEF PipeInv, PipeTypes, Batches
      <4> QED BY <3>1, <4>1, <1>3 DEF PipeInv, WindowsOK, Ceiling
    <3>2. CASE Publication(f, w, m)
      BY <3>2, <1>3, <2>1 DEF Publication
    <3> QED BY <3>1, <3>2
  <2>5. ASSUME NEW g \in Fences, g = db.fence
        PROVE IF Settled(g) THEN db.persisted <= worker'[g].base + PerTurn + 1
              ELSE /\ db.persisted <= worker'[g].base + PerTurn
                   /\ \A s \in (worker'[g].base + 1)..db.persisted : log[s] = Entry(g, "worker")
    BY <2>5, <1>3 DEF PipeInv, WindowsOK, Ceiling
  <2>6. \A g \in Fences : Settled(g)' = Settled(g)
    BY DEF Settled, Terminals
  <2> QED BY <2>2, <2>3, <2>4, <2>5, <2>6 DEF WindowsOK, Ceiling
<1>5. SpoolsOK'
  <2>1. SUFFICES ASSUME NEW g \in Fences, worker'[g].phase # "none"
                 PROVE SpoolOK(g, worker[g], reply[g])'
    BY DEF SpoolsOK
  <2>2. SpoolOK(g, worker'[g], reply'[g])
    BY <1>3, <2>1 DEF PipeInv, SpoolsOK
  <2>3. Durable(g, worker'[g].base + 1, worker'[g].spool.ack)
        /\ (reply'[g] = "ack" => Durable(g, worker'[g].flight, worker'[g].sent))
    BY <2>2 DEF SpoolOK
  <2>4. Durable(g, worker[g].base + 1, worker[g].spool.ack)'
        /\ (reply'[g] = "ack" => Durable(g, worker[g].flight, worker[g].sent)')
    BY <2>3 DEF Durable
  <2> QED BY <2>2, <2>4 DEF SpoolOK
<1> QED BY <1>1, <1>2, <1>4, <1>5 DEF PipeInv

(* What the invariant says of a Worker that has a spool.                   *)
LEMMA WorkerFacts ==
  ASSUME PipeInv, NEW f \in Fences
  PROVE /\ worker[f] \in Workers /\ reply[f] \in Replies
        /\ worker[f].phase # "none" => SpoolOK(f, worker[f], reply[f]) /\ f <= db.fence
        /\ worker[f].phase = "none" => worker[f] = FreshWorker /\ reply[f] = None
  BY DEF PipeInv, PipeTypes, Cursors, SpoolsOK, WindowsOK, FreshWorker, Fences

(* The numbers in a Worker's record.                                       *)
LEMMA WorkerNumbers ==
  ASSUME NEW w \in Workers
  PROVE /\ w.base \in Nat /\ w.sent \in Nat /\ w.flight \in Nat
        /\ w.spool \in Spools /\ w.spool.ack \in Nat /\ w.spool.high \in Nat
        /\ w.spool.rejected \in BOOLEAN
        /\ w.phase \in WorkerPhases
        /\ w.file \in Seq(FileRecords)
        /\ PerTurn \in Nat \ {0} /\ MaxBatch \in Nat \ {0} /\ MaxPending \in Nat \ {0}
  BY PipelineAssumption, MaxPendingAssumption DEF Workers, Spools

(* The records of a file, the one a crash may tear included.               *)
LEMMA FileTypes ==
  /\ Records \subseteq FileRecords
  /\ Torn \in FileRecords
  /\ \A recs \in Seq(Records) : recs \in Seq(FileRecords)
<1>1. Records \subseteq FileRecords /\ Torn \in FileRecords
  BY DEF Records, FileRecords, Torn, Rec
<1> QED BY <1>1

(* Appending an event keeps the spool within its bounds.                   *)
LEMMA AppendSpools ==
  ASSUME NEW sp \in Spools, CanAppend(sp)
  PROVE /\ AppendSpool(sp) \in Spools
        /\ AppendSpool(sp).ack = sp.ack /\ AppendSpool(sp).high = sp.high + 1
        /\ ~AppendSpool(sp).rejected /\ ~sp.rejected
        /\ sp.ack <= sp.high => Pending(AppendSpool(sp)) <= MaxPending
  BY MaxPendingAssumption DEF AppendSpool, Spools, CanAppend, Pending

(* Produce keeps the spool in order: the record goes to the file first.    *)
LEMMA ProduceKeeps ==
  ASSUME PipeInv, NEW f \in Fences, Produce(f)
  PROVE PipeInv'
<1> DEFINE w == worker[f]
           sp == AppendSpool(w.spool)
<1>1. /\ w \in Workers /\ w.phase = "running" /\ SpoolOK(f, w, reply[f])
      /\ w.spool.high < w.base + PerTurn
      /\ w.phase # "none"
  BY WorkerFacts DEF Produce
<1>2. /\ reply' = reply /\ net' = net /\ external' = external
      /\ db' = db /\ settle' = settle /\ log' = log
      /\ kafka' = kafka /\ proj' = proj /\ live' = live /\ jobs' = jobs /\ gateway' = gateway
  BY DEF Produce, storeVars, liveVars
<1>3. reply' = [reply EXCEPT ![f] = reply[f]] /\ reply[f] \in Replies
  BY <1>2 DEF PipeInv, PipeTypes
<1>4. CASE CanAppend(w.spool)
  <2> DEFINE v == [w EXCEPT !.file = AppendFile(w.file, w.spool), !.spool = sp]
  <2>1. worker' = [worker EXCEPT ![f] = v]
    BY <1>4 DEF Produce
  <2> HIDE DEF w
  <2>2. /\ sp \in Spools /\ sp.ack = w.spool.ack /\ sp.high = w.spool.high + 1 /\ ~sp.rejected
        /\ ~w.spool.rejected
        /\ w.spool.ack <= w.spool.high => Pending(sp) <= MaxPending
    BY <1>1, <1>4, WorkerNumbers, AppendSpools
  <2> HIDE DEF sp
  <2>3. Rebuilds(w.file, w.spool)
    BY <1>1 DEF SpoolOK, FileOf
  <2>4. Rebuilds(AppendFile(w.file, w.spool), sp) /\ AppendFile(w.file, w.spool) \in Seq(Records)
    <3>1. Rec("event", w.spool.high + 1) \in Records
      BY <1>1, WorkerNumbers DEF Rec, Records
    <3>2. LoadStep(w.spool, Rec("event", w.spool.high + 1)) = sp
      BY <1>1, <2>2, WorkerNumbers, LoadSteps DEF sp
    <3>3. Rebuilds(AppendFile(w.file, w.spool), sp)
      BY <2>3, <3>1, <3>2, RebuildsAppend DEF AppendFile
    <3> QED BY <3>3 DEF Rebuilds
  <2>5. AppendFile(w.file, w.spool) \in Seq(FileRecords)
    BY <2>4, FileTypes
  <2>6. v \in Workers /\ v.phase = "running" /\ v.base = w.base /\ v.sent = w.sent /\ v.flight = w.flight
        /\ v.spool = sp /\ v.file = AppendFile(w.file, w.spool)
    BY <1>1, <2>2, <2>5 DEF Workers
  <2> HIDE DEF v
  <2>7. CursorsOf(v)
    <3>1. CursorsOf(w)
      BY <1>1 DEF SpoolOK
    <3>2. w.spool.ack <= w.spool.high /\ Pending(sp) <= MaxPending
      BY <2>2, <3>1 DEF CursorsOf
    <3>3. /\ w.base \in Nat /\ w.sent \in Nat /\ w.flight \in Nat
          /\ w.spool.ack \in Nat /\ w.spool.high \in Nat /\ PerTurn \in Nat
      BY <1>1, WorkerNumbers
    <3>7. w.base <= sp.ack
      BY <2>2, <3>1 DEF CursorsOf
    <3>4. sp.ack <= sp.high /\ sp.high <= w.base + PerTurn
      BY <1>1, <2>2, <3>2, <3>3
    <3>5. v.flight # 0 => /\ v.phase \in Sending
                          /\ v.flight = sp.ack + 1
                          /\ v.flight <= v.sent /\ v.sent <= sp.high
                          /\ v.sent - v.flight < MaxBatch
      <4>1. w.flight # 0 => /\ w.flight = w.spool.ack + 1
                            /\ w.flight <= w.sent /\ w.sent <= w.spool.high
                            /\ w.sent - w.flight < MaxBatch
        BY <3>1 DEF CursorsOf
      <4>2. w.sent <= w.spool.high => w.sent <= w.spool.high + 1
        BY <3>3
      <4> QED BY <2>2, <2>6, <4>1, <4>2 DEF Sending
    <3>6. v.flight = 0 /\ v.phase \in Sending => v.sent = sp.ack
      BY <1>1, <2>2, <2>6, <3>1 DEF CursorsOf, Sending
    <3> QED BY <2>2, <2>6, <3>2, <3>4, <3>5, <3>6, <3>7 DEF CursorsOf
  <2>8. SpoolOK(f, v, reply[f])
    BY <1>1, <2>2, <2>4, <2>6, <2>7 DEF SpoolOK, FileOf
  <2>9. WorkerMoves(f, v, reply[f])
    BY <1>1, <1>2, <1>3, <2>1, <2>6, <2>8 DEF WorkerMoves, w
  <2> QED BY <2>9, WorkerMovesKeep
<1>5. CASE ~CanAppend(w.spool)
  <2> DEFINE v == [w EXCEPT !.phase = "aborting"]
  <2>1. worker' = [worker EXCEPT ![f] = v]
    BY <1>5 DEF Produce
  <2> HIDE DEF w
  <2>2. v \in Workers /\ v.phase = "aborting" /\ v.base = w.base /\ v.sent = w.sent /\ v.flight = w.flight
        /\ v.spool = w.spool /\ v.file = w.file
    BY <1>1 DEF Workers, WorkerPhases
  <2> HIDE DEF v
  <2>3. SpoolOK(f, v, reply[f])
    BY <1>1, <2>2 DEF SpoolOK, CursorsOf, FileOf, Sending
  <2>4. WorkerMoves(f, v, reply[f])
    BY <1>1, <1>2, <1>3, <2>1, <2>2, <2>3 DEF WorkerMoves, w
  <2> QED BY <2>4, WorkerMovesKeep
<1> QED BY <1>4, <1>5

(* Flush puts a batch of pending events in flight.                         *)
LEMMA FlushKeeps ==
  ASSUME PipeInv, NEW f \in Fences, Flush(f)
  PROVE PipeInv'
<1> DEFINE w == worker[f]
<1>1. PICK hi \in (w.sent + 1)..w.spool.high :
         /\ hi - w.sent <= MaxBatch
         /\ net' = net \cup {[by |-> f, lo |-> w.sent + 1, hi |-> hi, via |-> "batch"]}
         /\ worker' = [worker EXCEPT ![f].sent = hi, ![f].flight = w.sent + 1]
  BY DEF Flush
<1> DEFINE m == [by |-> f, lo |-> w.sent + 1, hi |-> hi, via |-> "batch"]
           v == [w EXCEPT !.sent = hi, !.flight = w.sent + 1]
<1>2. /\ w \in Workers /\ w.phase \in {"running", "draining", "aborting"} /\ w.flight = 0
      /\ w.phase # "none" /\ SpoolOK(f, w, reply[f])
  BY WorkerFacts DEF Flush
<1>3. worker' = [worker EXCEPT ![f] = v]
  BY <1>1, <1>2 DEF PipeInv, PipeTypes
<1>4. /\ reply' = reply /\ external' = external
      /\ db' = db /\ settle' = settle /\ log' = log
      /\ kafka' = kafka /\ proj' = proj /\ live' = live /\ jobs' = jobs /\ gateway' = gateway
  BY DEF Flush, storeVars, liveVars
<1>5. reply' = [reply EXCEPT ![f] = reply[f]] /\ reply[f] \in Replies
  BY <1>4 DEF PipeInv, PipeTypes
<1> HIDE DEF w
<1>6. hi \in Nat /\ w.sent + 1 \in Nat /\ w.sent + 1 <= hi /\ hi <= w.spool.high
  BY <1>2, WorkerNumbers
<1>7. v \in Workers /\ v.phase = w.phase /\ v.base = w.base /\ v.sent = hi /\ v.flight = w.sent + 1
      /\ v.spool = w.spool /\ v.file = w.file
  BY <1>2, <1>6 DEF Workers
<1> HIDE DEF v
<1>8. Publication(f, v, m)
  <2>1. m \in Batches
    BY <1>6 DEF Batches
  <2>2. /\ w.base \in Nat /\ w.sent \in Nat /\ w.spool.ack \in Nat /\ w.spool.high \in Nat
        /\ PerTurn \in Nat
    BY <1>2, WorkerNumbers
  <2>3. w.base <= w.spool.ack /\ w.spool.high <= w.base + PerTurn /\ w.sent = w.spool.ack
    BY <1>2 DEF SpoolOK, CursorsOf, Sending
  <2>4. w.base < w.sent + 1 /\ hi <= w.base + PerTurn
    BY <1>6, <2>2, <2>3
  <2> QED BY <1>6, <1>7, <2>1, <2>4 DEF Publication
<1>9. SpoolOK(f, v, reply[f])
  <2>1. reply[f] = None
    BY <1>2 DEF SpoolOK
  <2>2. CursorsOf(v)
    BY <1>2, <1>1, <1>6, <1>7, WorkerNumbers DEF SpoolOK, CursorsOf, Sending
  <2> QED BY <1>2, <1>7, <2>1, <2>2 DEF SpoolOK, FileOf, None
<1>10. WorkerMoves(f, v, reply[f])
  <2>1. \A n \in net' : n \in net \/ Publication(f, v, n)
    BY <1>1, <1>8
  <2> QED BY <1>2, <1>3, <1>4, <1>5, <1>7, <1>9, <2>1 DEF WorkerMoves, w
<1> QED BY <1>10, WorkerMovesKeep

(* An acknowledgement drops from the spool what the log has, and the file  *)
(* that results, compacted or not, rebuilds the shorter spool.             *)
LEMMA AcknowledgedKeeps ==
  ASSUME PipeInv, NEW f \in Fences, Acknowledged(f)
  PROVE PipeInv'
<1> DEFINE w == worker[f]
           sp == AcknowledgeSpool(w.spool, w.sent)
<1>1. PICK big \in BOOLEAN :
          worker' = [worker EXCEPT ![f] =
                       [w EXCEPT !.flight = 0,
                                 !.file = AcknowledgeFile(w.file, w.spool, w.sent, big),
                                 !.spool = AcknowledgeSpool(w.spool, w.sent)]]
  BY DEF Acknowledged
<1> DEFINE file == AcknowledgeFile(w.file, w.spool, w.sent, big)
           v == [w EXCEPT !.flight = 0, !.file = file, !.spool = sp]
<1>2. /\ w \in Workers /\ w.phase \in Sending /\ w.flight # 0 /\ reply[f] = "ack"
      /\ w.phase # "none" /\ SpoolOK(f, w, reply[f])
  <2>1. w.flight # 0 /\ reply[f] = "ack"
    BY DEF Acknowledged
  <2>2. w.phase # "none"
    BY <2>1, WorkerFacts DEF None
  <2> QED BY <2>1, <2>2, WorkerFacts DEF SpoolOK, CursorsOf, Sending
<1>3. worker' = [worker EXCEPT ![f] = v]
  BY <1>1
<1>4. /\ net' = net /\ external' = external /\ reply' = [reply EXCEPT ![f] = None]
      /\ db' = db /\ settle' = settle /\ log' = log
      /\ kafka' = kafka /\ proj' = proj /\ live' = live /\ jobs' = jobs /\ gateway' = gateway
  BY DEF Acknowledged, storeVars, liveVars
<1> HIDE DEF w
<1>5. /\ w.base <= w.spool.ack /\ w.spool.ack < w.sent /\ w.sent <= w.spool.high
      /\ w.spool.high <= w.base + PerTurn /\ w.flight = w.spool.ack + 1
      /\ Pending(w.spool) <= MaxPending /\ ~w.spool.rejected
  BY <1>2, WorkerNumbers DEF SpoolOK, CursorsOf, Sending
<1>6. /\ sp \in Spools /\ sp.ack = w.sent /\ sp.high = w.spool.high /\ ~sp.rejected
      /\ Pending(sp) <= MaxPending
  <2>1. /\ w.spool \in Spools /\ w.sent \in Nat /\ w.spool.ack \in Nat /\ w.spool.high \in Nat
        /\ MaxPending \in Nat
    BY <1>2, WorkerNumbers
  <2>2. sp \in Spools /\ sp.ack = w.sent /\ sp.high = w.spool.high /\ ~sp.rejected
    BY <1>5, <2>1 DEF AcknowledgeSpool, Spools
  <2>3. w.spool.high - w.spool.ack <= MaxPending
    BY <1>5 DEF Pending
  <2>4. w.spool.high - w.sent <= MaxPending
    BY <1>5, <2>1, <2>3
  <2> QED BY <2>2, <2>4 DEF Pending
<1>7. Rebuilds(file, sp)
  <2>1. Rebuilds(w.file, w.spool)
    BY <1>2 DEF SpoolOK, FileOf, Sending
  <2>2. CASE Pending(sp) = 0 \/ big
    <3>1. file = CompactFile(sp)
      BY <2>2, <1>5, WorkerNumbers, <1>2 DEF AcknowledgeFile
    <3> QED BY <3>1, <1>5, <1>6, RebuildsCompact
  <2>3. CASE ~(Pending(sp) = 0 \/ big)
    <3>1. file = Append(w.file, Rec("ack", w.sent))
      BY <2>3, <1>5, WorkerNumbers, <1>2 DEF AcknowledgeFile
    <3>2. Rec("ack", w.sent) \in Records
      BY <1>2, WorkerNumbers DEF Rec, Records
    <3>3. LoadStep(w.spool, Rec("ack", w.sent)) = sp
      <4>1. w.sent \in w.spool.ack..w.spool.high
        BY <1>2, <1>5, WorkerNumbers
      <4> QED BY <1>2, <1>5, <4>1, WorkerNumbers, LoadSteps
    <3> QED BY <2>1, <3>1, <3>2, <3>3, RebuildsAppend
  <2> QED BY <2>2, <2>3
<1>8. file \in Seq(FileRecords)
  BY <1>7, FileTypes DEF Rebuilds
<1> HIDE DEF file, sp
<1>9. v \in Workers /\ v.phase = w.phase /\ v.base = w.base /\ v.sent = w.sent /\ v.flight = 0
      /\ v.spool = sp /\ v.file = file
  BY <1>2, <1>6, <1>8 DEF Workers
<1> HIDE DEF v
<1>10. Durable(f, v.base + 1, v.spool.ack)
  <2>1. Durable(f, w.base + 1, w.spool.ack) /\ Durable(f, w.flight, w.sent)
    BY <1>2 DEF SpoolOK
  <2>2. \A s \in (w.base + 1)..w.sent : s \in (w.base + 1)..w.spool.ack \/ s \in w.flight..w.sent
    BY <1>2, <1>5, WorkerNumbers
  <2> QED BY <1>6, <1>9, <2>1, <2>2 DEF Durable
<1>11. SpoolOK(f, v, None)
  <2>1. CursorsOf(v)
    BY <1>2, <1>5, <1>6, <1>9, WorkerNumbers DEF CursorsOf, Sending
  <2> QED BY <1>2, <1>7, <1>9, <1>10, <2>1 DEF SpoolOK, FileOf, None, Sending
<1>12. WorkerMoves(f, v, None)
  BY <1>2, <1>3, <1>4, <1>9, <1>11 DEF WorkerMoves, w, Replies
<1> QED BY <1>12, WorkerMovesKeep

(* A failed publisher leaves spool and file as they are.                   *)
LEMMA PublishFailsKeeps ==
  ASSUME PipeInv, NEW f \in Fences, PublishFails(f)
  PROVE PipeInv'
<1> DEFINE w == worker[f]
           v == [w EXCEPT !.phase = "failed", !.flight = 0]
<1>1. /\ w \in Workers /\ w.phase \in Sending /\ w.flight # 0
      /\ w.phase # "none" /\ SpoolOK(f, w, reply[f])
  <2>1. w.flight # 0
    BY DEF PublishFails
  <2>2. w.phase # "none"
    BY <2>1, WorkerFacts DEF FreshWorker
  <2> QED BY <2>1, <2>2, WorkerFacts DEF SpoolOK, CursorsOf, Sending
<1>2. worker' = [worker EXCEPT ![f] = v]
  BY <1>1 DEF PublishFails, PipeInv, PipeTypes
<1>3. /\ net' = net /\ external' = external /\ reply' = [reply EXCEPT ![f] = None]
      /\ db' = db /\ settle' = settle /\ log' = log
      /\ kafka' = kafka /\ proj' = proj /\ live' = live /\ jobs' = jobs /\ gateway' = gateway
  BY DEF PublishFails, storeVars, liveVars
<1> HIDE DEF w
<1>4. v \in Workers /\ v.phase = "failed" /\ v.base = w.base /\ v.sent = w.sent /\ v.flight = 0
      /\ v.spool = w.spool /\ v.file = w.file
  BY <1>1 DEF Workers, WorkerPhases
<1> HIDE DEF v
<1>5. SpoolOK(f, v, None)
  BY <1>1, <1>4 DEF SpoolOK, CursorsOf, FileOf, Sending, None
<1>6. WorkerMoves(f, v, None)
  BY <1>1, <1>2, <1>3, <1>4, <1>5 DEF WorkerMoves, w, Replies
<1> QED BY <1>6, WorkerMovesKeep

(* Draining, the end of a recovery and the quarantine change the phase.    *)
LEMMA PhaseKeeps ==
  ASSUME PipeInv, NEW f \in Fences, Drain(f) \/ RecoveryEnds(f) \/ Quarantine(f)
  PROVE PipeInv'
<1> DEFINE w == worker[f]
<1>1. PICK p \in {"draining", "resolved", "failed", "recovered", "quarantined"} :
        /\ worker' = [worker EXCEPT ![f].phase = p]
        /\ p = "draining" => w.phase = "running"
        /\ p \in {"resolved", "failed", "recovered"} => w.phase \in Sending /\ w.flight = 0
        /\ p = "quarantined" => w.phase = "rejected"
  BY DEF Drain, RecoveryEnds, Quarantine, Sending
<1> DEFINE v == [w EXCEPT !.phase = p]
<1>2. /\ w \in Workers /\ w.phase # "none" /\ SpoolOK(f, w, reply[f])
  BY <1>1, WorkerFacts DEF Sending
<1>3. worker' = [worker EXCEPT ![f] = v]
  BY <1>1
<1>4. /\ net' = net /\ external' = external /\ reply' = reply
      /\ db' = db /\ settle' = settle /\ log' = log
      /\ kafka' = kafka /\ proj' = proj /\ live' = live /\ jobs' = jobs /\ gateway' = gateway
  BY DEF Drain, RecoveryEnds, Quarantine, storeVars, liveVars
<1>5. reply' = [reply EXCEPT ![f] = reply[f]] /\ reply[f] \in Replies
  BY <1>4 DEF PipeInv, PipeTypes
<1> HIDE DEF w
<1>6. v \in Workers /\ v.phase = p /\ v.base = w.base /\ v.sent = w.sent /\ v.flight = w.flight
      /\ v.spool = w.spool /\ v.file = w.file
  BY <1>2 DEF Workers, WorkerPhases
<1> HIDE DEF v
<1>7. SpoolOK(f, v, reply[f])
  <2>1. CursorsOf(v)
    BY <1>1, <1>2, <1>6 DEF SpoolOK, CursorsOf, Sending
  <2> QED BY <1>1, <1>2, <1>6, <2>1 DEF SpoolOK, FileOf, Sending
<1>8. WorkerMoves(f, v, reply[f])
  BY <1>2, <1>3, <1>4, <1>5, <1>6, <1>7 DEF WorkerMoves, w
<1> QED BY <1>8, WorkerMovesKeep

(* A crash leaves a file from which the spool can be rebuilt, perhaps with *)
(* one event more, perhaps with a torn record at its end.                  *)
LEMMA CrashKeeps ==
  ASSUME PipeInv, NEW f \in Fences, Crash(f)
  PROVE PipeInv'
<1> DEFINE w == worker[f]
           extra == Rec("event", w.spool.high + 1)
           more == w.phase = "running" /\ CanAppend(w.spool) /\ w.spool.high < w.base + PerTurn
<1>1. PICK tail \in {<< >>, << Torn >>} \cup (IF more THEN {<< extra >>} ELSE {}) :
        worker' = [worker EXCEPT ![f] = [w EXCEPT !.phase = "dead", !.flight = 0,
                                                  !.file = @ \o tail]]
  BY DEF Crash
<1>2. /\ w \in Workers /\ w.phase \in {"running", "draining", "recovering", "rejected"}
      /\ w.phase # "none" /\ SpoolOK(f, w, reply[f])
  BY WorkerFacts DEF Crash
<1> DEFINE file == w.file \o tail
           v == [w EXCEPT !.phase = "dead", !.flight = 0, !.file = file]
<1>3. worker' = [worker EXCEPT ![f] = v]
  BY <1>1
<1>4. /\ net' = net /\ external' = external /\ reply' = [reply EXCEPT ![f] = None]
      /\ db' = db /\ settle' = settle /\ log' = log
      /\ kafka' = kafka /\ proj' = proj /\ live' = live /\ jobs' = jobs /\ gateway' = gateway
  BY DEF Crash, storeVars, liveVars
<1> HIDE DEF w, extra
<1>5. Rebuilds(w.file, w.spool) /\ w.file \in Seq(Records)
  BY <1>2 DEF SpoolOK, FileOf, Rebuilds
<1>6. w.spool \in Spools /\ w.spool.high \in Nat
  BY <1>2, WorkerNumbers
<1>7. \/ file = w.file
      \/ file = Append(w.file, Torn)
      \/ more /\ file = Append(w.file, extra)
  <2>1. \A x : w.file \o << x >> = Append(w.file, x)
    BY <1>5
  <2>2. w.file \o << >> = w.file
    BY <1>5
  <2> QED BY <1>1, <2>1, <2>2
<1> HIDE DEF file
<1>8. /\ file \in Seq(FileRecords)
      /\ file \in {Complete(file), Append(Complete(file), Torn)}
      /\ \/ Rebuilds(Complete(file), w.spool)
         \/ more /\ Rebuilds(Complete(file), AppendSpool(w.spool))
  <2>1. CASE file = w.file
    <3>1. Complete(file) = w.file
      BY <1>5, <1>6, <2>1, LoadRebuilds
    <3> QED BY <1>5, <2>1, <3>1, FileTypes
  <2>2. CASE file = Append(w.file, Torn)
    <3>1. Complete(file) = w.file
      BY <1>5, <1>6, <2>2, LoadRebuilds
    <3> QED BY <1>2, <1>5, <2>2, <3>1, FileTypes, WorkerNumbers
  <2>3. CASE more /\ file = Append(w.file, extra)
    <3>1. ~w.spool.rejected
      BY <2>3 DEF CanAppend
    <3>2. extra \in Records /\ LoadStep(w.spool, extra) = AppendSpool(w.spool)
      <4>1. extra \in Records
        BY <1>6 DEF extra, Rec, Records
      <4> QED BY <1>6, <3>1, <4>1, LoadSteps DEF extra
    <3>3. Rebuilds(file, AppendSpool(w.spool))
      BY <1>5, <2>3, <3>2, RebuildsAppend
    <3>4. AppendSpool(w.spool) \in Spools
      BY <1>6, <2>3, AppendSpools
    <3>5. Complete(file) = file
      BY <3>3, <3>4, LoadRebuilds
    <3>6. file \in Seq(Records)
      BY <3>3 DEF Rebuilds
    <3> QED BY <2>3, <3>3, <3>5, <3>6, FileTypes
  <2> QED BY <1>7, <2>1, <2>2, <2>3
<1>9. v \in Workers /\ v.phase = "dead" /\ v.base = w.base /\ v.sent = w.sent /\ v.flight = 0
      /\ v.spool = w.spool /\ v.file = file
  BY <1>2, <1>8 DEF Workers, WorkerPhases
<1> HIDE DEF v
<1>10. SpoolOK(f, v, None)
  <2>1. CursorsOf(v)
    BY <1>2, <1>9 DEF SpoolOK, CursorsOf, Sending
  <2>2. FileOf(v)
    BY <1>8, <1>9 DEF FileOf
  <2> QED BY <1>2, <1>9, <2>1, <2>2 DEF SpoolOK, None
<1>11. WorkerMoves(f, v, None)
  BY <1>2, <1>3, <1>4, <1>9, <1>10 DEF WorkerMoves, w, Replies
<1> QED BY <1>11, WorkerMovesKeep

(* The spool that a recovery reads from the file.                          *)
LEMMA RecoveredSpool ==
  ASSUME NEW f, NEW r, NEW w \in Workers, SpoolOK(f, w, r), w.phase \in {"failed", "dead"}
  PROVE /\ Load(w.file) \in Spools
        /\ Rebuilds(Complete(w.file), Load(w.file))
        /\ Load(w.file).ack = w.spool.ack
        /\ w.spool.high <= Load(w.file).high /\ Load(w.file).high <= w.base + PerTurn
        /\ Load(w.file).high \in {w.spool.high, w.spool.high + 1}
        /\ Pending(Load(w.file)) <= MaxPending
        /\ w.phase = "failed" => Load(w.file) = w.spool
<1>1. CursorsOf(w) /\ FileOf(w) /\ w.spool \in Spools
  BY WorkerNumbers DEF SpoolOK
<1>2. /\ w.spool.ack <= w.spool.high /\ w.spool.high <= w.base + PerTurn
      /\ Pending(w.spool) <= MaxPending
      /\ w.spool.ack \in Nat /\ w.spool.high \in Nat /\ w.base \in Nat /\ PerTurn \in Nat
  BY <1>1, WorkerNumbers DEF CursorsOf
<1>3. CASE Rebuilds(Complete(w.file), w.spool)
  <2>1. w.file \in {Complete(w.file), Append(Complete(w.file), Torn)}
    <3>1. CASE w.phase = "dead"
      BY <1>1, <3>1 DEF FileOf
    <3>2. CASE w.phase = "failed"
      <4>1. Rebuilds(w.file, w.spool)
        BY <1>1, <3>2 DEF FileOf
      <4> QED BY <1>1, <4>1, LoadRebuilds
    <3> QED BY <3>1, <3>2
  <2>2. Load(w.file) = w.spool
    BY <1>1, <1>2, <1>3, <2>1, LoadRebuilds
  <2> QED BY <1>1, <1>2, <1>3, <2>2
<1>4. CASE /\ w.phase = "dead" /\ CanAppend(w.spool) /\ w.spool.high < w.base + PerTurn
           /\ Rebuilds(Complete(w.file), AppendSpool(w.spool))
           /\ w.file \in {Complete(w.file), Append(Complete(w.file), Torn)}
  <2> DEFINE sp == AppendSpool(w.spool)
  <2>1. sp \in Spools /\ sp.ack = w.spool.ack /\ sp.high = w.spool.high + 1 /\ Pending(sp) <= MaxPending
    BY <1>1, <1>2, <1>4, AppendSpools
  <2> HIDE DEF sp
  <2>2. Load(w.file) = sp
    BY <1>4, <2>1, LoadRebuilds DEF sp
  <2> QED BY <1>2, <1>4, <2>1, <2>2 DEF sp
<1>5. w.phase = "failed" => Rebuilds(Complete(w.file), w.spool)
  <2>1. SUFFICES ASSUME w.phase = "failed" PROVE Rebuilds(Complete(w.file), w.spool)
    OBVIOUS
  <2>2. Rebuilds(w.file, w.spool)
    BY <1>1, <2>1 DEF FileOf
  <2>3. Complete(w.file) = w.file
    BY <1>1, <2>2, LoadRebuilds
  <2> QED BY <2>2, <2>3
<1> QED BY <1>1, <1>3, <1>4, <1>5 DEF FileOf

(* A recovery continues with the spool of the file.                        *)
LEMMA StartRecoveryKeeps ==
  ASSUME PipeInv, NEW f \in Fences, StartRecovery(f)
  PROVE PipeInv'
<1> DEFINE w == worker[f]
           sp == Load(w.file)
           p == IF sp.rejected THEN "quarantined" ELSE "recovering"
           v == [w EXCEPT !.file = Complete(w.file), !.spool = sp, !.sent = sp.ack, !.phase = p]
<1>1. /\ w \in Workers /\ w.phase \in {"failed", "dead"} /\ w.phase # "none"
      /\ SpoolOK(f, w, reply[f])
  BY WorkerFacts DEF StartRecovery
<1>2. worker' = [worker EXCEPT ![f] = v]
  BY DEF StartRecovery
<1>3. /\ net' = net /\ external' = external /\ reply' = reply
      /\ db' = db /\ settle' = settle /\ log' = log
      /\ kafka' = kafka /\ proj' = proj /\ live' = live /\ jobs' = jobs /\ gateway' = gateway
  BY DEF StartRecovery, storeVars, liveVars
<1>4. reply' = [reply EXCEPT ![f] = reply[f]] /\ reply[f] \in Replies
  BY <1>3 DEF PipeInv, PipeTypes
<1> HIDE DEF w
<1>5. /\ sp \in Spools /\ Rebuilds(Complete(w.file), sp) /\ sp.ack = w.spool.ack
      /\ w.spool.high <= sp.high /\ sp.high <= w.base + PerTurn
      /\ Pending(sp) <= MaxPending
  BY <1>1, RecoveredSpool
<1> HIDE DEF sp
<1>6. w.flight = 0 /\ w.base <= w.spool.ack /\ w.spool.ack <= w.spool.high
  BY <1>1 DEF SpoolOK, CursorsOf, Sending
<1>7. Complete(w.file) \in Seq(FileRecords)
  BY <1>5, FileTypes DEF Rebuilds
<1>8. sp.ack \in Nat
  BY <1>5 DEF Spools
<1>9. p \in {"quarantined", "recovering"} /\ (p = "recovering" => ~sp.rejected)
  OBVIOUS
<1> HIDE DEF p
<1>10. v \in Workers /\ v.phase = p /\ v.base = w.base /\ v.sent = sp.ack /\ v.flight = 0
      /\ v.spool = sp /\ v.file = Complete(w.file)
  BY <1>1, <1>5, <1>6, <1>7, <1>8, <1>9 DEF Workers, WorkerPhases
<1> HIDE DEF v
<1>11. SpoolOK(f, v, reply[f])
  <2>1. CursorsOf(v)
    BY <1>1, <1>5, <1>6, <1>9, <1>10, WorkerNumbers DEF CursorsOf, Sending
  <2> QED BY <1>1, <1>5, <1>6, <1>9, <1>10, <2>1 DEF SpoolOK, FileOf, None
<1>12. WorkerMoves(f, v, reply[f])
  BY <1>1, <1>2, <1>3, <1>4, <1>9, <1>10, <1>11 DEF WorkerMoves, w
<1> QED BY <1>12, WorkerMovesKeep

(* A recovery sends the first pending event.                               *)
LEMMA RecoverSendKeeps ==
  ASSUME PipeInv, NEW f \in Fences, RecoverSend(f)
  PROVE PipeInv'
<1> DEFINE w == worker[f]
           n == w.spool.ack + 1
           v == [w EXCEPT !.sent = n, !.flight = n]
           m == [by |-> f, lo |-> n, hi |-> n, via |-> "recovery"]
<1>1. /\ w \in Workers /\ w.phase = "recovering" /\ w.phase # "none"
      /\ w.flight = 0 /\ Pending(w.spool) > 0 /\ SpoolOK(f, w, reply[f])
  BY WorkerFacts DEF RecoverSend
<1>2. worker' = [worker EXCEPT ![f] = v]
  <2>1. worker' = [worker EXCEPT ![f].sent = n, ![f].flight = n]
    BY DEF RecoverSend
  <2> QED BY <2>1 DEF PipeInv, PipeTypes
<1>3. /\ external' = external /\ db' = db /\ settle' = settle /\ log' = log
      /\ kafka' = kafka /\ proj' = proj /\ live' = live /\ jobs' = jobs /\ gateway' = gateway
  BY DEF RecoverSend, storeVars, liveVars
<1>4. PICK r \in {reply[f], "stale"} : reply' = [reply EXCEPT ![f] = r]
  BY DEF RecoverSend, PipeInv, PipeTypes
<1>5. \A x \in net' : x \in net \/ x = m
  BY DEF RecoverSend
<1>6. reply[f] = None
  BY <1>1 DEF SpoolOK
<1> HIDE DEF w
<1>7. n \in Nat /\ n <= w.spool.high
  BY <1>1, WorkerNumbers DEF Pending
<1>8. v \in Workers /\ v.phase = w.phase /\ v.base = w.base /\ v.sent = n /\ v.flight = n
      /\ v.spool = w.spool /\ v.file = w.file
  BY <1>1, <1>7 DEF Workers
<1> HIDE DEF v
<1>9. Publication(f, v, m)
  <2>1. m \in Batches
    BY <1>7 DEF Batches
  <2> QED BY <1>1, <1>7, <1>8, <2>1, WorkerNumbers DEF Publication, SpoolOK, CursorsOf
<1>10. SpoolOK(f, v, r)
  <2>1. CursorsOf(v)
    BY <1>1, <1>7, <1>8, WorkerNumbers DEF SpoolOK, CursorsOf, Sending
  <2> QED BY <1>1, <1>4, <1>6, <1>7, <1>8, <2>1, WorkerNumbers DEF SpoolOK, FileOf, None
<1>11. r \in Replies
  BY <1>4, <1>6 DEF Replies
<1>12. WorkerMoves(f, v, r)
  BY <1>1, <1>2, <1>3, <1>4, <1>5, <1>8, <1>9, <1>10, <1>11 DEF WorkerMoves, w
<1> QED BY <1>12, WorkerMovesKeep

(* A refusal is written to the file before the file is set aside.          *)
LEMMA MarkRejectedKeeps ==
  ASSUME PipeInv, NEW f \in Fences, MarkRejected(f)
  PROVE PipeInv'
<1> DEFINE w == worker[f]
           sp == RejectSpool(w.spool)
           file == RejectFile(w.file, w.spool)
           v == [w EXCEPT !.phase = "rejected", !.flight = 0, !.file = file, !.spool = sp]
<1>1. /\ w \in Workers /\ w.phase = "recovering" /\ w.phase # "none"
      /\ w.flight # 0 /\ SpoolOK(f, w, reply[f])
  BY WorkerFacts DEF MarkRejected
<1>2. worker' = [worker EXCEPT ![f] = v]
  BY DEF MarkRejected
<1>3. /\ net' = net /\ external' = external /\ reply' = [reply EXCEPT ![f] = None]
      /\ db' = db /\ settle' = settle /\ log' = log
      /\ kafka' = kafka /\ proj' = proj /\ live' = live /\ jobs' = jobs /\ gateway' = gateway
  BY DEF MarkRejected, storeVars, liveVars
<1> HIDE DEF w
<1>4. /\ Pending(w.spool) > 0 /\ ~w.spool.rejected /\ w.spool \in Spools
      /\ Rebuilds(w.file, w.spool)
  <2>1. /\ w.spool \in Spools /\ w.sent \in Nat /\ w.spool.ack \in Nat /\ w.spool.high \in Nat
    BY <1>1, WorkerNumbers
  <2>2. /\ w.flight = w.spool.ack + 1 /\ w.flight <= w.sent /\ w.sent <= w.spool.high
        /\ ~w.spool.rejected
    BY <1>1 DEF SpoolOK, CursorsOf
  <2>3. w.spool.high - w.spool.ack > 0
    BY <2>1, <2>2
  <2>4. Rebuilds(w.file, w.spool)
    BY <1>1 DEF SpoolOK, FileOf
  <2> QED BY <2>1, <2>2, <2>3, <2>4 DEF Pending
<1>5. /\ sp \in Spools /\ sp.ack = w.spool.ack /\ sp.high = w.spool.high
      /\ Pending(sp) = Pending(w.spool)
  BY <1>4 DEF RejectSpool, Spools, Pending
<1>6. Rebuilds(file, sp)
  <2>1. Rec("rejection", w.spool.ack + 1) \in Records
    BY <1>1, WorkerNumbers DEF Rec, Records
  <2> QED BY <1>4, <2>1, LoadSteps, RebuildsAppend DEF RejectFile
<1>7. file \in Seq(FileRecords)
  BY <1>6, FileTypes DEF Rebuilds
<1> HIDE DEF sp, file
<1>8. v \in Workers /\ v.phase = "rejected" /\ v.base = w.base /\ v.sent = w.sent /\ v.flight = 0
      /\ v.spool = sp /\ v.file = file
  BY <1>1, <1>5, <1>7 DEF Workers, WorkerPhases
<1> HIDE DEF v
<1>9. SpoolOK(f, v, None)
  <2>1. CursorsOf(v)
    BY <1>1, <1>5, <1>8 DEF SpoolOK, CursorsOf, Sending
  <2> QED BY <1>1, <1>5, <1>6, <1>8, <2>1 DEF SpoolOK, FileOf, None
<1>10. WorkerMoves(f, v, None)
  BY <1>1, <1>2, <1>3, <1>8, <1>9 DEF WorkerMoves, w, Replies
<1> QED BY <1>10, WorkerMovesKeep

(* Whatever a Worker does keeps the invariant of the pipeline.             *)
LEMMA WorkerStepKeeps ==
  ASSUME PipeInv, NEW f \in Fences, WorkerStep(f)
  PROVE PipeInv'
  BY ProduceKeeps, FlushKeeps, AcknowledgedKeeps, PublishFailsKeeps, PhaseKeeps, CrashKeeps,
     StartRecoveryKeeps, RecoverSendKeeps, MarkRejectedKeeps DEF WorkerStep
-----------------------------------------------------------------------------
(* Steps at the durable log.                                               *)

(* The numbers of the cursors.                                             *)
LEMMA Numbers ==
  ASSUME PipeTypes
  PROVE /\ db.persisted \in Nat /\ db.projected \in Nat /\ db.floor \in Nat
        /\ db.fence \in 0..MaxFence /\ db.fence \in Nat /\ db.lease \in 0..MaxFence
        /\ \A f \in Fences : f \in Nat \ {0} /\ worker[f].base \in Nat
        /\ log \in Seq(Entries) /\ DOMAIN log = 1..Len(log) /\ Len(log) \in Nat
        /\ \A s \in DOMAIN log : log[s] \in Entries
        /\ kafka \in Seq(Batches) /\ DOMAIN kafka = 1..Len(kafka) /\ Len(kafka) \in Nat
        /\ \A i \in DOMAIN kafka : kafka[i] \in Batches
        /\ proj.pos \in Nat /\ proj.stored \in Nat
        /\ live.last \in Nat /\ \A e \in live.events : e.seq \in Nat
        /\ MaxFence \in Nat \ {0} /\ PerTurn \in Nat \ {0}
<1>1. MaxFence \in Nat \ {0} /\ PerTurn \in Nat \ {0}
  BY PipelineAssumption
<1>2. /\ db.persisted \in Nat /\ db.projected \in Nat /\ db.floor \in Nat
      /\ db.fence \in 0..MaxFence /\ db.lease \in 0..MaxFence
  BY DEF PipeTypes, Cursors
<1>3. \A f \in Fences : f \in Nat \ {0} /\ worker[f].base \in Nat
  BY <1>1 DEF PipeTypes, Fences, Workers
<1>4. /\ log \in Seq(Entries) /\ DOMAIN log = 1..Len(log) /\ Len(log) \in Nat
      /\ \A s \in DOMAIN log : log[s] \in Entries
  BY DEF PipeTypes
<1>5. /\ kafka \in Seq(Batches) /\ DOMAIN kafka = 1..Len(kafka) /\ Len(kafka) \in Nat
      /\ \A i \in DOMAIN kafka : kafka[i] \in Batches
  BY DEF PipeTypes
<1>6. /\ proj.pos \in Nat /\ proj.stored \in Nat
      /\ live.last \in Nat /\ \A e \in live.events : e.seq \in Nat
  BY DEF PipeTypes, Events
<1> QED BY <1>1, <1>2, <1>3, <1>4, <1>5, <1>6

(* A settled Turn has one terminal event, TerminalOf.                      *)
LEMMA TerminalUnique ==
  ASSUME PipeInv, NEW f, Settled(f)
  PROVE /\ TerminalOf(f) \in Terminals /\ log[TerminalOf(f)].by = f
        /\ \A s \in Terminals : log[s].by = f => s = TerminalOf(f)
<1>1. TerminalOf(f) \in Terminals /\ log[TerminalOf(f)].by = f
  BY DEF Settled, TerminalOf
<1>2. \A s, t \in Terminals : log[s].by = f /\ log[t].by = f => s = t
  <2>1. SUFFICES ASSUME NEW s \in Terminals, NEW t \in Terminals, log[s].by = f, log[t].by = f, s # t
                 PROVE FALSE
    OBVIOUS
  <2>2. s \in DOMAIN log /\ t \in DOMAIN log /\ s \in Nat /\ t \in Nat
    BY Numbers DEF Terminals, PipeInv
  <2>3. s < t \/ t < s
    BY <2>1, <2>2
  <2>4. log[s].by < log[t].by \/ log[t].by < log[s].by
    BY <2>2, <2>3 DEF PipeInv, LogOK
  <2>5. log[s].by \in Nat
    BY <2>2, Numbers DEF PipeInv, Entries, Fences
  <2> QED BY <2>1, <2>4, <2>5
<1> QED BY <1>1, <1>2

(* A terminal event stays where it is.                                     *)
LEMMA TerminalStays ==
  ASSUME PipeInv, NEW f, Settled(f),
         \A s \in Terminals : s \in Terminals' /\ log'[s] = log[s],
         \A s \in Terminals' : s \in Terminals \/ log'[s].by # f
  PROVE Settled(f)' /\ TerminalOf(f)' = TerminalOf(f)
<1>1. \E s \in Terminals' : log'[s].by = f
  BY DEF Settled
<1>2. TerminalOf(f)' \in Terminals' /\ log'[TerminalOf(f)'].by = f
  BY <1>1 DEF TerminalOf
<1>3. TerminalOf(f)' \in Terminals /\ log[TerminalOf(f)'].by = f
  BY <1>2
<1> QED BY <1>1, <1>3, TerminalUnique DEF Settled

(* Steps that leave the log and the Workers alone.                         *)
LEMMA LogUnchanged ==
  ASSUME PipeInv, worker' = worker, reply' = reply, net' = net, log' = log, external' = external,
         db'.persisted = db.persisted, db'.fence = db.fence, db'.lease \in {0, db.lease}
  PROVE /\ LogOK' /\ WindowsOK' /\ SpoolsOK'
        /\ Terminals' = Terminals
        /\ \A f : Settled(f)' = Settled(f) /\ TerminalOf(f)' = TerminalOf(f)
<1>1. Terminals' = Terminals
  BY DEF Terminals
<1>2. ASSUME NEW f PROVE Settled(f)' = Settled(f) /\ TerminalOf(f)' = TerminalOf(f)
  BY <1>1 DEF Settled, TerminalOf
<1>3. LogOK'
  BY <1>1, <1>2 DEF PipeInv, LogOK
<1>4. WindowsOK'
  BY <1>2 DEF PipeInv, WindowsOK, Ceiling
<1>5. SpoolsOK'
  BY DEF PipeInv, SpoolsOK, SpoolOK, Durable
<1> QED BY <1>1, <1>2, <1>3, <1>4, <1>5

(* A lapsed lease keeps the invariant of the pipeline.                     *)
LEMMA LeaseLapseKeeps ==
  ASSUME PipeInv, LeaseLapse
  PROVE PipeInv'
<1>1. /\ worker' = worker /\ reply' = reply /\ net' = net /\ log' = log /\ external' = external
      /\ settle' = settle /\ kafka' = kafka /\ proj' = proj /\ live' = live /\ jobs' = jobs
      /\ gateway' = gateway /\ db' = [db EXCEPT !.lease = 0]
  BY DEF LeaseLapse, workerVars, liveVars
<1>2. /\ db'.persisted = db.persisted /\ db'.projected = db.projected /\ db'.floor = db.floor
      /\ db'.fence = db.fence /\ db'.lease = 0
      /\ db' \in Cursors
  <2>1. db \in Cursors /\ 0 \in 0..MaxFence
    BY Numbers DEF PipeInv, PipeTypes
  <2> QED BY <1>1, <2>1 DEF Cursors
<1>3. PipeTypes'
  BY <1>1, <1>2 DEF PipeInv, PipeTypes
<1>4. /\ LogOK' /\ WindowsOK' /\ SpoolsOK'
      /\ Terminals' = Terminals
      /\ \A f : Settled(f)' = Settled(f) /\ TerminalOf(f)' = TerminalOf(f)
  BY <1>1, <1>2, LogUnchanged
<1>5. CursorsOK' /\ KafkaOK' /\ LiveOK'
  BY <1>1, <1>2, <1>4 DEF PipeInv, CursorsOK, KafkaOK, LiveOK, Excused, InBatch
<1> QED BY <1>3, <1>4, <1>5 DEF PipeInv

(* Assignment opens the next Turn with an empty spool.                     *)
LEMMA AssignKeeps ==
  ASSUME PipeInv, NEW f \in Fences, Assign(f)
  PROVE PipeInv'
<1> DEFINE p == db.persisted
           v == [FreshWorker EXCEPT !.phase = "running", !.file = OpenedFile(p),
                                    !.spool = OpenedSpool(p), !.base = p, !.sent = p]
<1>1. /\ reply' = reply /\ net' = net /\ log' = log /\ external' = external
      /\ settle' = settle /\ kafka' = kafka /\ proj' = proj /\ live' = live /\ jobs' = jobs
      /\ gateway' = gateway /\ db' = [db EXCEPT !.fence = f, !.lease = f]
      /\ worker' = [worker EXCEPT ![f] = v]
      /\ f = db.fence + 1 /\ (db.fence > 0 => Settled(db.fence))
  BY DEF Assign, workerVars, liveVars
<1>2. /\ db'.persisted = p /\ db'.projected = db.projected /\ db'.floor = db.floor
      /\ db'.fence = f /\ db'.lease = f
      /\ db' \in Cursors
  <2>1. db \in Cursors /\ f \in 0..MaxFence
    BY Numbers DEF PipeInv, PipeTypes, Fences
  <2> QED BY <1>1, <2>1 DEF Cursors
<1>3. p \in Nat /\ PerTurn \in Nat \ {0}
  BY Numbers DEF PipeInv
<1>4. OpenedSpool(p) \in Spools /\ Rebuilds(OpenedFile(p), OpenedSpool(p))
  BY <1>3, RebuildsOpened DEF OpenedSpool, Spools
<1>5. OpenedFile(p) \in Seq(FileRecords)
  BY <1>4, FileTypes DEF Rebuilds
<1>6. /\ v \in Workers /\ v.phase = "running" /\ v.file = OpenedFile(p) /\ v.spool = OpenedSpool(p)
      /\ v.base = p /\ v.sent = p /\ v.flight = 0
  BY <1>3, <1>4, <1>5 DEF FreshWorker, Workers, WorkerPhases
<1> HIDE DEF v
<1>7. /\ worker'[f] = v /\ \A g \in Fences \ {f} : worker'[g] = worker[g]
      /\ worker[f] = FreshWorker /\ reply[f] = None
  <2>1. db.fence < f
    BY <1>1, Numbers DEF PipeInv
  <2>2. worker[f] = FreshWorker /\ reply[f] = None
    BY <2>1 DEF PipeInv, WindowsOK
  <2> QED BY <1>1, <2>2 DEF PipeInv, PipeTypes
<1>8. PipeTypes'
  <2>1. worker' \in [Fences -> Workers]
    BY <1>1, <1>6 DEF PipeInv, PipeTypes
  <2> QED BY <1>1, <1>2, <2>1 DEF PipeInv, PipeTypes
<1>9. Terminals' = Terminals /\ \A g : Settled(g)' = Settled(g) /\ TerminalOf(g)' = TerminalOf(g)
  BY <1>1 DEF Terminals, Settled, TerminalOf
<1>10. ~Settled(f)
  <2>1. \A i \in DOMAIN log : log[i].by <= db.fence
    BY DEF PipeInv, LogOK
  <2> QED BY <1>1, <2>1, Numbers DEF PipeInv, Settled, Terminals
<1>11. LogOK'
  <2>1. \A i \in DOMAIN log : log[i].by <= f
    <3>1. SUFFICES ASSUME NEW i \in DOMAIN log PROVE log[i].by <= f
      OBVIOUS
    <3>2. log[i].by <= db.fence /\ log[i].by \in Nat
      BY Numbers DEF PipeInv, LogOK, Entries, Fences
    <3> QED BY <1>1, <3>2, Numbers DEF PipeInv
  <2>2. \A g \in Fences : g < f => Settled(g)
    <3>1. SUFFICES ASSUME NEW g \in Fences, g < f PROVE Settled(g)
      OBVIOUS
    <3>2. g < db.fence \/ g = db.fence
      BY <1>1, <3>1, Numbers DEF PipeInv
    <3>3. g > 0
      BY Numbers DEF PipeInv
    <3> QED BY <1>1, <3>2, <3>3 DEF PipeInv, LogOK
  <2> QED BY <1>1, <1>2, <1>9, <1>10, <2>1, <2>2 DEF PipeInv, LogOK
<1>12. CursorsOK' /\ LiveOK'
  BY <1>1, <1>2, <1>9 DEF PipeInv, CursorsOK, LiveOK, Excused, InBatch
<1>13. KafkaOK'
  <2>1. \A i \in DOMAIN kafka : kafka[i].by <= f
    <3>1. SUFFICES ASSUME NEW i \in DOMAIN kafka PROVE kafka[i].by <= f
      OBVIOUS
    <3>2. kafka[i].by <= db.fence /\ kafka[i].by \in Nat
      BY Numbers DEF PipeInv, KafkaOK, Batches, Fences
    <3> QED BY <1>1, <3>2, Numbers DEF PipeInv
  <2> QED BY <1>1, <1>2, <1>9, <2>1 DEF PipeInv, KafkaOK, InBatch
<1>14. p <= (f - 1) * (PerTurn + 1)
  <2>1. CASE db.fence = 0
    <3>1. p = 0 /\ (f - 1) = 0
      BY <1>1, <2>1, Numbers DEF PipeInv, WindowsOK
    <3>2. 0 * (PerTurn + 1) = 0
      BY <1>3
    <3> QED BY <3>1, <3>2
  <2>2. CASE db.fence # 0
    <3> DEFINE g == db.fence
    <3>1. g \in Fences /\ Settled(g) /\ g \in Nat /\ f - 1 = g
      <4>1. g \in Nat /\ g # 0 /\ f \in Nat /\ f <= MaxFence /\ MaxFence \in Nat
        BY <2>2, Numbers DEF PipeInv, Fences
      <4>2. Settled(g)
        BY <1>1, <4>1
      <4> QED BY <1>1, <4>1, <4>2 DEF Fences
    <3>3. worker[g].base \in Nat
      BY <3>1, Numbers DEF PipeInv
    <3>6. ~(g < g)
      BY <3>1
    <3>2. p <= worker[g].base + PerTurn + 1 /\ worker[g].base <= (g - 1) * (PerTurn + 1)
      BY <3>1, <3>6 DEF PipeInv, WindowsOK, Ceiling
    <3>4. (g - 1) * (PerTurn + 1) + (PerTurn + 1) = g * (PerTurn + 1)
      BY <1>3, <3>1
    <3>5. (g - 1) * (PerTurn + 1) \in Int
      BY <1>3, <3>1
    <3> HIDE DEF g
    <3> QED BY <1>3, <3>1, <3>2, <3>3, <3>4, <3>5
  <2> QED BY <2>1, <2>2
<1>15. WindowsOK'
  <2>1. f # 0 /\ f \in Nat
    BY Numbers DEF PipeInv
  <2>2. ASSUME NEW g \in Fences
        PROVE IF f < g THEN worker'[g] = FreshWorker /\ reply'[g] = None
              ELSE /\ worker'[g].phase # "none"
                   /\ worker'[g].base <= p
                   /\ worker'[g].base <= (g - 1) * (PerTurn + 1)
    <3>1. CASE g = f
      BY <3>1, <1>3, <1>6, <1>7, <1>14, <2>1
    <3>2. CASE f < g
      <4>1. db.fence < g /\ g # f
        BY <3>2, <1>1, Numbers DEF PipeInv
      <4> QED BY <1>1, <1>7, <3>2, <4>1 DEF PipeInv, WindowsOK
    <3>3. CASE g # f /\ ~(f < g)
      <4>1. ~(db.fence < g)
        BY <3>3, <1>1, Numbers DEF PipeInv
      <4> QED BY <1>7, <3>3, <4>1 DEF PipeInv, WindowsOK
    <3> QED BY <3>1, <3>2, <3>3
  <2>3. ASSUME NEW m \in net
        PROVE m.by <= f /\ worker'[m.by].base < m.lo /\ m.lo <= m.hi /\ m.hi <= worker'[m.by].base + PerTurn
    <3>1. m.by \in Fences /\ m.by <= db.fence
      BY DEF PipeInv, PipeTypes, Batches, WindowsOK
    <3>2. m.by # f /\ m.by <= f
      <4>1. m.by \in Nat /\ db.fence \in Nat
        BY <3>1, Numbers DEF PipeInv
      <4> QED BY <1>1, <2>1, <3>1, <4>1
    <3> QED BY <1>7, <3>1, <3>2 DEF PipeInv, WindowsOK, Ceiling
  <2>4. p <= worker'[f].base + PerTurn /\ (worker'[f].base + 1)..p = {}
    BY <1>3, <1>6, <1>7
  <2>5. /\ db'.fence = 0 => db'.persisted = 0
        /\ \A g \in Fences :
             IF db'.fence < g THEN worker'[g] = FreshWorker /\ reply'[g] = None
             ELSE /\ worker'[g].phase # "none"
                  /\ worker'[g].base <= db'.persisted
                  /\ worker'[g].base <= (g - 1) * (PerTurn + 1)
    BY <1>2, <2>1, <2>2
  <2>6. \A m \in net' : /\ m.by <= db'.fence
                        /\ worker'[m.by].base < m.lo /\ m.lo <= m.hi /\ m.hi <= worker'[m.by].base + PerTurn
    BY <1>1, <1>2, <2>3
  <2>7. \A g \in Fences : g = db'.fence =>
            /\ ~Settled(g)' /\ db'.persisted <= worker'[g].base + PerTurn
            /\ \A s \in (worker'[g].base + 1)..db'.persisted : log'[s] = Entry(g, "worker")
    BY <1>2, <1>9, <1>10, <2>4
  <2> QED BY <2>5, <2>6, <2>7 DEF WindowsOK, Ceiling
<1>16. SpoolsOK'
  <2>1. SUFFICES ASSUME NEW g \in Fences, worker'[g].phase # "none"
                 PROVE SpoolOK(g, worker[g], reply[g])'
    BY DEF SpoolsOK
  <2>2. SpoolOK(g, worker'[g], reply'[g])
    <3>1. CASE g = f
      <4>1. CursorsOf(v)
        BY <1>3, <1>6, PipelineAssumption, MaxPendingAssumption DEF CursorsOf, OpenedSpool, Pending, Sending
      <4>2. FileOf(v)
        BY <1>4, <1>6 DEF FileOf
      <4>3. Durable(f, v.base + 1, v.spool.ack)
        BY <1>3, <1>6 DEF Durable, OpenedSpool
      <4> QED BY <1>1, <1>7, <3>1, <4>1, <4>2, <4>3 DEF SpoolOK, None
    <3>2. CASE g # f
      BY <1>1, <1>7, <2>1, <3>2 DEF PipeInv, SpoolsOK
    <3> QED BY <3>1, <3>2
  <2>3. Durable(g, worker'[g].base + 1, worker'[g].spool.ack)
        /\ (reply'[g] = "ack" => Durable(g, worker'[g].flight, worker'[g].sent))
    BY <2>2 DEF SpoolOK
  <2>4. Durable(g, worker[g].base + 1, worker[g].spool.ack)'
        /\ (reply'[g] = "ack" => Durable(g, worker[g].flight, worker[g].sent)')
    BY <1>1, <1>2, <2>3 DEF Durable
  <2> QED BY <2>2, <2>4 DEF SpoolOK
<1> QED BY <1>8, <1>11, <1>12, <1>13, <1>15, <1>16 DEF PipeInv

(* Accepted events stay where they are.                                    *)
LogGrows ==
  /\ Len(log') \in Nat /\ Len(log) <= Len(log') /\ DOMAIN log' = 1..Len(log')
  /\ \A s \in DOMAIN log : log'[s] = log[s]
  /\ db'.persisted = Len(log')

(* What is durable stays durable.                                          *)
LEMMA DurableStays ==
  ASSUME PipeInv, LogGrows, NEW f, NEW lo \in Nat \ {0}, NEW hi \in Nat, Durable(f, lo, hi)
  PROVE Durable(f, lo, hi)'
<1>1. SUFFICES ASSUME NEW s \in lo..hi
               PROVE s <= db'.persisted /\ log'[s] = Entry(f, "worker")
  BY DEF Durable
<1>2. s \in Nat /\ s > 0 /\ s <= db.persisted /\ log[s] = Entry(f, "worker")
  BY DEF Durable
<1>3. db.persisted = Len(log) /\ Len(log) \in Nat /\ DOMAIN log = 1..Len(log)
  BY Numbers DEF PipeInv, LogOK
<1>4. s \in DOMAIN log
  BY <1>2, <1>3
<1> QED BY <1>2, <1>3, <1>4 DEF LogGrows

(* A growing log leaves the spools in order.                               *)
LEMMA SpoolsStay ==
  ASSUME PipeInv, LogGrows, worker' = worker,
         \A f \in Fences : \/ reply'[f] = reply[f]
                           \/ /\ worker[f].flight # 0
                              /\ reply'[f] = "ack" => Durable(f, worker[f].flight, worker[f].sent)'
  PROVE SpoolsOK'
<1>1. SUFFICES ASSUME NEW f \in Fences, worker[f].phase # "none"
               PROVE SpoolOK(f, worker[f], reply[f])'
  BY DEF SpoolsOK
<1>2. SpoolOK(f, worker[f], reply[f]) /\ worker[f] \in Workers
  BY <1>1, WorkerFacts
<1>3. Durable(f, worker[f].base + 1, worker[f].spool.ack)'
  <2>1. worker[f].base + 1 \in Nat \ {0} /\ worker[f].spool.ack \in Nat
    BY <1>2, WorkerNumbers
  <2>2. Durable(f, worker[f].base + 1, worker[f].spool.ack)
    BY <1>2 DEF SpoolOK
  <2>3. Durable(f, worker[f].base + 1, worker[f].spool.ack)
        => Durable(f, worker[f].base + 1, worker[f].spool.ack)'
    <3> DEFINE lo == worker[f].base + 1
               hi == worker[f].spool.ack
    <3>1. lo' = lo /\ hi' = hi
      OBVIOUS
    <3>2. PICK a, b : a = lo /\ b = hi
      OBVIOUS
    <3>3. Durable(f, a, b) => Durable(f, a, b)'
      BY <2>1, <3>2, DurableStays
    <3> QED BY <3>1, <3>2, <3>3 DEF Durable
  <2> QED BY <2>2, <2>3
<1>4. ASSUME reply'[f] = "ack" PROVE Durable(f, worker[f].flight, worker[f].sent)'
  <2>1. CASE reply'[f] = reply[f]
    <3>1. Durable(f, worker[f].flight, worker[f].sent) /\ worker[f].flight # 0
      BY <1>2, <1>4, <2>1 DEF SpoolOK, None
    <3>2. worker[f].flight \in Nat \ {0} /\ worker[f].sent \in Nat
      BY <1>2, <3>1, WorkerNumbers
    <3>3. PICK a, b : a = worker[f].flight /\ b = worker[f].sent
      OBVIOUS
    <3>4. Durable(f, a, b)'
      BY <3>1, <3>2, <3>3, DurableStays
    <3> QED BY <3>3, <3>4 DEF Durable
  <2>2. CASE reply'[f] # reply[f]
    BY <1>4, <2>2
  <2> QED BY <2>1, <2>2
<1>5. worker[f].flight = 0 => reply'[f] = None
  BY <1>2 DEF SpoolOK
<1>6. /\ CursorsOf(worker[f])' /\ FileOf(worker[f])'
      /\ (worker[f].flight = 0 => reply[f] = None)'
      /\ (reply[f] = "ack" => Durable(f, worker[f].flight, worker[f].sent))'
  BY <1>2, <1>4, <1>5 DEF SpoolOK, CursorsOf, FileOf
<1> QED BY <1>3, <1>6 DEF SpoolOK

(* The batches of the broker that continue the log at its end.             *)
LEMMA KafkaGrows ==
  ASSUME NEW ks \in Seq(Batches), NEW b \in Batches
  PROVE /\ Append(ks, b) \in Seq(Batches) /\ Len(Append(ks, b)) = Len(ks) + 1
        /\ DOMAIN Append(ks, b) = 1..(Len(ks) + 1) /\ DOMAIN ks = 1..Len(ks) /\ Len(ks) \in Nat
        /\ \A i \in DOMAIN ks : i \in DOMAIN Append(ks, b) /\ Append(ks, b)[i] = ks[i]
        /\ Append(ks, b)[Len(ks) + 1] = b
  OBVIOUS

(* What an ingestion leaves alone.                                         *)
LEMMA IngestFrame ==
  ASSUME PipeInv, NEW m, Ingest(m)
  PROVE /\ external' = external /\ worker' = worker /\ settle' = settle /\ proj' = proj
        /\ live' = live /\ jobs' = jobs /\ gateway' = gateway
        /\ m \in Batches /\ m.by \in Fences /\ m.lo \in Nat /\ m.hi \in Nat
        /\ worker[m.by].base < m.lo /\ m.lo <= m.hi /\ m.hi <= Ceiling(m.by) /\ m.by <= db.fence
        /\ net' \subseteq net
        /\ IF IngestOutcome(m) = "accept" THEN Persist(m)
           ELSE log' = log /\ kafka' = kafka /\ db' = db
        /\ reply' \in [Fences -> Replies]
        /\ \A f \in Fences :
             \/ reply'[f] = reply[f]
             \/ /\ f = m.by /\ worker[f].flight = m.lo /\ worker[f].sent = m.hi
                /\ reply'[f] = IF IngestOutcome(m) = "accept" THEN "ack" ELSE IngestOutcome(m)
<1>1. m \in net
  BY DEF Ingest
<1>2. m \in Batches /\ m.by \in Fences /\ m.lo \in Nat /\ m.hi \in Nat
  BY <1>1 DEF PipeInv, PipeTypes, Batches
<1>3. /\ worker[m.by].base < m.lo /\ m.lo <= m.hi /\ m.hi <= Ceiling(m.by) /\ m.by <= db.fence
  BY <1>1 DEF PipeInv, WindowsOK
<1>4. /\ external' = external /\ worker' = worker /\ settle' = settle /\ proj' = proj
      /\ live' = live /\ jobs' = jobs /\ gateway' = gateway
      /\ net' \subseteq net
      /\ IF IngestOutcome(m) = "accept" THEN Persist(m)
         ELSE log' = log /\ kafka' = kafka /\ db' = db
  BY DEF Ingest
<1>5. PICK a \in Replies : /\ reply' = Answer(m, a)
                           /\ a = IF IngestOutcome(m) = "accept" THEN "ack" ELSE IngestOutcome(m)
  BY DEF Ingest, IngestOutcome, Replies
<1>6. reply \in [Fences -> Replies]
  BY DEF PipeInv, PipeTypes
<1> QED BY <1>2, <1>3, <1>4, <1>5, <1>6 DEF Answer

(* An answer that accepts nothing: what it acknowledges is in the log.     *)
LEMMA IngestAnswerKeeps ==
  ASSUME PipeInv, NEW m, Ingest(m), IngestOutcome(m) # "accept"
  PROVE PipeInv'
<1>1. /\ external' = external /\ worker' = worker /\ settle' = settle /\ proj' = proj
      /\ live' = live /\ jobs' = jobs /\ gateway' = gateway
      /\ m \in Batches /\ m.by \in Fences /\ m.lo \in Nat /\ m.hi \in Nat
      /\ worker[m.by].base < m.lo /\ m.lo <= m.hi /\ m.hi <= Ceiling(m.by) /\ m.by <= db.fence
      /\ net' \subseteq net
      /\ log' = log /\ kafka' = kafka /\ db' = db
      /\ reply' \in [Fences -> Replies]
      /\ \A f \in Fences :
           \/ reply'[f] = reply[f]
           \/ /\ f = m.by /\ worker[f].flight = m.lo /\ worker[f].sent = m.hi
              /\ reply'[f] = IngestOutcome(m)
  BY IngestFrame
<1>2. PipeTypes'
  BY <1>1 DEF PipeInv, PipeTypes
<1>3. LogOK' /\ CursorsOK' /\ KafkaOK' /\ LiveOK'
  <2>1. Terminals' = Terminals
    BY <1>1 DEF Terminals
  <2>2. \A f : Settled(f)' = Settled(f) /\ TerminalOf(f)' = TerminalOf(f)
    BY <1>1, <2>1 DEF Settled, TerminalOf
  <2>3. LogOK'
    BY <1>1, <2>1, <2>2 DEF PipeInv, LogOK
  <2>4. CursorsOK'
    BY <1>1, <2>1, <2>2 DEF PipeInv, CursorsOK
  <2>5. KafkaOK'
    BY <1>1, <2>1 DEF PipeInv, KafkaOK, InBatch
  <2>6. LiveOK'
    BY <1>1, <2>1, <2>2 DEF PipeInv, LiveOK, Excused, InBatch
  <2> QED BY <2>3, <2>4, <2>5, <2>6
<1>4. WindowsOK'
  <2>1. ASSUME NEW f \in Fences, db.fence < f PROVE reply'[f] = None
    <3>1. worker[f].flight = 0 /\ reply[f] = None
      BY <2>1 DEF PipeInv, WindowsOK, FreshWorker
    <3>2. f # m.by
      <4>1. m.by \in Nat /\ f \in Nat /\ db.fence \in Nat
        BY <1>1, Numbers DEF PipeInv
      <4> QED BY <1>1, <2>1, <4>1
    <3> QED BY <1>1, <3>1, <3>2
  <2>2. \A f : Settled(f)' = Settled(f)
    BY <1>1 DEF Settled, Terminals
  <2> QED BY <1>1, <2>1, <2>2 DEF PipeInv, WindowsOK, Ceiling
<1>5. LogGrows
  BY <1>1, Numbers DEF LogGrows, PipeInv, LogOK
<1>6. IngestOutcome(m) = "ack" => Durable(m.by, m.lo, m.hi)
  <2>1. SUFFICES ASSUME IngestOutcome(m) = "ack", NEW s \in m.lo..m.hi
                 PROVE s <= db.persisted /\ log[s] = Entry(m.by, "worker")
    BY DEF Durable
  <2>2. m.hi <= db.persisted /\ s \in Nat /\ db.persisted \in Nat
    BY <1>1, <2>1, Numbers DEF IngestOutcome, PipeInv
  <2>3. CASE external
    <3>1. ~Stale(m)
      BY <2>1, <2>3 DEF IngestOutcome
    <3>2. m.by = db.fence /\ db.lease = db.fence /\ db.fence # 0
      BY <1>1, <3>1, Numbers DEF Stale, PipeInv
    <3>3. ~Settled(m.by)
      BY <3>2 DEF PipeInv, LogOK
    <3>4. s \in (worker[m.by].base + 1)..db.persisted
      <4>1. worker[m.by].base \in Nat
        BY <1>1, Numbers DEF PipeInv
      <4>2. \A b, lo, hi, p \in Nat :
              b < lo /\ s \in lo..hi /\ hi <= p => s \in (b + 1)..p
        OBVIOUS
      <4> QED BY <1>1, <2>1, <2>2, <4>1, <4>2
    <3> QED BY <1>1, <2>2, <3>2, <3>3, <3>4 DEF PipeInv, WindowsOK
  <2>4. CASE ~external
    <3>1. ~Conflict(m)
      BY <2>1, <2>4 DEF IngestOutcome
    <3> QED BY <1>1, <2>2, <3>1 DEF Conflict
  <2> QED BY <2>3, <2>4
<1>7. SpoolsOK'
  <2>1. ASSUME NEW f \in Fences
        PROVE \/ reply'[f] = reply[f]
              \/ /\ worker[f].flight # 0
                 /\ reply'[f] = "ack" => Durable(f, worker[f].flight, worker[f].sent)'
    <3>1. SUFFICES ASSUME reply'[f] # reply[f]
                   PROVE /\ worker[f].flight # 0
                         /\ reply'[f] = "ack" => Durable(f, worker[f].flight, worker[f].sent)'
      OBVIOUS
    <3>2. f = m.by /\ worker[f].flight = m.lo /\ worker[f].sent = m.hi /\ reply'[f] = IngestOutcome(m)
      BY <1>1, <3>1
    <3>3. m.lo # 0
      <4>1. worker[m.by].base \in Nat /\ worker[m.by].base < m.lo
        BY <1>1, Numbers DEF PipeInv
      <4> QED BY <4>1
    <3>4. reply'[f] = "ack" => Durable(f, worker[f].flight, worker[f].sent)
      BY <1>6, <3>2
    <3>5. reply'[f] = "ack" => Durable(f, worker[f].flight, worker[f].sent)'
      BY <1>1, <3>4 DEF Durable
    <3> QED BY <3>2, <3>3, <3>5
  <2> QED BY <1>1, <1>5, <2>1, SpoolsStay
<1> QED BY <1>2, <1>3, <1>4, <1>7 DEF PipeInv

(* What accepting a publication means: it is the holder's, of an unsettled *)
(* Turn, continues the log, and appends worker events only.                *)
Accepted(m) ==
  /\ m.by = db.fence /\ db.lease = db.fence /\ ~Settled(db.fence)
  /\ m.lo <= db.persisted + 1 /\ db.persisted < m.hi
  /\ LogGrows /\ Len(log') = m.hi
  /\ \A s \in (db.persisted + 1)..m.hi : log'[s] = Entry(m.by, "worker")
  /\ log' \in Seq(Entries)
  /\ Terminals' = Terminals
  /\ \A f : Settled(f)' = Settled(f)
  /\ \A f : Settled(f) => TerminalOf(f)' = TerminalOf(f)
  /\ db' \in Cursors /\ db'.persisted = m.hi /\ db'.fence = db.fence /\ db'.lease = db.lease
  /\ db'.floor = db.floor /\ db'.projected = IF external THEN db.projected ELSE m.hi

(* An accepted publication is what Accepted says.                          *)
LEMMA AcceptedFacts ==
  ASSUME PipeInv, NEW m, Ingest(m), IngestOutcome(m) = "accept"
  PROVE Accepted(m)
<1>1. /\ m \in Batches /\ m.by \in Fences /\ m.lo \in Nat /\ m.hi \in Nat
      /\ Persist(m)
  BY IngestFrame
<1>2. /\ ~Stale(m) /\ ~Gap(m) /\ ~(m.hi <= db.persisted)
  BY DEF IngestOutcome
<1>3. m.by = db.fence /\ db.lease = db.fence /\ ~Settled(db.fence)
  BY <1>1, <1>2, Numbers DEF Stale, PipeInv, LogOK
<1>4. /\ m.lo <= db.persisted + 1 /\ db.persisted < m.hi /\ db.persisted \in Nat
      /\ db.persisted = Len(log) /\ log \in Seq(Entries) /\ DOMAIN log = 1..Len(log)
  BY <1>1, <1>2, Numbers DEF Gap, PipeInv, LogOK
<1> DEFINE ext == [i \in 1..(m.hi - db.persisted) |-> Entry(m.by, "worker")]
<1>5. ext \in Seq(Entries) /\ Len(ext) = m.hi - db.persisted
  <2>1. Entry(m.by, "worker") \in Entries
    BY <1>1 DEF Entry, Entries, Kinds
  <2>2. m.hi - db.persisted \in Nat
    BY <1>1, <1>4
  <2> QED BY <2>1, <2>2
<1>6. \A i \in 1..(m.hi - db.persisted) : ext[i] = Entry(m.by, "worker")
  OBVIOUS
<1>7. log' = log \o ext
  BY <1>1 DEF Persist
<1> HIDE DEF ext
<1>8. /\ log' \in Seq(Entries) /\ Len(log') = m.hi
      /\ \A i \in 1..m.hi : log'[i] = IF i <= Len(log) THEN log[i] ELSE ext[i - Len(log)]
  <2>1. /\ log \o ext \in Seq(Entries) /\ Len(log \o ext) = Len(log) + Len(ext)
        /\ \A i \in 1..(Len(log) + Len(ext)) :
              (log \o ext)[i] = IF i <= Len(log) THEN log[i] ELSE ext[i - Len(log)]
    BY <1>4, <1>5, ConcatProperties
  <2>2. Len(log) + Len(ext) = m.hi
    BY <1>1, <1>4, <1>5
  <2> QED BY <1>7, <2>1, <2>2
<1>9. DOMAIN log' = 1..m.hi
  BY <1>8
<1>10. \A s \in DOMAIN log : log'[s] = log[s] /\ s \in DOMAIN log'
  BY <1>1, <1>4, <1>8, <1>9
<1>11. \A s \in (db.persisted + 1)..m.hi : log'[s] = Entry(m.by, "worker") /\ s \notin DOMAIN log
  <2>1. SUFFICES ASSUME NEW s \in (db.persisted + 1)..m.hi
                 PROVE log'[s] = Entry(m.by, "worker") /\ s \notin DOMAIN log
    OBVIOUS
  <2>2. s \in 1..m.hi /\ ~(s <= Len(log)) /\ s - Len(log) \in 1..(m.hi - db.persisted)
    BY <1>1, <1>4
  <2> QED BY <1>4, <1>6, <1>8, <2>2
<1>12. db' = [db EXCEPT !.persisted = m.hi, !.projected = IF external THEN @ ELSE m.hi]
  BY <1>1 DEF Persist
<1>13. /\ db' \in Cursors /\ db'.persisted = m.hi /\ db'.fence = db.fence /\ db'.lease = db.lease
       /\ db'.floor = db.floor /\ db'.projected = IF external THEN db.projected ELSE m.hi
  BY <1>1, <1>12 DEF PipeInv, PipeTypes, Cursors
<1>14. LogGrows
  BY <1>1, <1>4, <1>8, <1>9, <1>10, <1>13 DEF LogGrows
<1>15. Terminals' = Terminals
  <2>1. Terminals' = {s \in DOMAIN log' : log'[s].kind = "terminal"}
    BY DEF Terminals
  <2>2. \A s \in DOMAIN log' : s \in DOMAIN log \/ log'[s] = Entry(m.by, "worker")
    BY <1>1, <1>4, <1>9, <1>11
  <2>3. Entry(m.by, "worker").kind # "terminal"
    BY DEF Entry
  <2> QED BY <1>10, <2>1, <2>2, <2>3 DEF Terminals
<1>16. \A s \in Terminals : log'[s] = log[s]
  BY <1>10 DEF Terminals
<1>17. ASSUME NEW f PROVE Settled(f)' = Settled(f) /\ (Settled(f) => TerminalOf(f)' = TerminalOf(f))
  <2>1. Settled(f)' = Settled(f)
    BY <1>15, <1>16 DEF Settled
  <2> QED BY <1>15, <1>16, <2>1, TerminalStays
<1> QED BY <1>3, <1>4, <1>8, <1>11, <1>13, <1>14, <1>15, <1>17 DEF Accepted

(* Accepting a publication keeps the invariant of the pipeline.            *)
LEMMA IngestAcceptKeeps ==
  ASSUME PipeInv, NEW m, Ingest(m), IngestOutcome(m) = "accept"
  PROVE PipeInv'
<1>1. /\ external' = external /\ worker' = worker /\ settle' = settle /\ proj' = proj
      /\ live' = live /\ jobs' = jobs /\ gateway' = gateway
      /\ m \in Batches /\ m.by \in Fences /\ m.lo \in Nat /\ m.hi \in Nat
      /\ worker[m.by].base < m.lo /\ m.lo <= m.hi /\ m.hi <= Ceiling(m.by) /\ m.by <= db.fence
      /\ net' \subseteq net
      /\ Persist(m)
      /\ reply' \in [Fences -> Replies]
      /\ \A f \in Fences :
           \/ reply'[f] = reply[f]
           \/ f = m.by /\ worker[f].flight = m.lo /\ worker[f].sent = m.hi /\ reply'[f] = "ack"
  BY IngestFrame
<1>2. Accepted(m)
  BY AcceptedFacts
<1>3. /\ db.persisted \in Nat /\ db.persisted = Len(log) /\ DOMAIN log = 1..Len(log)
      /\ DOMAIN log' = 1..m.hi /\ \A s \in DOMAIN log : log'[s] = log[s]
      /\ \A s \in DOMAIN log' : s \in DOMAIN log \/ (s > db.persisted /\ log'[s] = Entry(m.by, "worker"))
  <2>1. db.persisted \in Nat /\ db.persisted = Len(log) /\ DOMAIN log = 1..Len(log)
    BY Numbers DEF PipeInv, LogOK
  <2>2. DOMAIN log' = 1..m.hi /\ \A s \in DOMAIN log : log'[s] = log[s]
    BY <1>2 DEF Accepted, LogGrows
  <2>3. ASSUME NEW s \in DOMAIN log', s \notin DOMAIN log
        PROVE s > db.persisted /\ log'[s] = Entry(m.by, "worker")
    <3>1. s \in (db.persisted + 1)..m.hi
      BY <1>1, <2>1, <2>2, <2>3
    <3> QED BY <1>2, <2>1, <3>1 DEF Accepted
  <2> QED BY <2>1, <2>2, <2>3
<1>4. kafka' \in Seq(Batches)
      /\ (external => /\ Len(kafka') = Len(kafka) + 1
                      /\ DOMAIN kafka' = 1..(Len(kafka) + 1)
                      /\ \A i \in DOMAIN kafka : i \in DOMAIN kafka' /\ kafka'[i] = kafka[i]
                      /\ kafka'[Len(kafka) + 1] = [by |-> m.by, lo |-> db.persisted + 1, hi |-> m.hi, via |-> m.via])
      /\ (~external => kafka' = kafka)
  <2>1. [by |-> m.by, lo |-> db.persisted + 1, hi |-> m.hi, via |-> m.via] \in Batches
    BY <1>1, <1>3 DEF Batches
  <2>2. kafka \in Seq(Batches)
    BY Numbers DEF PipeInv
  <2> QED BY <1>1, <2>1, <2>2, KafkaGrows DEF Persist, Kafka
<1>5. PipeTypes'
  BY <1>1, <1>2, <1>4 DEF PipeInv, PipeTypes, Accepted
<1>6. LogOK'
  <2>1. \A i \in DOMAIN log' : log'[i].by <= db.fence
    <3>1. Entry(m.by, "worker").by <= db.fence
      BY <1>1 DEF Entry
    <3> QED BY <1>3, <3>1 DEF PipeInv, LogOK
  <2>2. ASSUME NEW i \in DOMAIN log', NEW j \in DOMAIN log', i <= j PROVE log'[i].by <= log'[j].by
    <3>1. CASE j \in DOMAIN log
      <4>1. i \in DOMAIN log
        BY <1>3, <2>2, <3>1, <1>1
      <4> QED BY <1>3, <2>2, <3>1, <4>1 DEF PipeInv, LogOK
    <3>2. CASE j \notin DOMAIN log
      <4>1. log'[j].by = db.fence
        BY <1>2, <1>3, <3>2 DEF Accepted, Entry
      <4> QED BY <2>1, <4>1
    <3> QED BY <3>1, <3>2
  <2>3. ASSUME NEW s \in Terminals, NEW i \in DOMAIN log', s < i PROVE log'[s].by < log'[i].by
    <3>1. s \in DOMAIN log /\ log'[s] = log[s]
      BY <1>3 DEF Terminals
    <3>2. CASE i \in DOMAIN log
      BY <1>3, <2>3, <3>1, <3>2 DEF PipeInv, LogOK
    <3>3. CASE i \notin DOMAIN log
      <4>1. log'[i].by = db.fence
        BY <1>2, <1>3, <3>3 DEF Accepted, Entry
      <4>2. log[s].by # db.fence
        BY <1>2 DEF Accepted, Settled
      <4>3. log[s].by <= db.fence /\ log[s].by \in Nat /\ db.fence \in Nat
        BY <3>1, Numbers DEF PipeInv, LogOK, Entries, Fences
      <4> QED BY <3>1, <4>1, <4>2, <4>3
    <3> QED BY <3>2, <3>3
  <2> QED BY <1>1, <1>2, <1>3, <2>1, <2>2, <2>3 DEF PipeInv, LogOK, Accepted, LogGrows
<1>7. CursorsOK'
  <2>1. db.floor <= db'.projected /\ db'.projected <= db'.persisted
        /\ \A s \in Terminals : s <= db'.projected
    <3>1. db.floor <= db.projected /\ db.projected <= db.persisted /\ db.persisted <= m.hi
          /\ \A s \in Terminals : s <= db.projected /\ s \in Nat
      BY <1>1, <1>2, <1>3, Numbers DEF PipeInv, CursorsOK, Accepted, Terminals
    <3>2. db'.projected = db.projected \/ db'.projected = m.hi
      BY <1>2 DEF Accepted
    <3>3. db'.persisted = m.hi /\ m.hi \in Nat /\ db.projected \in Nat /\ db.floor \in Nat
      BY <1>1, <1>2, Numbers DEF Accepted, PipeInv
    <3> QED BY <1>3, <3>1, <3>2, <3>3
  <2> QED BY <1>1, <1>2, <2>1 DEF PipeInv, CursorsOK, Accepted
<1>8. WindowsOK'
  <2>1. ASSUME NEW f \in Fences
        PROVE IF db.fence < f THEN worker[f] = FreshWorker /\ reply'[f] = None
              ELSE /\ worker[f].phase # "none"
                   /\ worker[f].base <= m.hi
                   /\ worker[f].base <= (f - 1) * (PerTurn + 1)
    <3>1. CASE db.fence < f
      <4>1. worker[f] = FreshWorker /\ reply[f] = None
        BY <3>1 DEF PipeInv, WindowsOK
      <4>2. f # m.by
        BY <1>2, <3>1, Numbers DEF PipeInv, Accepted
      <4> QED BY <1>1, <3>1, <4>1, <4>2
    <3>2. CASE ~(db.fence < f)
      <4>1. worker[f].phase # "none" /\ worker[f].base <= db.persisted
            /\ worker[f].base <= (f - 1) * (PerTurn + 1)
        BY <3>2 DEF PipeInv, WindowsOK
      <4>2. worker[f].base \in Nat /\ db.persisted < m.hi
        BY <1>2, Numbers DEF PipeInv, Accepted
      <4>3. worker[f].base <= m.hi
        BY <1>1, <1>3, <4>1, <4>2
      <4> QED BY <3>2, <4>1, <4>3
    <3> QED BY <3>1, <3>2
  <2>2. m.by = db.fence /\ ~Settled(db.fence) /\ db.fence # 0
    BY <1>1, <1>2, Numbers DEF PipeInv, Accepted
  <2>3. \A s \in (worker[db.fence].base + 1)..m.hi : log'[s] = Entry(db.fence, "worker")
    <3>1. SUFFICES ASSUME NEW s \in (worker[db.fence].base + 1)..m.hi
                   PROVE log'[s] = Entry(db.fence, "worker")
      OBVIOUS
    <3>2. CASE s <= db.persisted
      <4>1. s \in (worker[db.fence].base + 1)..db.persisted /\ s \in DOMAIN log
        BY <1>1, <1>3, <2>2, <3>2, Numbers DEF PipeInv
      <4> QED BY <1>1, <1>3, <2>2, <4>1 DEF PipeInv, WindowsOK
    <3>3. CASE ~(s <= db.persisted)
      <4>1. s \in (db.persisted + 1)..m.hi
        BY <1>1, <1>3, <2>2, <3>3, Numbers DEF PipeInv
      <4> QED BY <1>2, <2>2, <4>1 DEF Accepted
    <3> QED BY <3>2, <3>3
  <2>4. \A f \in Fences : f = db.fence =>
           IF Settled(f) THEN m.hi <= worker[f].base + PerTurn + 1
           ELSE /\ m.hi <= worker[f].base + PerTurn
                /\ \A s \in (worker[f].base + 1)..m.hi : log'[s] = Entry(f, "worker")
    BY <1>1, <2>2, <2>3 DEF Ceiling
  <2>5. db'.fence = db.fence /\ db'.persisted = m.hi /\ \A f : Settled(f)' = Settled(f)
    BY <1>2 DEF Accepted
  <2>6. \A n \in net' : /\ n.by <= db.fence
                        /\ worker[n.by].base < n.lo /\ n.lo <= n.hi /\ n.hi <= worker[n.by].base + PerTurn
    BY <1>1 DEF PipeInv, WindowsOK, Ceiling
  <2> QED BY <1>1, <2>1, <2>2, <2>4, <2>5, <2>6 DEF WindowsOK, Ceiling
<1>9. Durable(m.by, m.lo, m.hi)'
  <2>1. SUFFICES ASSUME NEW s \in m.lo..m.hi
                 PROVE s <= db'.persisted /\ log'[s] = Entry(m.by, "worker")
    BY DEF Durable
  <2>2. s \in (worker[m.by].base + 1)..m.hi /\ s <= m.hi
    <3>1. worker[m.by].base \in Nat
      BY <1>1, Numbers DEF PipeInv
    <3> QED BY <1>1, <3>1
  <2>3. \A x \in (worker[m.by].base + 1)..m.hi : log'[x] = Entry(m.by, "worker")
    BY <1>1, <1>2, <1>8 DEF WindowsOK, Accepted
  <2> QED BY <1>2, <2>2, <2>3 DEF Accepted
<1>10. SpoolsOK'
  <2>1. ASSUME NEW f \in Fences
        PROVE \/ reply'[f] = reply[f]
              \/ /\ worker[f].flight # 0
                 /\ reply'[f] = "ack" => Durable(f, worker[f].flight, worker[f].sent)'
    <3>1. SUFFICES ASSUME reply'[f] # reply[f]
                   PROVE /\ worker[f].flight # 0
                         /\ Durable(f, worker[f].flight, worker[f].sent)'
      OBVIOUS
    <3>2. f = m.by /\ worker[f].flight = m.lo /\ worker[f].sent = m.hi
      BY <1>1, <3>1
    <3>3. m.lo # 0
      <4>1. worker[m.by].base \in Nat /\ worker[m.by].base < m.lo
        BY <1>1, Numbers DEF PipeInv
      <4> QED BY <4>1
    <3> QED BY <1>1, <1>9, <3>2, <3>3 DEF Durable
  <2>2. LogGrows
    BY <1>2 DEF Accepted
  <2> QED BY <1>1, <2>1, <2>2, SpoolsStay
<1>11. KafkaOK'
  <2>1. external => \A s \in 1..m.hi : s \in Terminals \/ \E i \in DOMAIN kafka' : s \in kafka'[i].lo..kafka'[i].hi
    <3>1. SUFFICES ASSUME external, NEW s \in 1..m.hi, s \notin Terminals
                   PROVE \E i \in DOMAIN kafka' : s \in kafka'[i].lo..kafka'[i].hi
      OBVIOUS
    <3>2. CASE s <= db.persisted
      <4>1. s \in 1..db.persisted
        BY <1>3, <3>2
      <4>2. PICK i \in DOMAIN kafka : InBatch(s, i)
        BY <3>1, <4>1 DEF PipeInv, KafkaOK
      <4>3. i \in DOMAIN kafka' /\ kafka'[i] = kafka[i]
        BY <1>4, <3>1
      <4> QED BY <4>2, <4>3 DEF InBatch
    <3>3. CASE ~(s <= db.persisted)
      <4>1. Len(kafka) + 1 \in DOMAIN kafka'
        BY <1>4, <3>1, Numbers DEF PipeInv
      <4>2. s \in (db.persisted + 1)..m.hi
        BY <1>1, <1>3, <3>3
      <4> QED BY <1>4, <3>1, <4>1, <4>2
    <3> QED BY <3>2, <3>3
  <2>2. ASSUME NEW i \in DOMAIN kafka'
        PROVE 1 <= kafka'[i].lo /\ kafka'[i].lo <= kafka'[i].hi /\ kafka'[i].by <= db.fence
    <3>1. i \in DOMAIN kafka \/ (external /\ i = Len(kafka) + 1)
      <4>1. Len(kafka) \in Nat /\ DOMAIN kafka = 1..Len(kafka)
        BY Numbers DEF PipeInv
      <4>2. CASE external
        <5>1. i \in 1..(Len(kafka) + 1)
          BY <1>4, <2>2, <4>2
        <5> QED BY <4>1, <4>2, <5>1
      <4>3. CASE ~external
        BY <1>4, <2>2, <4>3
      <4> QED BY <4>2, <4>3
    <3>2. CASE i \in DOMAIN kafka
      BY <1>4, <3>2 DEF PipeInv, KafkaOK
    <3>3. CASE external /\ i = Len(kafka) + 1
      <4>1. db.persisted + 1 <= m.hi /\ 1 <= db.persisted + 1
        BY <1>1, <1>2, <1>3 DEF Accepted
      <4> QED BY <1>1, <1>4, <3>3, <4>1
    <3> QED BY <3>1, <3>2, <3>3
  <2>3. proj.pos \in 1..(proj.stored + 1) /\ proj.stored <= Len(kafka')
    BY <1>4, Numbers DEF PipeInv, KafkaOK
  <2> QED BY <1>1, <1>2, <1>4, <2>1, <2>2, <2>3 DEF PipeInv, KafkaOK, Accepted, InBatch
<1>12. LiveOK'
  <2>1. \A e \in live.events : \E i \in DOMAIN kafka' :
            e.seq \in kafka'[i].lo..kafka'[i].hi /\ e.by = kafka'[i].by /\ e.kind = "worker"
    <3>1. SUFFICES ASSUME NEW e \in live.events
                   PROVE \E i \in DOMAIN kafka' :
                            e.seq \in kafka'[i].lo..kafka'[i].hi /\ e.by = kafka'[i].by /\ e.kind = "worker"
      OBVIOUS
    <3>2. PICK i \in DOMAIN kafka : InBatch(e.seq, i) /\ e.by = kafka[i].by /\ e.kind = "worker"
      BY DEF PipeInv, LiveOK
    <3>3. i \in DOMAIN kafka' /\ kafka'[i] = kafka[i]
      BY <1>4
    <3> QED BY <3>2, <3>3 DEF InBatch
  <2>2. \A s : Excused(s) => Excused(s)'
    <3>1. \A f \in Fences : jobs[f] \in {"trimmed", "again"} => TerminalOf(f)' = TerminalOf(f)
      BY <1>2 DEF PipeInv, CursorsOK, Accepted, None
    <3> QED BY <1>1, <3>1 DEF Excused
  <2>3. external => db'.projected = db.projected
    BY <1>2 DEF Accepted
  <2> QED BY <1>1, <1>2, <2>1, <2>2, <2>3 DEF PipeInv, LiveOK, InBatch, Accepted
<1> QED BY <1>5, <1>6, <1>7, <1>8, <1>10, <1>11, <1>12 DEF PipeInv

(* What the terminal event of a Turn does to the log.                      *)
Closed(f) ==
  /\ LogGrows /\ Len(log') = db.persisted + 1 /\ log' \in Seq(Entries)
  /\ log'[db.persisted + 1] = Entry(f, "terminal")
  /\ Terminals' = Terminals \cup {db.persisted + 1}
  /\ \A g : Settled(g)' = (Settled(g) \/ g = f)
  /\ \A g : Settled(g) => TerminalOf(g)' = TerminalOf(g)

(* CommitTerminal appends one terminal event.                              *)
LEMMA ClosedFacts ==
  ASSUME PipeInv, NEW f \in Fences, f = db.fence, ~Settled(f), log' = Append(log, Entry(f, "terminal")),
         db'.persisted = db.persisted + 1
  PROVE Closed(f)
<1>1. db.persisted \in Nat /\ db.persisted = Len(log) /\ log \in Seq(Entries) /\ DOMAIN log = 1..Len(log)
  BY Numbers DEF PipeInv, LogOK
<1>2. Entry(f, "terminal") \in Entries /\ Entry(f, "terminal").by = f /\ Entry(f, "terminal").kind = "terminal"
  BY DEF Entry, Entries, Kinds
<1>3. /\ log' \in Seq(Entries) /\ Len(log') = db.persisted + 1 /\ DOMAIN log' = 1..(db.persisted + 1)
      /\ \A s \in DOMAIN log : log'[s] = log[s] /\ s \in DOMAIN log'
      /\ log'[db.persisted + 1] = Entry(f, "terminal")
  BY <1>1, <1>2
<1>4. LogGrows
  BY <1>1, <1>3 DEF LogGrows
<1>5. Terminals' = Terminals \cup {db.persisted + 1}
  <2>1. \A s \in DOMAIN log' : s \in DOMAIN log \/ s = db.persisted + 1
    BY <1>1, <1>3
  <2>2. db.persisted + 1 \in DOMAIN log'
    BY <1>1, <1>3
  <2>3. Terminals' = {s \in DOMAIN log' : log'[s].kind = "terminal"}
    BY DEF Terminals
  <2> QED BY <1>2, <1>3, <2>1, <2>2, <2>3 DEF Terminals
<1>6. \A s \in Terminals : log'[s] = log[s]
  BY <1>3 DEF Terminals
<1>7. ASSUME NEW g PROVE Settled(g)' = (Settled(g) \/ g = f)
  BY <1>2, <1>3, <1>5, <1>6 DEF Settled
<1>8. ASSUME NEW g, Settled(g) PROVE TerminalOf(g)' = TerminalOf(g)
  <2>1. g # f
    BY <1>8
  <2>2. \A s \in Terminals' : s \in Terminals \/ log'[s].by # g
    BY <1>2, <1>3, <1>5, <2>1
  <2> QED BY <1>5, <1>6, <1>8, <2>2, TerminalStays
<1> QED BY <1>3, <1>4, <1>5, <1>7, <1>8 DEF Closed

(* The terminal event keeps the invariant of the pipeline.                 *)
LEMMA CommitTerminalKeeps ==
  ASSUME PipeInv, NEW f \in Fences, NEW outcome \in {"completed", "failed"}, CommitTerminal(f, outcome)
  PROVE PipeInv'
<1> DEFINE seq == db.persisted + 1
<1>1. /\ f = db.fence /\ ~Settled(f) /\ db.projected = db.persisted
      /\ external' = external /\ worker' = worker /\ net' = net /\ reply' = reply
      /\ kafka' = kafka /\ proj' = proj /\ live' = live /\ gateway' = gateway
      /\ log' = Append(log, Entry(f, "terminal"))
      /\ db' = [db EXCEPT !.persisted = seq, !.projected = seq, !.lease = 0]
      /\ jobs' = [jobs EXCEPT ![f] = IF external THEN "pending" ELSE @]
  BY DEF CommitTerminal, Settling, workerVars
<1>2. db.persisted \in Nat /\ seq \in Nat /\ db.persisted = Len(log) /\ DOMAIN log = 1..Len(log)
  BY Numbers DEF PipeInv, LogOK
<1>3. /\ db' \in Cursors /\ db'.persisted = seq /\ db'.projected = seq /\ db'.lease = 0
      /\ db'.fence = db.fence /\ db'.floor = db.floor
  <2>1. db \in Cursors /\ 0 \in 0..MaxFence
    BY Numbers DEF PipeInv, PipeTypes
  <2> HIDE DEF seq
  <2> QED BY <1>1, <1>2, <2>1 DEF Cursors
<1>4. Closed(f)
  BY <1>1, <1>3, ClosedFacts
<1>5. settle' \in [Fences -> Settlements]
  <2> DEFINE p == settle[f]
             own == IF external THEN p.read
                    ELSE {EventAt(s) : s \in {s \in DOMAIN log : log[s].by = f}}
             t == {Event(seq, Entry(f, "terminal"))} \cup own
  <2>1. settle' = [settle EXCEPT ![f].outcome = outcome, ![f].transcript = t]
    BY DEF CommitTerminal
  <2>2. p \in Settlements
    BY DEF PipeInv, PipeTypes
  <2>3. own \subseteq Events
    <3>1. \A s \in DOMAIN log : EventAt(s) \in Events
      <4>1. \A s \in DOMAIN log : log[s] \in Entries /\ s \in Nat
        BY <1>2, Numbers DEF PipeInv
      <4> QED BY <4>1 DEF EventAt, Event, Events, Entries
    <3> QED BY <2>2, <3>1 DEF Settlements
  <2>4. Event(seq, Entry(f, "terminal")) \in Events
    BY <1>2 DEF Event, Entry, Events, Kinds
  <2>5. t \in SUBSET Events
    BY <2>3, <2>4
  <2> HIDE DEF t, p
  <2>6. [[p EXCEPT !.outcome = outcome] EXCEPT !.transcript = t] \in Settlements
    BY <2>2, <2>5 DEF Settlements
  <2>7. settle' = [settle EXCEPT ![f] = [[p EXCEPT !.outcome = outcome] EXCEPT !.transcript = t]]
    BY <2>1 DEF p, PipeInv, PipeTypes
  <2> QED BY <2>6, <2>7 DEF PipeInv, PipeTypes
<1>6. PipeTypes'
  <2>1. jobs' \in [Fences -> {None, "pending", "again", "trimmed", "done"}]
    BY <1>1 DEF PipeInv, PipeTypes
  <2>2. log' \in Seq(Entries)
    BY <1>4 DEF Closed
  <2> QED BY <1>1, <1>3, <1>5, <2>1, <2>2 DEF PipeInv, PipeTypes
<1>7. /\ DOMAIN log' = 1..seq /\ \A s \in DOMAIN log : log'[s] = log[s]
      /\ \A s \in DOMAIN log' : s \in DOMAIN log \/ s = seq
      /\ log'[seq] = Entry(f, "terminal") /\ log'[seq].by = f
      /\ Terminals' = Terminals \cup {seq} /\ \A s \in Terminals : s \in DOMAIN log
      /\ \A s \in DOMAIN log : s < seq
  BY <1>2, <1>4 DEF Closed, LogGrows, Entry, Terminals
<1>8. \A i \in DOMAIN log : log[i].by \in Nat /\ log[i].by <= db.fence /\ db.fence \in Nat
  BY Numbers DEF PipeInv, LogOK, Entries, Fences
<1>9. LogOK'
  <2>1. \A i \in DOMAIN log' : log'[i].by <= db.fence
    BY <1>1, <1>7, <1>8, Numbers DEF PipeInv
  <2>2. ASSUME NEW i \in DOMAIN log', NEW j \in DOMAIN log', i <= j PROVE log'[i].by <= log'[j].by
    <3>1. CASE j = seq
      BY <1>1, <1>7, <2>1, <3>1
    <3>2. CASE j # seq
      <4>1. j \in DOMAIN log
        BY <1>7, <3>2
      <4>2. i \in DOMAIN log
        BY <1>2, <1>7, <2>2, <4>1
      <4> QED BY <1>7, <2>2, <4>1, <4>2 DEF PipeInv, LogOK
    <3> QED BY <3>1, <3>2
  <2>3. ASSUME NEW s \in Terminals', NEW i \in DOMAIN log', s < i PROVE log'[s].by < log'[i].by
    <3>1. CASE s = seq
      BY <1>2, <1>7, <2>3, <3>1
    <3>2. CASE s # seq
      <4>1. s \in Terminals /\ s \in DOMAIN log /\ log'[s] = log[s]
        BY <1>7, <3>2
      <4>2. CASE i = seq
        <5>1. log[s].by # f
          BY <1>1, <4>1 DEF Settled
        <5> QED BY <1>1, <1>7, <1>8, <4>1, <4>2, <5>1
      <4>3. CASE i # seq
        BY <1>7, <2>3, <4>1, <4>3 DEF PipeInv, LogOK
      <4> QED BY <4>2, <4>3
    <3> QED BY <3>1, <3>2
  <2>4. Len(log') = seq
    BY <1>4 DEF Closed
  <2>5. \A g \in Fences : g < db.fence => Settled(g)'
    BY <1>4 DEF PipeInv, LogOK, Closed
  <2> QED BY <1>3, <2>1, <2>2, <2>3, <2>4, <2>5 DEF LogOK
<1>10. \A g \in Fences : jobs'[g] = jobs[g] \/ (g = f /\ external /\ jobs'[g] = "pending")
  BY <1>1 DEF PipeInv, PipeTypes
<1>11. CursorsOK'
  <2>1. db.floor <= seq /\ db.floor \in Nat
    BY <1>1, <1>2, Numbers DEF PipeInv, CursorsOK
  <2>2. \A s \in Terminals' : s <= seq
    BY <1>2, <1>7
  <2>3. \A g \in Fences : jobs'[g] # None => external /\ Settled(g)'
    BY <1>4, <1>10 DEF PipeInv, CursorsOK, Closed
  <2>4. db.floor = 0 \/ db.floor \in Terminals'
    BY <1>7 DEF PipeInv, CursorsOK
  <2> QED BY <1>1, <1>2, <1>3, <2>1, <2>2, <2>3, <2>4 DEF CursorsOK
<1>12. WindowsOK'
  <2>1. f # 0 /\ f \in Nat /\ worker[f].base \in Nat
    BY Numbers DEF PipeInv
  <2>2. ASSUME NEW g \in Fences
        PROVE IF db.fence < g THEN worker[g] = FreshWorker /\ reply[g] = None
              ELSE /\ worker[g].phase # "none"
                   /\ worker[g].base <= seq
                   /\ worker[g].base <= (g - 1) * (PerTurn + 1)
    <3>1. worker[g].base \in Nat
      BY Numbers DEF PipeInv
    <3>2. worker[g].base <= db.persisted => worker[g].base <= seq
      BY <1>2, <3>1
    <3> QED BY <3>2 DEF PipeInv, WindowsOK
  <2>3. seq <= worker[f].base + PerTurn + 1
    <3>1. db.persisted <= worker[f].base + PerTurn
      BY <1>1 DEF PipeInv, WindowsOK, Ceiling
    <3>2. PerTurn \in Nat
      BY PipelineAssumption
    <3> QED BY <1>2, <2>1, <3>1, <3>2
  <2>4. Settled(f)'
    BY <1>4 DEF Closed
  <2>5. \A n \in net : /\ n.by <= db.fence
                       /\ worker[n.by].base < n.lo /\ n.lo <= n.hi /\ n.hi <= worker[n.by].base + PerTurn
    BY DEF PipeInv, WindowsOK, Ceiling
  <2> QED BY <1>1, <1>3, <2>1, <2>2, <2>3, <2>4, <2>5 DEF WindowsOK, Ceiling
<1>13. SpoolsOK'
  <2>1. LogGrows
    BY <1>4 DEF Closed
  <2> QED BY <1>1, <2>1, SpoolsStay
<1>14. KafkaOK'
  <2>1. \A s \in 1..seq : s \in 1..db.persisted \/ s = seq
    BY <1>2
  <2> QED BY <1>1, <1>3, <1>7, <2>1 DEF PipeInv, KafkaOK, InBatch
<1>15. LiveOK'
  <2>1. \A s : Excused(s) => Excused(s)'
    <3>1. SUFFICES ASSUME NEW s, Excused(s) PROVE Excused(s)'
      OBVIOUS
    <3>2. PICK g \in Fences : jobs[g] \in {"trimmed", "again"} /\ s <= TerminalOf(g)
      BY <3>1 DEF Excused
    <3>3. Settled(g) /\ g # f
      BY <1>1, <3>2 DEF PipeInv, CursorsOK, None
    <3>4. jobs'[g] = jobs[g] /\ TerminalOf(g)' = TerminalOf(g)
      BY <1>4, <1>10, <3>3 DEF Closed
    <3> QED BY <3>2, <3>4 DEF Excused
  <2>2. external => \A s \in (db.floor + 1)..seq :
          s \in Terminals' \/ live.lost \/ s \in Seqs(live.events) \/ Excused(s)'
    <3>1. SUFFICES ASSUME external, NEW s \in (db.floor + 1)..seq
                   PROVE s \in Terminals' \/ live.lost \/ s \in Seqs(live.events) \/ Excused(s)'
      OBVIOUS
    <3>2. s = seq \/ s \in (db.floor + 1)..db.projected
      BY <1>1, <1>2, Numbers DEF PipeInv
    <3> QED BY <1>7, <2>1, <3>1, <3>2 DEF PipeInv, LiveOK
  <2>3. external => \A s, t \in 1..seq :
          s <= t /\ s \in Seqs(live.events) => t \in Terminals' \/ t \in Seqs(live.events)
    <3>1. SUFFICES ASSUME external, NEW s \in 1..seq, NEW t \in 1..seq, s <= t, s \in Seqs(live.events), t # seq
                   PROVE t \in Terminals' \/ t \in Seqs(live.events)
      BY <1>7
    <3>2. s \in 1..db.projected /\ t \in 1..db.projected
      BY <1>1, <1>2, <3>1
    <3> QED BY <1>7, <3>1, <3>2 DEF PipeInv, LiveOK
  <2> QED BY <1>1, <1>3, <2>2, <2>3 DEF PipeInv, LiveOK, InBatch
<1> QED BY <1>6, <1>9, <1>11, <1>12, <1>13, <1>14, <1>15 DEF PipeInv
-----------------------------------------------------------------------------
(* Steps of the projector, of the live store and of its retention.         *)

(* The events of a batch.                                                  *)
LEMMA BatchFacts ==
  ASSUME NEW f, NEW lo, NEW hi
  PROVE /\ \A e \in Batch(f, lo, hi) : e.seq \in lo..hi /\ e.by = f /\ e.kind = "worker"
        /\ \A s \in lo..hi : Event(s, Entry(f, "worker")) \in Batch(f, lo, hi)
        /\ \A s \in lo..hi : s \in Seqs(Batch(f, lo, hi))
        /\ \A e \in Batch(f, lo, hi) : e = Event(e.seq, Entry(f, "worker"))
        /\ f \in Fences /\ lo \in Nat /\ hi \in Nat => Batch(f, lo, hi) \subseteq Events
<1>1. \A s : /\ Event(s, Entry(f, "worker")).seq = s /\ Event(s, Entry(f, "worker")).by = f
             /\ Event(s, Entry(f, "worker")).kind = "worker"
  BY DEF Event, Entry
<1>2. \A s \in lo..hi : Event(s, Entry(f, "worker")) \in Batch(f, lo, hi)
  BY DEF Batch
<1>3. \A e \in Batch(f, lo, hi) : \E s \in lo..hi : e = Event(s, Entry(f, "worker"))
  BY DEF Batch
<1>4. \A e \in Batch(f, lo, hi) : /\ e.seq \in lo..hi /\ e.by = f /\ e.kind = "worker"
                                  /\ e = Event(e.seq, Entry(f, "worker"))
  BY <1>1, <1>3
<1>5. ASSUME NEW s \in lo..hi PROVE s \in Seqs(Batch(f, lo, hi))
  BY <1>1, <1>2 DEF Seqs
<1>6. ASSUME f \in Fences, lo \in Nat, hi \in Nat PROVE Batch(f, lo, hi) \subseteq Events
  <2>1. \A s \in lo..hi : Event(s, Entry(f, "worker")) \in Events
    BY <1>6 DEF Event, Entry, Events, Kinds
  <2> QED BY <1>3, <2>1
<1> QED BY <1>2, <1>4, <1>5, <1>6

(* The sequence numbers of a set of events.                                *)
LEMMA SeqsFacts ==
  ASSUME NEW E, NEW F
  PROVE /\ Seqs(E \cup F) = Seqs(E) \cup Seqs(F)
        /\ \A e \in E : e.seq \in Seqs(E)
        /\ \A s \in Seqs(E) : \E e \in E : e.seq = s
        /\ Seqs({}) = {}
  BY DEF Seqs

Lives == [last : Nat, events : SUBSET Events, batched : SUBSET Nat, lost : BOOLEAN]

(* Appending to the live stream keeps its type.                            *)
LEMMA AppendLiveFacts ==
  ASSUME NEW lv \in Lives, NEW base \in Nat, NEW via,
         NEW batch \in SUBSET Events, NEW n \in Nat, \A e \in batch : e.seq <= n
  PROVE /\ AppendLive(lv, base, batch, via) \in Lives
        /\ AppendLive(lv, base, batch, via).events = lv.events \cup batch
        /\ AppendLive(lv, base, batch, via).lost = lv.lost
        /\ lv.last <= AppendLive(lv, base, batch, via).last
        /\ base <= AppendLive(lv, base, batch, via).last
        /\ \A e \in batch : e.seq <= AppendLive(lv, base, batch, via).last
        /\ AppendLive(lv, base, batch, via).last \in {lv.last, base} \cup Seqs(batch)
<1> DEFINE T == {lv.last, base} \cup Seqs(batch)
           k == n + lv.last + base
           B == IF via = "batch" THEN lv.batched \cup Seqs(batch) ELSE lv.batched
<1>1. lv.last \in Nat /\ lv.events \subseteq Events /\ lv.lost \in BOOLEAN /\ lv.batched \subseteq Nat
  BY DEF Lives
<1>2. \A e \in batch : e.seq \in Nat
  BY DEF Events
<1>3. T \subseteq Nat /\ T # {} /\ lv.last \in T /\ base \in T /\ \A e \in batch : e.seq \in T
  BY <1>1, <1>2 DEF Seqs
<1>4. k \in Nat /\ \A x \in T : x <= k
  BY <1>1, <1>2 DEF Seqs
<1>5. Max(T) \in T /\ \A x \in T : x <= Max(T)
  <2> HIDE DEF T, k
  <2> QED BY <1>3, <1>4, MaxNat
<1>6. AppendLive(lv, base, batch, via) = [lv EXCEPT !.last = Max(T), !.events = lv.events \cup batch, !.batched = B]
  BY DEF AppendLive
<1>9. B \subseteq Nat
  BY <1>1, <1>2 DEF Seqs
<1> HIDE DEF T, B
<1>7. Max(T) \in Nat
  BY <1>3, <1>5
<1>8. /\ AppendLive(lv, base, batch, via) \in Lives
      /\ AppendLive(lv, base, batch, via).events = lv.events \cup batch
      /\ AppendLive(lv, base, batch, via).lost = lv.lost
      /\ AppendLive(lv, base, batch, via).last = Max(T)
  BY <1>1, <1>6, <1>7, <1>9 DEF Lives
<1> QED BY <1>3, <1>5, <1>8 DEF T, B

(* ... and which of its events it keeps as sent in a batch.                *)
LEMMA AppendLiveBatched ==
  ASSUME NEW lv \in Lives, NEW base, NEW via, NEW batch
  PROVE AppendLive(lv, base, batch, via).batched
           = IF via = "batch" THEN lv.batched \cup Seqs(batch) ELSE lv.batched
BY DEF AppendLive, Lives

(* The greater of two numbers.                                             *)
LEMMA MaxPair ==
  ASSUME NEW a \in Nat, NEW b \in Nat
  PROVE Max({a, b}) \in {a, b} /\ a <= Max({a, b}) /\ b <= Max({a, b})
<1>1. {a, b} \subseteq Nat /\ {a, b} # {} /\ a + b \in Nat /\ \A x \in {a, b} : x <= a + b
  OBVIOUS
<1>2. Max({a, b}) \in {a, b} /\ \A x \in {a, b} : x <= Max({a, b})
  BY <1>1, MaxNat
<1> QED BY <1>2

(* The lesser of two numbers.                                              *)
LEMMA MinPair ==
  ASSUME NEW a \in Nat, NEW b \in Nat
  PROVE Min({a, b}) \in {a, b} /\ Min({a, b}) <= a /\ Min({a, b}) <= b
<1>1. \E x \in {a, b} : \A y \in {a, b} : x <= y
  OBVIOUS
<1>2. Min({a, b}) \in {a, b} /\ \A y \in {a, b} : Min({a, b}) <= y
  BY <1>1 DEF Min
<1> QED BY <1>2

(* Steps that leave the log and the Workers alone and keep the rest.       *)
LEMMA LiveMovesKeep ==
  ASSUME PipeInv, worker' = worker, reply' = reply, net' = net, log' = log, external' = external,
         db'.persisted = db.persisted, db'.fence = db.fence, db'.lease = db.lease,
         PipeTypes', CursorsOK', KafkaOK', LiveOK'
  PROVE PipeInv'
  BY LogUnchanged DEF PipeInv

(* What a projection that Valkey takes does to the live stream.            *)
LEMMA ProjectedFacts ==
  ASSUME PipeInv, CanProject, Projectable
  PROVE /\ external
        /\ proj.pos \in DOMAIN kafka /\ Envelope \in Batches /\ Envelope.hi <= db.persisted
        /\ Envelope.lo <= db.projected + 1
        /\ Projected(live) \in Lives
        /\ Projected(live).events = live.events \cup Fresh
        /\ Projected(live).lost = live.lost
        /\ \A e \in Fresh : /\ InBatch(e.seq, proj.pos) /\ e.by = kafka[proj.pos].by /\ e.kind = "worker"
                            /\ e.seq > db.projected
        /\ \A s \in (db.projected + 1)..Envelope.hi : s \in Seqs(Fresh)
<1>1. proj.pos \in DOMAIN kafka /\ Envelope.hi <= db.persisted /\ Envelope.lo <= db.projected + 1
  BY DEF CanProject, Projectable
<1>2. external
  <2>1. kafka # << >>
    BY <1>1, Numbers DEF PipeInv
  <2> QED BY <2>1 DEF PipeInv, KafkaOK
<1>3. Envelope \in Batches /\ Envelope = kafka[proj.pos]
  BY <1>1, Numbers DEF PipeInv, Envelope
<1>4. Envelope.by \in Fences /\ Envelope.lo \in Nat /\ Envelope.hi \in Nat /\ db.projected \in Nat
  BY <1>3, Numbers DEF PipeInv, Batches
<1> DEFINE a == Max({Envelope.lo, db.projected + 1})
<1>5. a \in Nat /\ Envelope.lo <= a /\ db.projected + 1 <= a /\ a = db.projected + 1
  <2>1. db.projected + 1 \in Nat
    BY <1>4
  <2>2. a \in {Envelope.lo, db.projected + 1} /\ Envelope.lo <= a /\ db.projected + 1 <= a
    BY <1>4, <2>1, MaxPair
  <2> QED BY <1>1, <1>4, <2>1, <2>2
<1>6. Fresh = Batch(Envelope.by, a, Envelope.hi)
  BY DEF Fresh
<1> HIDE DEF a
<1>7. /\ \A e \in Fresh : e.seq \in a..Envelope.hi /\ e.by = Envelope.by /\ e.kind = "worker"
      /\ \A s \in a..Envelope.hi : s \in Seqs(Fresh)
      /\ Fresh \subseteq Events
  BY <1>4, <1>5, <1>6, BatchFacts
<1>8. \A e \in Fresh : /\ InBatch(e.seq, proj.pos) /\ e.by = kafka[proj.pos].by /\ e.kind = "worker"
                       /\ e.seq > db.projected
  BY <1>3, <1>4, <1>5, <1>7 DEF InBatch
<1>9. live \in Lives
  BY DEF PipeInv, PipeTypes, Lives
<1>10. /\ Projected(live) \in Lives /\ Projected(live).events = live.events \cup Fresh
       /\ Projected(live).lost = live.lost
  <2>1. CASE Fresh = {}
    BY <1>9, <2>1 DEF Projected
  <2>2. CASE Fresh # {}
    <3>1. Projected(live) = AppendLive(live, db.projected, Fresh, Envelope.via)
      BY <2>2 DEF Projected
    <3>2. \A e \in Fresh : e.seq <= Envelope.hi
      BY <1>4, <1>5, <1>7
    <3> QED BY <1>4, <1>7, <1>9, <3>1, <3>2, AppendLiveFacts
  <2> QED BY <2>1, <2>2
<1> QED BY <1>1, <1>2, <1>3, <1>5, <1>7, <1>8, <1>10

(* Projecting an envelope keeps the invariant of the pipeline.             *)
LEMMA ProjectKeeps ==
  ASSUME PipeInv, Project
  PROVE PipeInv'
<1>1. /\ external' = external /\ worker' = worker /\ net' = net /\ reply' = reply /\ log' = log
      /\ settle' = settle /\ kafka' = kafka /\ jobs' = jobs /\ gateway' = gateway
      /\ live' = Projected(live)
      /\ db' = [db EXCEPT !.projected = Max({@, Envelope.hi})]
      /\ proj' = [proj EXCEPT !.pos = @ + 1, !.stored = proj.pos]
  BY DEF Project, workerVars
<1>2. /\ external
      /\ proj.pos \in DOMAIN kafka /\ Envelope \in Batches /\ Envelope.hi <= db.persisted
      /\ Projected(live) \in Lives
      /\ Projected(live).events = live.events \cup Fresh
      /\ Projected(live).lost = live.lost
      /\ \A e \in Fresh : /\ InBatch(e.seq, proj.pos) /\ e.by = kafka[proj.pos].by /\ e.kind = "worker"
                          /\ e.seq > db.projected
      /\ \A s \in (db.projected + 1)..Envelope.hi : s \in Seqs(Fresh)
  BY ProjectedFacts DEF Project
<1> DEFINE p == Max({db.projected, Envelope.hi})
<1>3. p \in Nat /\ p \in {db.projected, Envelope.hi} /\ db.projected <= p /\ Envelope.hi \in Nat
      /\ db.projected \in Nat /\ db.persisted \in Nat
  BY <1>2, Numbers, MaxPair DEF PipeInv, Batches
<1>4. db' = [db EXCEPT !.projected = p]
  BY <1>1
<1> HIDE DEF p
<1>5. /\ db' \in Cursors /\ db'.persisted = db.persisted /\ db'.fence = db.fence
      /\ db'.lease = db.lease /\ db'.floor = db.floor /\ db'.projected = p
  BY <1>3, <1>4 DEF PipeInv, PipeTypes, Cursors
<1>6. proj' \in [pos : Nat, stored : Nat, dead : BOOLEAN] /\ proj'.pos = proj.pos + 1 /\ proj'.stored = proj.pos
  <2>1. proj \in [pos : Nat, stored : Nat, dead : BOOLEAN] /\ proj.pos \in Nat /\ proj.pos + 1 \in Nat
    BY Numbers DEF PipeInv, PipeTypes
  <2>2. PICK q \in Nat, r \in Nat : q = proj.pos /\ r = q + 1
    BY <2>1
  <2>3. proj' = [proj EXCEPT !.pos = r, !.stored = q]
    BY <1>1, <2>2
  <2>4. proj' \in [pos : Nat, stored : Nat, dead : BOOLEAN] /\ proj'.pos = r /\ proj'.stored = q
    BY <2>1, <2>3
  <2> QED BY <2>2, <2>4
<1>7. PipeTypes'
  BY <1>1, <1>2, <1>5, <1>6 DEF PipeInv, PipeTypes, Lives
<1>8. Terminals' = Terminals /\ \A f : Settled(f)' = Settled(f) /\ TerminalOf(f)' = TerminalOf(f)
  BY <1>1 DEF Terminals, Settled, TerminalOf
<1>9. CursorsOK'
  <2>1. db.floor <= p /\ p <= db.persisted /\ \A s \in Terminals : s <= p
    BY <1>2, <1>3, Numbers DEF PipeInv, CursorsOK, Terminals
  <2>2. /\ db.floor = 0 \/ db.floor \in Terminals
        /\ \A f \in Fences : jobs[f] # None => external /\ Settled(f)
    BY DEF PipeInv, CursorsOK
  <2>3. db'.floor <= db'.projected /\ db'.projected <= db'.persisted
    BY <1>5, <2>1
  <2>4. \A s \in Terminals' : s <= db'.projected
    BY <1>5, <1>8, <2>1
  <2>5. db'.floor = 0 \/ db'.floor \in Terminals'
    BY <1>5, <1>8, <2>2
  <2>6. \A f \in Fences : jobs'[f] # None => external' /\ Settled(f)'
    BY <1>1, <1>8, <2>2
  <2> QED BY <1>1, <1>2, <2>3, <2>4, <2>5, <2>6 DEF CursorsOK
<1>10. KafkaOK'
  <2>1. proj'.pos \in 1..(proj'.stored + 1) /\ proj'.stored <= Len(kafka)
    BY <1>2, <1>6, Numbers DEF PipeInv
  <2> QED BY <1>1, <1>5, <1>8, <2>1 DEF PipeInv, KafkaOK, InBatch
<1>11. Seqs(live'.events) = Seqs(live.events) \cup Seqs(Fresh)
  BY <1>1, <1>2, SeqsFacts
<1>12. \A s \in Seqs(Fresh) : s > db.projected
  BY <1>2, SeqsFacts
<1>13. LiveOK'
  <2>1. \A e \in live'.events : \E i \in DOMAIN kafka :
           InBatch(e.seq, i) /\ e.by = kafka[i].by /\ e.kind = "worker"
    BY <1>1, <1>2 DEF PipeInv, LiveOK
  <2>2. \A s \in (db.floor + 1)..p : s \in Terminals \/ live.lost \/ s \in Seqs(live'.events) \/ Excused(s)
    <3>1. \A s \in (db.floor + 1)..p : s \in (db.floor + 1)..db.projected
                                       \/ s \in (db.projected + 1)..Envelope.hi
      BY <1>3, Numbers DEF PipeInv
    <3> QED BY <1>2, <1>11, <3>1 DEF PipeInv, LiveOK
  <2>3. \A s, t \in 1..p : s <= t /\ s \in Seqs(live'.events) => t \in Terminals \/ t \in Seqs(live'.events)
    <3>1. SUFFICES ASSUME NEW s \in 1..p, NEW t \in 1..p, s <= t, s \in Seqs(live'.events)
                   PROVE t \in Terminals \/ t \in Seqs(live'.events)
      OBVIOUS
    <3>2. CASE t <= db.projected
      <4>1. s \in 1..db.projected /\ t \in 1..db.projected /\ s \in Seqs(live.events)
        BY <1>3, <1>11, <1>12, <3>1, <3>2
      <4> QED BY <1>2, <1>11, <3>1, <4>1 DEF PipeInv, LiveOK
    <3>3. CASE ~(t <= db.projected)
      <4>1. t \in (db.projected + 1)..Envelope.hi
        BY <1>3, <3>3
      <4> QED BY <1>2, <1>11, <4>1
    <3> QED BY <3>2, <3>3
  <2>4. \A s : Excused(s)' = Excused(s)
    BY <1>1, <1>8 DEF Excused
  <2> QED BY <1>1, <1>2, <1>5, <1>8, <2>1, <2>2, <2>3, <2>4 DEF LiveOK, InBatch
<1> QED BY <1>1, <1>5, <1>7, <1>9, <1>10, <1>13, LiveMovesKeep

(* A projection that is rolled back leaves its events in the live stream.  *)
LEMMA ProjectRollbackKeeps ==
  ASSUME PipeInv, ProjectRollback
  PROVE PipeInv'
<1>1. /\ external' = external /\ worker' = worker /\ net' = net /\ reply' = reply /\ log' = log
      /\ settle' = settle /\ kafka' = kafka /\ jobs' = jobs /\ gateway' = gateway
      /\ live' = Projected(live) /\ db' = db /\ proj' = proj
  BY DEF ProjectRollback, workerVars, storeVars
<1>2. /\ external
      /\ proj.pos \in DOMAIN kafka
      /\ Projected(live) \in Lives
      /\ Projected(live).events = live.events \cup Fresh
      /\ Projected(live).lost = live.lost
      /\ \A e \in Fresh : /\ InBatch(e.seq, proj.pos) /\ e.by = kafka[proj.pos].by /\ e.kind = "worker"
                          /\ e.seq > db.projected
  BY ProjectedFacts DEF ProjectRollback
<1>3. PipeTypes'
  BY <1>1, <1>2 DEF PipeInv, PipeTypes, Lives
<1>4. Terminals' = Terminals /\ \A f : Settled(f)' = Settled(f) /\ TerminalOf(f)' = TerminalOf(f)
  BY <1>1 DEF Terminals, Settled, TerminalOf
<1>5. CursorsOK' /\ KafkaOK'
  BY <1>1, <1>4 DEF PipeInv, CursorsOK, KafkaOK, InBatch
<1>6. Seqs(live'.events) = Seqs(live.events) \cup Seqs(Fresh)
  BY <1>1, <1>2, SeqsFacts
<1>7. \A s \in Seqs(Fresh) : s > db.projected
  BY <1>2, SeqsFacts
<1>8. LiveOK'
  <2>1. \A e \in live'.events : \E i \in DOMAIN kafka :
           InBatch(e.seq, i) /\ e.by = kafka[i].by /\ e.kind = "worker"
    BY <1>1, <1>2 DEF PipeInv, LiveOK
  <2>2. \A s, t \in 1..db.projected :
          s <= t /\ s \in Seqs(live'.events) => t \in Terminals \/ t \in Seqs(live'.events)
    <3>1. SUFFICES ASSUME NEW s \in 1..db.projected, NEW t \in 1..db.projected, s <= t, s \in Seqs(live'.events)
                   PROVE t \in Terminals \/ t \in Seqs(live'.events)
      OBVIOUS
    <3>2. s \in Seqs(live.events)
      BY <1>6, <1>7, <3>1, Numbers DEF PipeInv
    <3> QED BY <1>2, <1>6, <3>1, <3>2 DEF PipeInv, LiveOK
  <2>3. \A s : Excused(s)' = Excused(s)
    BY <1>1, <1>4 DEF Excused
  <2>4. \A s \in (db.floor + 1)..db.projected :
          s \in Terminals \/ live.lost \/ s \in Seqs(live'.events) \/ Excused(s)
    BY <1>2, <1>6 DEF PipeInv, LiveOK
  <2> QED BY <1>1, <1>2, <1>4, <2>1, <2>2, <2>3, <2>4 DEF LiveOK, InBatch
<1> QED BY <1>1, <1>3, <1>5, <1>8, LiveMovesKeep

(* What a step that leaves the cursors, the broker and the live stream     *)
(* alone keeps.                                                            *)
LEMMA CursorsUnchanged ==
  ASSUME PipeInv, log' = log, db' = db, kafka' = kafka, external' = external,
         proj'.pos \in 1..(proj'.stored + 1), proj'.stored = proj.stored
  PROVE /\ KafkaOK'
        /\ Terminals' = Terminals /\ \A f : Settled(f)' = Settled(f) /\ TerminalOf(f)' = TerminalOf(f)
        /\ jobs' = jobs => CursorsOK'
        /\ jobs' = jobs /\ live' = live => LiveOK'
<1>1. Terminals' = Terminals
  BY DEF Terminals
<1>2. \A f : Settled(f)' = Settled(f) /\ TerminalOf(f)' = TerminalOf(f)
  BY <1>1 DEF Settled, TerminalOf
<1>3. KafkaOK'
  BY <1>1 DEF PipeInv, KafkaOK, InBatch
<1>4. jobs' = jobs => CursorsOK'
  BY <1>1, <1>2 DEF PipeInv, CursorsOK
<1>5. ASSUME jobs' = jobs, live' = live PROVE LiveOK'
  <2>1. \A s : Excused(s)' = Excused(s)
    BY <1>2, <1>5 DEF Excused
  <2> QED BY <1>1, <1>5, <2>1 DEF PipeInv, LiveOK, InBatch
<1> QED BY <1>1, <1>2, <1>3, <1>4, <1>5

(* Where the projector stands.                                             *)
LEMMA ProjectorFacts ==
  ASSUME PipeInv
  PROVE /\ proj \in [pos : Nat, stored : Nat, dead : BOOLEAN]
        /\ proj.pos \in 1..(proj.stored + 1) /\ proj.stored <= Len(kafka)
        /\ proj.pos \in Nat /\ proj.stored \in Nat /\ Len(kafka) \in Nat
  BY Numbers DEF PipeInv, PipeTypes, KafkaOK

(* Skipping, giving up, and losing the gateway keep the invariant.         *)
LEMMA ProjectorKeeps ==
  ASSUME PipeInv, SkipProjected \/ ProjectConflict \/ GatewayCrash
  PROVE PipeInv'
<1>1. /\ external' = external /\ worker' = worker /\ net' = net /\ reply' = reply /\ log' = log
      /\ settle' = settle /\ kafka' = kafka /\ jobs' = jobs /\ db' = db /\ live' = live
  BY DEF SkipProjected, ProjectConflict, GatewayCrash, workerVars, storeVars
<1>2. gateway' \in BOOLEAN
  BY DEF SkipProjected, ProjectConflict, GatewayCrash, PipeInv, PipeTypes
<1>3. /\ proj' \in [pos : Nat, stored : Nat, dead : BOOLEAN]
      /\ proj'.pos \in 1..(proj.stored + 1) /\ proj'.stored = proj.stored
  <2>1. CASE SkipProjected
    <3>1. proj' = [proj EXCEPT !.pos = @ + 1] /\ proj.pos <= proj.stored
      BY <2>1 DEF SkipProjected
    <3> QED BY <3>1, ProjectorFacts
  <2>2. CASE ProjectConflict
    <3>1. proj' = [proj EXCEPT !.dead = TRUE]
      BY <2>2 DEF ProjectConflict
    <3> QED BY <3>1, ProjectorFacts
  <2>3. CASE GatewayCrash
    <3>1. PICK pos \in {proj.pos, proj.pos - 1} \ {0} : proj' = [proj EXCEPT !.pos = pos, !.dead = FALSE]
      BY <2>3 DEF GatewayCrash
    <3>2. pos \in Nat /\ pos \in 1..(proj.stored + 1)
      BY <3>1, ProjectorFacts
    <3> QED BY <3>1, <3>2, ProjectorFacts
  <2> QED BY <2>1, <2>2, <2>3
<1>4. PipeTypes'
  BY <1>1, <1>2, <1>3 DEF PipeInv, PipeTypes
<1>5. CursorsOK' /\ KafkaOK' /\ LiveOK'
  BY <1>1, <1>3, CursorsUnchanged
<1> QED BY <1>1, <1>4, <1>5, LiveMovesKeep

(* Retention keeps the invariant: what is trimmed is excused until the     *)
(* floor is raised above it.                                               *)
LEMMA RetentionKeeps ==
  ASSUME PipeInv, NEW f \in Fences, RetentionStep(f)
  PROVE PipeInv'
<1>1. /\ external' = external /\ worker' = worker /\ net' = net /\ reply' = reply /\ log' = log
      /\ settle' = settle /\ kafka' = kafka /\ proj' = proj /\ gateway' = gateway
      /\ jobs[f] \in {"pending", "again", "trimmed"}
  BY DEF RetentionStep, Trim, RaiseFloor, CompactionFails, workerVars, storeVars
<1>2. Settled(f) /\ external
  BY <1>1 DEF PipeInv, CursorsOK, None
<1>3. /\ TerminalOf(f) \in Terminals /\ TerminalOf(f) \in Nat /\ TerminalOf(f) <= db.projected
      /\ db.floor \in Nat /\ db.projected \in Nat
  <2>1. TerminalOf(f) \in Terminals
    BY <1>2, TerminalUnique
  <2> QED BY <2>1, Numbers DEF PipeInv, Terminals, CursorsOK
<1>4. Terminals' = Terminals /\ \A g : Settled(g)' = Settled(g) /\ TerminalOf(g)' = TerminalOf(g)
  BY <1>1 DEF Terminals, Settled, TerminalOf
<1>5. CASE Trim(f)
  <2>1. /\ db' = db /\ jobs' = [jobs EXCEPT ![f] = "trimmed"] /\ jobs[f] \in {"pending", "again"}
        /\ live' = [live EXCEPT !.events = {e \in live.events : e.seq > TerminalOf(f)},
                            !.batched = {s \in live.batched : s > TerminalOf(f)}]
    BY <1>5 DEF Trim, storeVars
  <2> DEFINE kept == {e \in live.events : e.seq > TerminalOf(f)}
  <2>2. /\ live' \in Lives /\ live'.events = kept /\ live'.lost = live.lost
    BY <2>1 DEF PipeInv, PipeTypes, Lives
  <2>3. jobs'[f] = "trimmed" /\ \A g \in Fences \ {f} : jobs'[g] = jobs[g]
    BY <2>1 DEF PipeInv, PipeTypes
  <2>4. PipeTypes'
    BY <1>1, <2>1, <2>2 DEF PipeInv, PipeTypes, Lives
  <2>5. KafkaOK'
    BY <1>1, <2>1, ProjectorFacts, CursorsUnchanged
  <2>6. CursorsOK'
    BY <1>1, <1>2, <1>4, <2>1, <2>3 DEF PipeInv, CursorsOK
  <2>7. \A s \in Seqs(live.events) : s \in Nat /\ (s > TerminalOf(f) => s \in Seqs(live'.events))
    BY <2>2, Numbers DEF Seqs, PipeInv
  <2>8. \A s \in Seqs(live'.events) : s \in Seqs(live.events) /\ s > TerminalOf(f)
    BY <2>2 DEF Seqs
  <2>9. \A s : /\ Excused(s) => Excused(s)'
               /\ s <= TerminalOf(f) => Excused(s)'
    BY <1>4, <2>3 DEF Excused
  <2>10. LiveOK'
    <3>1. \A s \in (db.floor + 1)..db.projected :
            s \in Terminals \/ live.lost \/ s \in Seqs(live'.events) \/ Excused(s)'
      <4>1. SUFFICES ASSUME NEW s \in (db.floor + 1)..db.projected
                     PROVE s \in Terminals \/ live.lost \/ s \in Seqs(live'.events) \/ Excused(s)'
        OBVIOUS
      <4>2. s <= TerminalOf(f) \/ s > TerminalOf(f)
        BY <1>3
      <4> QED BY <1>2, <2>7, <2>9, <4>2 DEF PipeInv, LiveOK
    <3>2. \A s, t \in 1..db.projected :
            s <= t /\ s \in Seqs(live'.events) => t \in Terminals \/ t \in Seqs(live'.events)
      <4>1. SUFFICES ASSUME NEW s \in 1..db.projected, NEW t \in 1..db.projected, s <= t,
                            s \in Seqs(live'.events)
                     PROVE t \in Terminals \/ t \in Seqs(live'.events)
        OBVIOUS
      <4>2. s \in Seqs(live.events) /\ t > TerminalOf(f)
        BY <1>3, <2>8, <4>1
      <4>3. t \in Terminals \/ t \in Seqs(live.events)
        BY <1>2, <4>1, <4>2 DEF PipeInv, LiveOK
      <4> QED BY <2>7, <4>2, <4>3
    <3>3. \A e \in live'.events : \E i \in DOMAIN kafka :
             InBatch(e.seq, i) /\ e.by = kafka[i].by /\ e.kind = "worker"
      BY <2>2 DEF PipeInv, LiveOK
    <3> QED BY <1>1, <1>4, <2>1, <2>2, <3>1, <3>2, <3>3 DEF LiveOK, InBatch
  <2> QED BY <1>1, <2>1, <2>4, <2>5, <2>6, <2>10, LiveMovesKeep
<1>6. CASE RaiseFloor(f)
  <2> DEFINE n == Max({db.floor, TerminalOf(f)})
  <2>1. /\ db' = [db EXCEPT !.floor = n] /\ jobs' = [jobs EXCEPT ![f] = "done"]
        /\ live' = live
    BY <1>6 DEF RaiseFloor
  <2>2. n \in Nat /\ n \in {db.floor, TerminalOf(f)} /\ db.floor <= n /\ TerminalOf(f) <= n
    BY <1>3, MaxPair
  <2> HIDE DEF n
  <2>3. /\ db' \in Cursors /\ db'.persisted = db.persisted /\ db'.fence = db.fence
        /\ db'.lease = db.lease /\ db'.floor = n /\ db'.projected = db.projected
    BY <2>1, <2>2 DEF PipeInv, PipeTypes, Cursors
  <2>4. jobs'[f] = "done" /\ \A g \in Fences \ {f} : jobs'[g] = jobs[g]
    BY <2>1 DEF PipeInv, PipeTypes
  <2>5. PipeTypes'
    BY <1>1, <2>1, <2>3 DEF PipeInv, PipeTypes
  <2>6. KafkaOK'
    BY <1>1, <1>4, <2>3 DEF PipeInv, KafkaOK, InBatch
  <2>7. CursorsOK'
    <3>1. n <= db.projected /\ (n = 0 \/ n \in Terminals)
      BY <1>3, <2>2 DEF PipeInv, CursorsOK
    <3>2. \A g \in Fences : jobs'[g] # None => external /\ Settled(g)
      BY <1>2, <2>4 DEF PipeInv, CursorsOK
    <3> QED BY <1>1, <1>4, <2>3, <3>1, <3>2 DEF PipeInv, CursorsOK
  <2>8. LiveOK'
    <3>1. \A s \in (n + 1)..db.projected :
            s \in Terminals \/ live.lost \/ s \in Seqs(live.events) \/ Excused(s)'
      <4>1. SUFFICES ASSUME NEW s \in (n + 1)..db.projected
                     PROVE s \in Terminals \/ live.lost \/ s \in Seqs(live.events) \/ Excused(s)'
        OBVIOUS
      <4>2. s \in (db.floor + 1)..db.projected /\ ~(s <= TerminalOf(f))
        BY <1>3, <2>2
      <4>3. Excused(s) => Excused(s)'
        BY <1>4, <2>4, <4>2 DEF Excused
      <4> QED BY <1>2, <4>2, <4>3 DEF PipeInv, LiveOK
    <3> QED BY <1>1, <1>2, <1>4, <2>1, <2>3, <3>1 DEF PipeInv, LiveOK, InBatch
  <2> QED BY <1>1, <2>3, <2>5, <2>6, <2>7, <2>8, LiveMovesKeep
<1>7. CASE CompactionFails(f)
  <2>1. /\ db' = db /\ jobs' = [jobs EXCEPT ![f] = "again"] /\ jobs[f] = "trimmed" /\ live' = live
    BY <1>7 DEF CompactionFails, storeVars
  <2>2. jobs'[f] = "again" /\ \A g \in Fences \ {f} : jobs'[g] = jobs[g]
    BY <2>1 DEF PipeInv, PipeTypes
  <2>3. PipeTypes'
    BY <1>1, <2>1 DEF PipeInv, PipeTypes
  <2>4. KafkaOK'
    BY <1>1, <2>1, ProjectorFacts, CursorsUnchanged
  <2>5. CursorsOK'
    BY <1>1, <1>2, <1>4, <2>1, <2>2 DEF PipeInv, CursorsOK
  <2>6. \A s : Excused(s) => Excused(s)'
    BY <1>4, <2>2 DEF Excused
  <2>7. LiveOK'
    BY <1>1, <1>4, <2>1, <2>6 DEF PipeInv, LiveOK, InBatch
  <2> QED BY <1>1, <2>1, <2>3, <2>4, <2>5, <2>7, LiveMovesKeep
<1> QED BY <1>5, <1>6, <1>7 DEF RetentionStep

(* A loss of the live store is marked.                                     *)
LEMMA LoseLiveKeeps ==
  ASSUME PipeInv, LoseLive
  PROVE PipeInv'
<1>1. /\ external' = external /\ worker' = worker /\ net' = net /\ reply' = reply /\ log' = log
      /\ settle' = settle /\ kafka' = kafka /\ proj' = proj /\ gateway' = gateway
      /\ db' = db /\ jobs' = jobs
      /\ live' = [last |-> 0, events |-> {}, batched |-> {}, lost |-> TRUE]
  BY DEF LoseLive, EmptyLive, workerVars, storeVars
<1>2. PipeTypes'
  BY <1>1 DEF PipeInv, PipeTypes
<1>3. KafkaOK' /\ CursorsOK'
  BY <1>1, ProjectorFacts, CursorsUnchanged
<1>4. live'.events = {} /\ live'.lost /\ Seqs(live'.events) = {}
  BY <1>1, SeqsFacts
<1>5. LiveOK'
  BY <1>4 DEF LiveOK
<1> QED BY <1>1, <1>2, <1>3, <1>5, LiveMovesKeep

(* A batch that only the broker accepted keeps the invariant.              *)
LEMMA IngestRollbackKeeps ==
  ASSUME PipeInv, NEW m \in net, IngestRollback(m)
  PROVE PipeInv'
<1>1. /\ external' = external /\ worker' = worker /\ net' = net /\ reply' = reply /\ log' = log
      /\ settle' = settle /\ proj' = proj /\ gateway' = gateway
      /\ db' = db /\ jobs' = jobs /\ live' = live
      /\ external /\ IngestOutcome(m) = "accept" /\ kafka' = Kafka(m)
  BY DEF IngestRollback, workerVars, storeVars
<1>2. /\ m \in Batches /\ m.by \in Fences /\ m.lo \in Nat /\ m.hi \in Nat /\ m.by <= db.fence
      /\ ~(m.hi <= db.persisted) /\ db.persisted \in Nat
  BY <1>1, Numbers DEF PipeInv, PipeTypes, Batches, WindowsOK, IngestOutcome
<1> DEFINE b == [by |-> m.by, lo |-> db.persisted + 1, hi |-> m.hi, via |-> m.via]
<1>3. b \in Batches
  BY <1>2 DEF Batches
<1>4. /\ kafka' \in Seq(Batches) /\ Len(kafka') = Len(kafka) + 1 /\ Len(kafka) \in Nat
      /\ DOMAIN kafka' = 1..(Len(kafka) + 1) /\ DOMAIN kafka = 1..Len(kafka)
      /\ \A i \in DOMAIN kafka : i \in DOMAIN kafka' /\ kafka'[i] = kafka[i]
      /\ kafka'[Len(kafka) + 1] = b
  <2>1. kafka \in Seq(Batches) /\ kafka' = Append(kafka, b)
    BY <1>1, Numbers DEF PipeInv, Kafka
  <2> HIDE DEF b
  <2> QED BY <1>3, <2>1, KafkaGrows
<1>5. PipeTypes'
  BY <1>1, <1>4 DEF PipeInv, PipeTypes
<1>6. Terminals' = Terminals /\ \A g : Settled(g)' = Settled(g) /\ TerminalOf(g)' = TerminalOf(g)
  BY <1>1 DEF Terminals, Settled, TerminalOf
<1>7. CursorsOK'
  BY <1>1, <1>6 DEF PipeInv, CursorsOK
<1>8. KafkaOK'
  <2>1. \A s \in 1..db.persisted : s \in Terminals \/ \E i \in DOMAIN kafka' : s \in kafka'[i].lo..kafka'[i].hi
    <3>1. SUFFICES ASSUME NEW s \in 1..db.persisted, s \notin Terminals
                   PROVE \E i \in DOMAIN kafka' : s \in kafka'[i].lo..kafka'[i].hi
      OBVIOUS
    <3>2. PICK i \in DOMAIN kafka : InBatch(s, i)
      BY <1>1, <3>1 DEF PipeInv, KafkaOK
    <3> QED BY <1>4, <3>2 DEF InBatch
  <2>2. ASSUME NEW i \in DOMAIN kafka'
        PROVE 1 <= kafka'[i].lo /\ kafka'[i].lo <= kafka'[i].hi /\ kafka'[i].by <= db.fence
    <3>1. i \in DOMAIN kafka \/ i = Len(kafka) + 1
      BY <1>4
    <3>2. CASE i \in DOMAIN kafka
      BY <1>4, <3>2 DEF PipeInv, KafkaOK
    <3>3. CASE i = Len(kafka) + 1
      BY <1>2, <1>4, <3>3
    <3> QED BY <3>1, <3>2, <3>3
  <2>3. proj.pos \in 1..(proj.stored + 1) /\ proj.stored <= Len(kafka')
    BY <1>4, ProjectorFacts
  <2> QED BY <1>1, <1>6, <2>1, <2>2, <2>3 DEF KafkaOK, InBatch
<1>9. LiveOK'
  <2>1. \A e \in live.events : \E i \in DOMAIN kafka' :
            e.seq \in kafka'[i].lo..kafka'[i].hi /\ e.by = kafka'[i].by /\ e.kind = "worker"
    <3>1. SUFFICES ASSUME NEW e \in live.events
                   PROVE \E i \in DOMAIN kafka' :
                            e.seq \in kafka'[i].lo..kafka'[i].hi /\ e.by = kafka'[i].by /\ e.kind = "worker"
      OBVIOUS
    <3>2. PICK i \in DOMAIN kafka : InBatch(e.seq, i) /\ e.by = kafka[i].by /\ e.kind = "worker"
      BY DEF PipeInv, LiveOK
    <3> QED BY <1>4, <3>2 DEF InBatch
  <2>2. \A s : Excused(s)' = Excused(s)
    BY <1>1, <1>6 DEF Excused
  <2> QED BY <1>1, <1>6, <2>1, <2>2 DEF PipeInv, LiveOK, InBatch
<1> QED BY <1>1, <1>5, <1>7, <1>8, <1>9, LiveMovesKeep

(* A prepared projection keeps the invariant.                              *)
LEMMA PrepareKeeps ==
  ASSUME PipeInv, NEW f \in Fences, Prepare(f)
  PROVE PipeInv'
<1>1. /\ external' = external /\ worker' = worker /\ net' = net /\ reply' = reply /\ log' = log
      /\ kafka' = kafka /\ proj' = proj /\ gateway' = gateway
      /\ db' = db /\ jobs' = jobs /\ live' = live
  BY DEF Prepare, workerVars, liveVars
<1>2. settle' \in [Fences -> Settlements]
  <2>1. PICK ready \in {"yes", "threw"}, prev \in Nat, read \in SUBSET Events :
          settle' = [settle EXCEPT ![f] = [@ EXCEPT !.ready = ready, !.prev = prev, !.read = read]]
    <3> DEFINE range    == (LastTerminal(db.projected) + 1)..db.projected
               readable == /\ gateway /\ db.projected = db.persisted
                           /\ range \subseteq Seqs(live.events)
               read == {e \in live.events : e.seq \in range /\ e.by = f}
    <3>1. read \in SUBSET Events /\ {} \in SUBSET Events /\ db.projected \in Nat
      BY Numbers DEF PipeInv, PipeTypes
    <3>2. settle' = [settle EXCEPT ![f] =
                       IF readable THEN [@ EXCEPT !.ready = "yes", !.prev = db.projected, !.read = read]
                       ELSE [@ EXCEPT !.ready = "threw", !.prev = 0, !.read = {}]]
      BY DEF Prepare
    <3> HIDE DEF read, readable
    <3> QED BY <3>1, <3>2
  <2>2. settle[f] \in Settlements
    BY DEF PipeInv, PipeTypes
  <2>3. [settle[f] EXCEPT !.ready = ready, !.prev = prev, !.read = read] \in Settlements
    BY <2>2 DEF Settlements
  <2> QED BY <2>1, <2>3 DEF PipeInv, PipeTypes
<1>3. PipeTypes'
  BY <1>1, <1>2 DEF PipeInv, PipeTypes
<1>4. KafkaOK' /\ CursorsOK' /\ LiveOK'
  BY <1>1, ProjectorFacts, CursorsUnchanged
<1> QED BY <1>1, <1>3, <1>4, LiveMovesKeep

(* The recursion of Rebuild has a solution.                                *)
LEMMA RebuildExists ==
  ASSUME NEW n \in Nat
  PROVE \E u : u = [k \in 0..n |-> IF k = 0 THEN EmptyLive ELSE RebuildStep(u[k - 1], kafka[k])]
<1> DEFINE Solves(u, m) == u = [k \in 0..m |-> IF k = 0 THEN EmptyLive ELSE RebuildStep(u[k - 1], kafka[k])]
           T == {m \in Nat : ~ \E u : Solves(u, m)}
<1>1. SUFFICES ASSUME T # {} PROVE FALSE
  OBVIOUS
<1>2. PICK m \in T : \A k \in T : m <= k
  <2>1. T \subseteq Nat
    OBVIOUS
  <2> QED BY <2>1, <1>1, LeastNat
<1>3. m \in Nat /\ ~ \E u : Solves(u, m)
  OBVIOUS
<1>4. m # 0
  <2> DEFINE u0 == [k \in 0..0 |-> EmptyLive]
  <2>1. Solves(u0, 0)
    OBVIOUS
  <2> QED BY <2>1, <1>3
<1>5. PICK u : Solves(u, m - 1)
  <2>1. m - 1 \in Nat /\ ~(m <= m - 1)
    BY <1>3, <1>4
  <2> HIDE DEF Solves
  <2> QED BY <2>1, <1>2
<1> DEFINE v == [k \in 0..m |-> IF k = m THEN RebuildStep(u[k - 1], kafka[k]) ELSE u[k]]
<1>6. ASSUME NEW k \in 0..m
      PROVE v[k] = IF k = 0 THEN EmptyLive ELSE RebuildStep(v[k - 1], kafka[k])
  <2>1. CASE k = m
    <3>1. k - 1 \in 0..m /\ k - 1 # m /\ k # 0
      BY <2>1, <1>3, <1>4
    <3>2. v[k - 1] = u[k - 1] /\ v[k] = RebuildStep(u[k - 1], kafka[k])
      BY <2>1, <3>1
    <3> HIDE DEF v
    <3> QED BY <3>1, <3>2
  <2>2. CASE k # m
    <3>1. k \in 0..(m - 1) /\ v[k] = u[k]
      BY <2>2, <1>3
    <3>2. u[k] = IF k = 0 THEN EmptyLive ELSE RebuildStep(u[k - 1], kafka[k])
      BY <3>1, <1>5
    <3>3. k # 0 => v[k - 1] = u[k - 1]
      BY <3>1, <1>3
    <3> HIDE DEF v
    <3> QED BY <3>1, <3>2, <3>3
  <2> QED BY <2>1, <2>2
<1>7. v = [k \in 0..m |-> v[k]]
  OBVIOUS
<1>8. Solves(v, m)
  <2> HIDE DEF v
  <2> QED BY <1>6, <1>7
<1> HIDE DEF Solves
<1> QED BY <1>8, <1>3

(* Rebuild is the fold of RebuildStep over the batches of the broker.      *)
LEMMA RebuildAt ==
  ASSUME Len(kafka) \in Nat
  PROVE /\ Rebuild[0] = EmptyLive
        /\ \A k \in 1..Len(kafka) : Rebuild[k] = RebuildStep(Rebuild[k - 1], kafka[k])
<1> DEFINE upto[n \in 0..Len(kafka)] ==
             IF n = 0 THEN EmptyLive ELSE RebuildStep(upto[n - 1], kafka[n])
<1>1. \E u : u = [n \in 0..Len(kafka) |->
                    IF n = 0 THEN EmptyLive ELSE RebuildStep(u[n - 1], kafka[n])]
  BY RebuildExists
<1>2. upto = [n \in 0..Len(kafka) |->
                IF n = 0 THEN EmptyLive ELSE RebuildStep(upto[n - 1], kafka[n])]
  BY <1>1, Zenon
<1>3. Rebuild = upto
  BY Zenon DEF Rebuild
<1> HIDE DEF upto
<1>4. upto[0] = EmptyLive
  BY <1>2
<1>5. ASSUME NEW k \in 1..Len(kafka) PROVE upto[k] = RebuildStep(upto[k - 1], kafka[k])
  <2>1. k \in 0..Len(kafka) /\ k # 0
    OBVIOUS
  <2>2. upto[k] = IF k = 0 THEN EmptyLive ELSE RebuildStep(upto[k - 1], kafka[k])
    BY <1>2, <2>1
  <2> QED BY <2>1, <2>2
<1> QED BY <1>3, <1>4, <1>5

(* The events of batch i that a rebuild restores.                          *)
Restored(i) == {x \in Batch(kafka[i].by, kafka[i].lo, kafka[i].hi) :
                   x.seq > db.floor /\ x.seq <= db.persisted}

(* One step of a rebuild adds what it restores, or marks a loss.           *)
LEMMA RebuildSteps ==
  ASSUME PipeInv, NEW i \in DOMAIN kafka, NEW lv \in Lives
  PROVE /\ RebuildStep(lv, kafka[i]) \in Lives
        /\ RebuildStep(lv, kafka[i]).events \subseteq lv.events \cup Restored(i)
        /\ lv.lost => RebuildStep(lv, kafka[i]).lost
        /\ ~RebuildStep(lv, kafka[i]).lost => RebuildStep(lv, kafka[i]).events = lv.events \cup Restored(i)
<1> DEFINE e == kafka[i]
           batch == Restored(i)
           base == Min(Seqs(batch)) - 1
<1>1. e \in Batches /\ e.lo \in Nat /\ e.hi \in Nat /\ e.by \in Fences /\ 1 <= e.lo
  BY Numbers DEF PipeInv, Batches, KafkaOK
<1>2. batch \subseteq Events /\ \A x \in batch : x.seq <= e.hi /\ x.seq \in Nat /\ x.seq >= 1
  <2>1. batch \subseteq Batch(e.by, e.lo, e.hi)
    BY DEF Restored
  <2>2. /\ \A x \in Batch(e.by, e.lo, e.hi) : x.seq \in e.lo..e.hi
        /\ Batch(e.by, e.lo, e.hi) \subseteq Events
    BY <1>1, BatchFacts
  <2> HIDE DEF batch, e
  <2> QED BY <1>1, <2>1, <2>2
<1>3. lv \in Lives
  OBVIOUS
<1>4. RebuildStep(lv, e) = IF lv.lost \/ batch = {} THEN lv
                           ELSE IF CanAppendLive(lv, base, batch, e.via) THEN AppendLive(lv, base, batch, e.via)
                           ELSE [lv EXCEPT !.lost = TRUE]
  BY DEF RebuildStep, Restored
<1> HIDE DEF batch, e
<1>5. CASE lv.lost \/ batch = {}
  BY <1>4, <1>5 DEF batch, e
<1>6. CASE ~lv.lost /\ batch # {}
  <2>1. base \in Nat
    <3>1. Seqs(batch) \subseteq Nat /\ Seqs(batch) # {} /\ \A s \in Seqs(batch) : s >= 1
      BY <1>2, <1>6 DEF Seqs
    <3>2. \E x \in Seqs(batch) : \A y \in Seqs(batch) : x <= y
      BY <3>1, LeastNat
    <3>3. Min(Seqs(batch)) \in Seqs(batch)
      BY <3>2 DEF Min
    <3> QED BY <3>1, <3>3
  <2> HIDE DEF base
  <2>2. CASE CanAppendLive(lv, base, batch, e.via)
    <3>1. RebuildStep(lv, e) = AppendLive(lv, base, batch, e.via)
      BY <1>4, <1>6, <2>2
    <3> QED BY <1>1, <1>2, <1>3, <2>1, <3>1, AppendLiveFacts DEF batch, e
  <2>3. CASE ~CanAppendLive(lv, base, batch, e.via)
    <3>1. RebuildStep(lv, e) = [lv EXCEPT !.lost = TRUE]
      BY <1>4, <1>6, <2>3
    <3>2. RebuildStep(lv, e) \in Lives /\ RebuildStep(lv, e).events = lv.events /\ RebuildStep(lv, e).lost
      BY <1>3, <3>1 DEF Lives
    <3> QED BY <3>2 DEF e
  <2> QED BY <2>2, <2>3
<1> QED BY <1>5, <1>6

(* What a rebuild has after n batches.                                     *)
RebuiltUpto(n) ==
  /\ Rebuild[n] \in Lives
  /\ \A e \in Rebuild[n].events : \E i \in DOMAIN kafka : e \in Restored(i)
  /\ ~Rebuild[n].lost => \A i \in 1..n : Restored(i) \subseteq Rebuild[n].events

(* A rebuild that marks no loss has restored every batch, and nothing else.*)
LEMMA RebuildFacts ==
  ASSUME PipeInv
  PROVE \A n \in 0..Len(kafka) : RebuiltUpto(n)
<1>1. Len(kafka) \in Nat /\ DOMAIN kafka = 1..Len(kafka)
  BY Numbers DEF PipeInv
<1> DEFINE T == {n \in 0..Len(kafka) : ~RebuiltUpto(n)}
<1>2. SUFFICES ASSUME T # {} PROVE FALSE
  OBVIOUS
<1>3. PICK n \in T : \A k \in T : n <= k
  <2>1. T \subseteq Nat
    BY <1>1
  <2> QED BY <2>1, <1>2, LeastNat
<1>4. n \in 0..Len(kafka) /\ ~RebuiltUpto(n)
  OBVIOUS
<1>5. n # 0
  <2>1. Rebuild[0] = EmptyLive
    BY <1>1, RebuildAt
  <2>2. EmptyLive \in Lives /\ EmptyLive.events = {}
    BY DEF EmptyLive, Lives
  <2>3. RebuiltUpto(0)
    BY <2>1, <2>2 DEF RebuiltUpto
  <2> QED BY <2>3, <1>4
<1>6. n \in 1..Len(kafka) /\ n \in DOMAIN kafka /\ n - 1 \in 0..Len(kafka) /\ ~(n <= n - 1)
  BY <1>1, <1>4, <1>5
<1>7. RebuiltUpto(n - 1)
  BY <1>3, <1>6
<1>8. Rebuild[n] = RebuildStep(Rebuild[n - 1], kafka[n])
  BY <1>1, <1>6, RebuildAt
<1>9. PICK lv : lv = Rebuild[n - 1]
  OBVIOUS
<1>10. PICK nv : nv = Rebuild[n]
  OBVIOUS
<1>11. /\ lv \in Lives
       /\ \A e \in lv.events : \E i \in DOMAIN kafka : e \in Restored(i)
       /\ ~lv.lost => \A i \in 1..(n - 1) : Restored(i) \subseteq lv.events
  BY <1>7, <1>9 DEF RebuiltUpto
<1>12. /\ nv \in Lives /\ nv.events \subseteq lv.events \cup Restored(n)
       /\ lv.lost => nv.lost
       /\ ~nv.lost => nv.events = lv.events \cup Restored(n)
  BY <1>6, <1>8, <1>9, <1>10, <1>11, RebuildSteps
<1>13. ~nv.lost => \A i \in 1..n : Restored(i) \subseteq nv.events
  <2>1. \A i \in 1..n : i \in 1..(n - 1) \/ i = n
    BY <1>6
  <2> QED BY <1>11, <1>12, <2>1
<1>14. RebuiltUpto(n)
  BY <1>6, <1>10, <1>11, <1>12, <1>13 DEF RebuiltUpto
<1> QED BY <1>4, <1>14

(* A started gateway serves a live stream that has the replay window: the  *)
(* one it found, whose missing events could only be a prefix, or the one   *)
(* it rebuilt from every batch of the broker.                              *)
LEMMA StartGatewayKeeps ==
  ASSUME PipeInv, StartGateway
  PROVE PipeInv'
<1>1. /\ external' = external /\ worker' = worker /\ net' = net /\ reply' = reply /\ log' = log
      /\ settle' = settle /\ kafka' = kafka /\ proj' = proj /\ gateway' = TRUE
      /\ db' = db /\ jobs' = jobs /\ live' = RepairedLive /\ CanStart
  BY DEF StartGateway, workerVars, storeVars
<1>2. /\ db.floor \in Nat /\ db.projected \in Nat /\ db.persisted \in Nat
      /\ db.projected <= db.persisted /\ Len(kafka) \in Nat /\ DOMAIN kafka = 1..Len(kafka)
  BY Numbers DEF PipeInv, CursorsOK
<1>3. live \in Lives
  BY DEF PipeInv, PipeTypes, Lives
<1>4. CASE external /\ Missing(live)
  <2>1. live' = Rebuilt /\ ~Rebuilt.lost
    BY <1>1, <1>4 DEF RepairedLive, CanStart
  <2>2. /\ Rebuilt \in Lives
        /\ \A e \in Rebuilt.events : \E i \in DOMAIN kafka : e \in Restored(i)
        /\ \A i \in DOMAIN kafka : Restored(i) \subseteq Rebuilt.events
    <3>1. Len(kafka) \in 0..Len(kafka)
      BY <1>2
    <3>2. RebuiltUpto(Len(kafka))
      BY <3>1, RebuildFacts
    <3> QED BY <1>2, <2>1, <3>2 DEF RebuiltUpto, Rebuilt
  <2>3. PipeTypes'
    BY <1>1, <2>1, <2>2 DEF PipeInv, PipeTypes, Lives
  <2>4. \A s \in (db.floor + 1)..db.projected : s \in Terminals \/ s \in Seqs(Rebuilt.events)
    <3>1. SUFFICES ASSUME NEW s \in (db.floor + 1)..db.projected, s \notin Terminals
                   PROVE s \in Seqs(Rebuilt.events)
      OBVIOUS
    <3>2. s \in 1..db.persisted /\ s > db.floor
      BY <1>2
    <3>3. PICK i \in DOMAIN kafka : InBatch(s, i)
      BY <1>4, <3>1, <3>2 DEF PipeInv, KafkaOK
    <3>4. s \in Seqs(Batch(kafka[i].by, kafka[i].lo, kafka[i].hi))
      BY <3>3, BatchFacts DEF InBatch
    <3>5. PICK e \in Batch(kafka[i].by, kafka[i].lo, kafka[i].hi) : e.seq = s
      BY <3>4, SeqsFacts
    <3>6. e \in Restored(i)
      BY <1>2, <3>2, <3>5 DEF Restored
    <3> QED BY <2>2, <3>5, <3>6, SeqsFacts
  <2>5. LiveOK'
    <3>1. \A e \in Rebuilt.events : \E i \in DOMAIN kafka :
             InBatch(e.seq, i) /\ e.by = kafka[i].by /\ e.kind = "worker"
      <4>1. SUFFICES ASSUME NEW e \in Rebuilt.events
                     PROVE \E i \in DOMAIN kafka : InBatch(e.seq, i) /\ e.by = kafka[i].by /\ e.kind = "worker"
        OBVIOUS
      <4>2. PICK i \in DOMAIN kafka : e \in Restored(i)
        BY <2>2
      <4>3. e \in Batch(kafka[i].by, kafka[i].lo, kafka[i].hi)
        BY <4>2 DEF Restored
      <4> QED BY <4>3, BatchFacts DEF InBatch
    <3>2. \A s \in Seqs(Rebuilt.events) : s > db.floor
      <4>1. \A e \in Rebuilt.events : e.seq > db.floor
        BY <2>2 DEF Restored
      <4> QED BY <4>1 DEF Seqs
    <3>3. \A s, t \in 1..db.projected :
            s <= t /\ s \in Seqs(Rebuilt.events) => t \in Terminals \/ t \in Seqs(Rebuilt.events)
      <4>1. SUFFICES ASSUME NEW s \in 1..db.projected, NEW t \in 1..db.projected, s <= t,
                            s \in Seqs(Rebuilt.events)
                     PROVE t \in Terminals \/ t \in Seqs(Rebuilt.events)
        OBVIOUS
      <4>2. t \in (db.floor + 1)..db.projected
        BY <1>2, <3>2, <4>1
      <4> QED BY <2>4, <4>2
    <3>4. Terminals' = Terminals
      BY <1>1 DEF Terminals
    <3> QED BY <1>1, <2>1, <2>4, <3>1, <3>3, <3>4 DEF LiveOK, InBatch
  <2>6. KafkaOK' /\ CursorsOK'
    BY <1>1, ProjectorFacts, CursorsUnchanged
  <2> QED BY <1>1, <2>3, <2>5, <2>6, LiveMovesKeep
<1>5. CASE ~(external /\ Missing(live))
  <2>1. live' = [live EXCEPT !.lost = FALSE]
    BY <1>1, <1>5 DEF RepairedLive
  <2>2. live' \in Lives /\ live'.events = live.events
    BY <1>3, <2>1 DEF Lives
  <2>3. PipeTypes'
    BY <1>1, <2>2 DEF PipeInv, PipeTypes, Lives
  <2>4. external => \A s \in (db.floor + 1)..db.projected : s \in Terminals \/ s \in Seqs(live.events)
    <3>1. SUFFICES ASSUME external, NEW s \in (db.floor + 1)..db.projected
                   PROVE s \in Terminals \/ s \in Seqs(live.events)
      OBVIOUS
    <3>2. ~(LiveThrough > db.floor) \/ db.floor + 1 \in Seqs(live.events)
      BY <1>5, <3>1 DEF Missing
    <3>3. CASE db.floor + 1 \in Seqs(live.events)
      <4>1. db.floor + 1 \in 1..db.projected /\ s \in 1..db.projected /\ db.floor + 1 <= s
        BY <1>2
      <4> QED BY <3>1, <3>3, <4>1 DEF PipeInv, LiveOK
    <3>4. CASE ~(LiveThrough > db.floor)
      <4>1. db.projected \in Terminals /\ s = db.projected
        BY <1>2, <3>4 DEF LiveThrough
      <4> QED BY <4>1
    <3> QED BY <3>2, <3>3, <3>4
  <2>5. Terminals' = Terminals /\ \A s : Excused(s)' = Excused(s)
    BY <1>1 DEF Terminals, Excused, TerminalOf
  <2>6. LiveOK'
    BY <1>1, <2>2, <2>4, <2>5 DEF PipeInv, LiveOK, InBatch
  <2>7. KafkaOK' /\ CursorsOK'
    BY <1>1, ProjectorFacts, CursorsUnchanged
  <2> QED BY <1>1, <2>3, <2>6, <2>7, LiveMovesKeep
<1> QED BY <1>4, <1>5
-----------------------------------------------------------------------------
(* The invariant of the pipeline.                                          *)

(* The pipeline starts in order.                                           *)
LEMMA PipelineStarts ==
  ASSUME PipelineInit
  PROVE PipeInv
<1> USE DEF PipelineInit
<1>1. MaxFence \in Nat \ {0} /\ PerTurn \in Nat \ {0} /\ Modes \subseteq BOOLEAN
  BY PipelineAssumption
<1>2. FreshWorker \in Workers
  <2>1. OpenedSpool(0) \in Spools /\ << >> \in Seq(FileRecords)
    BY DEF OpenedSpool, Spools
  <2> QED BY <2>1 DEF FreshWorker, Workers, WorkerPhases
<1>3. FreshSettle \in Settlements
  BY DEF FreshSettle, Settlements
<1>4. EmptyLive \in Lives /\ EmptyLive.events = {}
  BY DEF EmptyLive, Lives
<1>5. db \in Cursors /\ db.fence = 0 /\ db.lease = 0 /\ db.persisted = 0 /\ db.projected = 0 /\ db.floor = 0
  BY <1>1 DEF Cursors
<1>6. PipeTypes
  BY <1>1, <1>2, <1>3, <1>4, <1>5 DEF PipeTypes, Replies, Lives
<1>7. DOMAIN log = {} /\ Len(log) = 0 /\ DOMAIN kafka = {} /\ Len(kafka) = 0 /\ Terminals = {}
  BY DEF Terminals
<1>8. \A f \in Fences : f \in Nat \ {0} /\ worker[f] = FreshWorker /\ reply[f] = None /\ jobs[f] = None
  BY <1>1 DEF Fences
<1>9. LogOK
  BY <1>5, <1>7, <1>8 DEF LogOK
<1>10. CursorsOK
  BY <1>5, <1>7, <1>8 DEF CursorsOK
<1>11. WindowsOK
  BY <1>5, <1>8 DEF WindowsOK
<1>12. SpoolsOK
  BY <1>8 DEF SpoolsOK, FreshWorker
<1>13. KafkaOK
  BY <1>5, <1>7 DEF KafkaOK
<1>14. LiveOK
  BY <1>4, <1>5, SeqsFacts DEF LiveOK
<1> QED BY <1>6, <1>9, <1>10, <1>11, <1>12, <1>13, <1>14 DEF PipeInv

(* Every step of the pipeline keeps it in order.                           *)
LEMMA PipelineNextKeeps ==
  ASSUME PipeInv, PipelineNext
  PROVE PipeInv'
<1>1. CASE LeaseLapse
  BY <1>1, LeaseLapseKeeps
<1>2. CASE LiveStep
  BY <1>2, ProjectKeeps, ProjectRollbackKeeps, ProjectorKeeps, LoseLiveKeeps, StartGatewayKeeps DEF LiveStep
<1>3. ASSUME NEW f \in Fences, Assign(f) \/ WorkerStep(f) \/ SettleStep(f) \/ RetentionStep(f)
      PROVE PipeInv'
  <2>1. CASE Assign(f)
    BY <2>1, AssignKeeps
  <2>2. CASE WorkerStep(f)
    BY <2>2, WorkerStepKeeps
  <2>3. CASE SettleStep(f)
    BY <2>3, PrepareKeeps, CommitTerminalKeeps DEF SettleStep
  <2>4. CASE RetentionStep(f)
    BY <2>4, RetentionKeeps
  <2> QED BY <1>3, <2>1, <2>2, <2>3, <2>4
<1>4. ASSUME NEW m \in net, Ingest(m) \/ IngestRollback(m)
      PROVE PipeInv'
  BY <1>4, IngestAcceptKeeps, IngestAnswerKeeps, IngestRollbackKeeps
<1> QED BY <1>1, <1>2, <1>3, <1>4 DEF PipelineNext

(* Steps that only the browsers see.                                       *)
PipelineStays ==
  /\ external' = external /\ worker' = worker /\ net' = net /\ reply' = reply /\ db' = db
  /\ log' = log /\ settle' = settle /\ kafka' = kafka /\ proj' = proj /\ live' = live
  /\ jobs' = jobs /\ gateway' = gateway

(* Such steps keep the invariant.                                          *)
LEMMA PipelineStaysKeeps ==
  ASSUME PipeInv, PipelineStays
  PROVE PipeInv'
<1> USE DEF PipelineStays
<1>1. PipeTypes'
  BY DEF PipeInv, PipeTypes
<1>2. KafkaOK' /\ CursorsOK' /\ LiveOK'
  BY ProjectorFacts, CursorsUnchanged
<1> QED BY <1>1, <1>2, LiveMovesKeep

(* A browser leaves the pipeline alone.                                    *)
LEMMA BrowserStepStays ==
  ASSUME NEW b \in Browsers, BrowserStep(b) \/ Disconnect(b)
  PROVE PipelineStays
<1>1. CASE Disconnect(b)
  BY <1>1 DEF Disconnect, PipelineStays, workerVars, storeVars, liveVars
<1>2. CASE BrowserStep(b)
  <2>1. UNCHANGED pipeVars
    BY <1>2 DEF BrowserStep, LoadConversation, SnapshotTurn, ReadSnapshot, Subscribe, OpenWindow,
                Deliver, WindowEnds, Wake, Heartbeat, Set
  <2> QED BY <2>1 DEF pipeVars, PipelineStays, workerVars, storeVars, liveVars
<1> QED BY <1>1, <1>2

(* A step of the system is a step of the pipeline or leaves it alone.      *)
LEMMA NextCases ==
  ASSUME [Next]_vars
  PROVE (PipelineNext /\ browser' = AfterPipeline) \/ PipelineStays
<1>1. CASE Pipeline
  BY <1>1 DEF Pipeline
<1>2. CASE LoseNotification
  BY <1>2 DEF LoseNotification, PipelineStays, workerVars, storeVars, liveVars
<1>3. ASSUME NEW b \in Browsers, BrowserStep(b) \/ Disconnect(b)
      PROVE PipelineStays
  BY <1>3, BrowserStepStays
<1>4. CASE UNCHANGED vars
  BY <1>4 DEF vars, pipeVars, PipelineStays, workerVars, storeVars, liveVars
<1> QED BY <1>1, <1>2, <1>3, <1>4 DEF Next

(* The inductive invariant holds in every state of the system: cursors,    *)
(* spools, files, log, broker and live stream agree.                       *)
THEOREM PipelineInvariant == Spec => []PipeInv
<1>1. Init => PipeInv
  BY PipelineStarts DEF Init
<1>2. PipeInv /\ [Next]_vars => PipeInv'
  BY NextCases, PipelineNextKeeps, PipelineStaysKeeps
<1> QED BY <1>1, <1>2, PTL DEF Spec
-----------------------------------------------------------------------------
(* What the invariant says to a reader.                                    *)

(* The invariant bounds every cursor.                                      *)
LEMMA PipelineTypes ==
  ASSUME PipeInv
  PROVE PipelineTypeOK
<1>1. ASSUME NEW f \in Fences
      PROVE LET w == worker[f] IN
            /\ w.phase \in WorkerPhases
            /\ w.spool.ack \in 0..MaxSeq /\ w.spool.high \in w.spool.ack..MaxSeq
            /\ Pending(w.spool) <= MaxPending
            /\ w.flight # 0 => w.sent - w.flight < MaxBatch
            /\ reply[f] \in {None, "ack", "stale", "error"}
            /\ jobs[f] \in {None, "pending", "again", "trimmed", "done"}
  <2> DEFINE w == worker[f]
  <2>1. w \in Workers /\ reply[f] \in Replies /\ jobs[f] \in {None, "pending", "again", "trimmed", "done"}
    BY DEF PipeInv, PipeTypes
  <2>2. /\ w.base \in Nat /\ w.spool.ack \in Nat /\ w.spool.high \in Nat /\ PerTurn \in Nat
        /\ MaxPending \in Nat /\ f \in Nat \ {0} /\ MaxFence \in Nat /\ f <= MaxFence
    BY <2>1, WorkerNumbers, Numbers DEF PipeInv, Fences
  <2>3. MaxSeq \in Nat /\ f * (PerTurn + 1) <= MaxSeq
    <3>1. MaxSeq \in Nat
      BY <2>2 DEF MaxSeq
    <3>2. f * (PerTurn + 1) <= MaxFence * (PerTurn + 1)
      <4>1. PICK k \in Nat : k = PerTurn + 1
        BY <2>2
      <4>2. PICK d \in Nat : MaxFence = f + d
        <5>1. MaxFence - f \in Nat /\ MaxFence = f + (MaxFence - f)
          BY <2>2
        <5> QED BY <5>1
      <4>3. MaxFence * k = f * k + d * k /\ d * k \in Nat /\ f * k \in Nat
        BY <2>2, <4>2
      <4>4. f * k <= MaxFence * k
        BY <4>3
      <4> QED BY <4>1, <4>4
    <3> QED BY <3>1, <3>2 DEF MaxSeq
  <2>4. CASE w.phase = "none"
    <3>1. w = FreshWorker
      BY <2>4, WorkerFacts
    <3>2. w.spool.ack = 0 /\ w.spool.high = 0 /\ w.flight = 0
      BY <3>1 DEF FreshWorker, OpenedSpool
    <3> HIDE DEF w
    <3>3. w.phase \in WorkerPhases
      BY <2>4 DEF WorkerPhases
    <3>4. Pending(w.spool) <= MaxPending
      BY <2>2, <3>2 DEF Pending
    <3> QED BY <2>1, <2>3, <3>2, <3>3, <3>4 DEF Replies, w
  <2>5. CASE w.phase # "none"
    <3>1. SpoolOK(f, w, reply[f]) /\ f <= db.fence
      BY <2>5, WorkerFacts
    <3>2. CursorsOf(w)
      BY <3>1 DEF SpoolOK
    <3>3. w.base <= (f - 1) * (PerTurn + 1)
      <4>1. ~(db.fence < f)
        BY <2>2, <3>1, Numbers DEF PipeInv
      <4> QED BY <4>1 DEF PipeInv, WindowsOK
    <3>4. w.spool.high <= MaxSeq
      <4>1. PICK x \in Nat : x = (f - 1) * (PerTurn + 1)
        <5>1. f - 1 \in Nat
          BY <2>2
        <5> QED BY <2>2, <5>1
      <4>2. x + PerTurn + 1 = f * (PerTurn + 1) /\ f * (PerTurn + 1) \in Nat
        BY <2>2, <4>1
      <4>3. w.spool.high <= w.base + PerTurn /\ w.base <= x
        BY <3>2, <3>3, <4>1 DEF CursorsOf
      <4> HIDE DEF w
      <4> QED BY <2>2, <2>3, <4>2, <4>3
    <3>5. w.phase \in WorkerPhases
      BY <2>1 DEF Workers
    <3>6. w.spool.ack <= w.spool.high /\ Pending(w.spool) <= MaxPending
          /\ (w.flight # 0 => w.sent - w.flight < MaxBatch)
      BY <3>2 DEF CursorsOf
    <3> HIDE DEF w
    <3>7. w.spool.ack \in 0..MaxSeq /\ w.spool.high \in w.spool.ack..MaxSeq
      BY <2>2, <2>3, <3>4, <3>6
    <3> QED BY <2>1, <3>5, <3>6, <3>7 DEF Replies, w
  <2> QED BY <2>4, <2>5
<1>2. \A m \in net : m.lo <= m.hi /\ m.by \in Fences
  BY DEF PipeInv, PipeTypes, Batches, WindowsOK
<1>3. /\ db.floor <= db.projected /\ db.projected <= db.persisted
      /\ db.persisted = Len(log) /\ db.lease \in {0, db.fence}
  BY DEF PipeInv, CursorsOK, LogOK
<1>4. proj.pos \in 1..(Len(kafka) + 1) /\ proj.stored \in 0..Len(kafka)
  BY ProjectorFacts
<1>5. external \in BOOLEAN /\ gateway \in BOOLEAN
  BY DEF PipeInv, PipeTypes
<1> QED BY <1>1, <1>2, <1>3, <1>4, <1>5 DEF PipelineTypeOK

(* From any file the spool can be rebuilt.                                 *)
LEMMA SpoolsRecover ==
  ASSUME PipeInv
  PROVE SpoolRecovers
<1>1. SUFFICES ASSUME NEW f \in Fences, worker[f].phase # "none"
               PROVE LET w == worker[f]
                         sp == Load(w.file) IN
                     /\ sp # Corrupt
                     /\ w.phase # "dead" => sp = w.spool
                     /\ sp.ack = w.spool.ack /\ sp.high - w.spool.high \in {0, 1}
  BY DEF SpoolRecovers
<1> DEFINE w == worker[f]
<1>2. w \in Workers /\ SpoolOK(f, w, reply[f])
  BY <1>1, WorkerFacts
<1> HIDE DEF w
<1>3. w.spool \in Spools /\ w.spool.high \in Nat
  BY <1>2, WorkerNumbers
<1>4. CASE w.phase = "dead"
  <2>1. /\ Load(w.file) \in Spools /\ Load(w.file).ack = w.spool.ack
        /\ Load(w.file).high \in {w.spool.high, w.spool.high + 1}
    BY <1>2, <1>4, RecoveredSpool
  <2> QED BY <1>3, <1>4, <2>1, SpoolIsNotCorrupt DEF w
<1>5. CASE w.phase # "dead"
  <2>1. Rebuilds(w.file, w.spool) /\ Pending(w.spool) <= MaxPending
    BY <1>2, <1>5 DEF SpoolOK, FileOf, CursorsOf
  <2>2. Load(w.file) = w.spool
    BY <1>3, <2>1, LoadRebuilds
  <2> QED BY <1>3, <2>2, SpoolIsNotCorrupt DEF w
<1> QED BY <1>4, <1>5

(* What was acknowledged is in the log.                                    *)
LEMMA AcknowledgedDurable ==
  ASSUME PipeInv
  PROVE AcknowledgedAreDurable
<1>1. SUFFICES ASSUME NEW f \in Fences, NEW s \in (worker[f].base + 1)..worker[f].spool.ack
               PROVE s <= db.persisted /\ log[s] = Entry(f, "worker")
  BY DEF AcknowledgedAreDurable
<1>2. CASE worker[f].phase = "none"
  <2>1. worker[f] = FreshWorker
    BY <1>2, WorkerFacts
  <2> QED BY <2>1 DEF FreshWorker, OpenedSpool
<1>3. CASE worker[f].phase # "none"
  BY <1>3, WorkerFacts DEF SpoolOK, Durable
<1> QED BY <1>2, <1>3

(* While no batch of the broker is an orphan, an event of the live stream  *)
(* that is in the log is the one that was accepted.                        *)
LEMMA LiveIsAccepted ==
  ASSUME PipeInv, ~Orphaned, NEW e \in live.events, e.seq <= db.persisted
  PROVE e = EventAt(e.seq)
<1>1. PICK i \in DOMAIN kafka : InBatch(e.seq, i) /\ e.by = kafka[i].by /\ e.kind = "worker"
  BY DEF PipeInv, LiveOK
<1>2. log[e.seq] = Entry(kafka[i].by, "worker")
  BY <1>1 DEF Orphaned, InBatch
<1>3. e \in Events
  BY DEF PipeInv, PipeTypes
<1>4. EventAt(e.seq) = [seq |-> e.seq, by |-> e.by, kind |-> e.kind]
  BY <1>1, <1>2 DEF EventAt, Event, Entry
<1> QED BY <1>3, <1>4 DEF Events

(* What is replayed is what was accepted.                                  *)
LEMMA ReplayAccepted ==
  ASSUME PipeInv
  PROVE ReplayIsAccepted
<1>1. SUFFICES ASSUME external, ~Orphaned
               PROVE /\ \A e \in live.events : e.seq <= db.persisted => e = EventAt(e.seq)
                     /\ \A s \in (db.floor + 1)..db.projected :
                           \/ s \in Terminals \/ live.lost \/ EventAt(s) \in live.events
                           \/ \E f \in Fences : jobs[f] \in {"trimmed", "again"} /\ s <= TerminalOf(f)
  BY DEF ReplayIsAccepted
<1>2. \A e \in live.events : e.seq <= db.persisted => e = EventAt(e.seq)
  BY <1>1, LiveIsAccepted
<1>3. ASSUME NEW s \in (db.floor + 1)..db.projected, s \in Seqs(live.events)
      PROVE EventAt(s) \in live.events
  <2>1. PICK e \in live.events : e.seq = s
    BY <1>3, SeqsFacts
  <2>2. s <= db.persisted
    BY Numbers DEF PipeInv, CursorsOK
  <2> QED BY <1>2, <2>1, <2>2
<1> QED BY <1>1, <1>2, <1>3 DEF PipeInv, LiveOK, Excused

(* From the Worker's file to the replay window nothing is lost or invented,*)
(* for any number of Turns, events, crashes, lapses, timeouts, rollbacks   *)
(* and losses of the live store.                                           *)
THEOREM NothingIsLost == Spec => []AcceptedIsKept
<1>1. PipeInv => AcceptedIsKept
  BY PipelineTypes, SpoolsRecover, AcknowledgedDurable, ReplayAccepted DEF AcceptedIsKept
<1> QED BY <1>1, PipelineInvariant, PTL
-----------------------------------------------------------------------------
(* The browsers.                                                           *)

BrowserPhases == {"load", "loaded", "snapshot", "connect", "opening", "window", "idle"}
BrowserStates == [phase : BrowserPhases, last : Nat, view : Nat, shown : SUBSET Events, hwm : Nat,
                  wake : Nat, replay : Nat, loaded : SUBSET Events, turn : 0..MaxFence,
                  hole : SUBSET Nat]

Horizon == LastTerminal(db.persisted)

(* A browser never shows more than is projected, its stream is not ahead   *)
(* of its view, and a view that is ahead of its stream, or is about to be  *)
(* replaced, ends within the settled Turns.                                *)
BrowserOK(w) ==
  /\ w.last <= w.view /\ w.view <= db.projected
  /\ w.hwm <= db.projected /\ w.wake <= db.projected
  /\ w.last = w.view \/ w.view <= Horizon
  /\ w.phase = "load" => w.view <= Horizon
  /\ w.phase \in {"loaded", "snapshot"} => w.view <= w.replay /\ w.replay <= Horizon

BrowsersOK == browser \in [Browsers -> BrowserStates] /\ \A b \in Browsers : BrowserOK(browser[b])

(* The last terminal event up to n.                                        *)
LEMMA LastTerminals ==
  ASSUME PipeInv, NEW n \in Nat
  PROVE /\ LastTerminal(n) \in {0} \cup Terminals /\ LastTerminal(n) \in Nat /\ LastTerminal(n) <= n
        /\ \A s \in Terminals : s <= n => s <= LastTerminal(n)
<1> DEFINE T == {0} \cup {s \in Terminals : s <= n}
<1>1. T \subseteq Nat /\ T # {} /\ \A x \in T : x <= n
  BY Numbers DEF PipeInv, Terminals
<1>2. Max(T) \in T /\ \A x \in T : x <= Max(T)
  <2> HIDE DEF T
  <2> QED BY <1>1, MaxNat
<1>3. LastTerminal(n) = Max(T)
  BY DEF LastTerminal
<1> HIDE DEF T
<1>4. LastTerminal(n) \in T /\ \A x \in T : x <= LastTerminal(n)
  BY <1>2, <1>3
<1> QED BY <1>1, <1>4 DEF T

(* The horizon is within the projected prefix and not below the floor.     *)
LEMMA Horizons ==
  ASSUME PipeInv
  PROVE /\ Horizon \in Nat /\ Horizon <= db.projected /\ Horizon \in {0} \cup Terminals
        /\ db.floor <= Horizon
        /\ \A s \in Terminals : s <= Horizon
<1>1. db.persisted \in Nat /\ db.projected \in Nat /\ db.floor \in Nat
  BY Numbers DEF PipeInv
<1>2. /\ Horizon \in {0} \cup Terminals /\ Horizon \in Nat
      /\ \A s \in Terminals : s <= db.persisted => s <= Horizon
  BY <1>1, LastTerminals DEF Horizon
<1>3. \A s \in Terminals : s \in Nat /\ s <= db.projected /\ s <= db.persisted
  BY Numbers DEF PipeInv, CursorsOK, Terminals, LogOK
<1>4. db.floor = 0 \/ db.floor \in Terminals
  BY DEF PipeInv, CursorsOK
<1> QED BY <1>1, <1>2, <1>3, <1>4

(* What a step of the pipeline does to the log: nothing, or it accepts a   *)
(* publication, or it closes the open Turn.                                *)
LogStep ==
  /\ \/ log' = log
     \/ \E m \in net : Ingest(m) /\ Accepted(m)
     \/ \E f \in Fences : f = db.fence /\ ~Settled(f) /\ Closed(f)
                          /\ log' = Append(log, Entry(f, "terminal"))
  /\ db.projected <= db'.projected

(* Every step of the pipeline is such a step.                              *)
LEMMA LogSteps ==
  ASSUME PipeInv, PipelineNext
  PROVE LogStep
<1>1. db.projected \in Nat /\ db.persisted \in Nat /\ db.projected <= db.persisted
  BY Numbers DEF PipeInv, CursorsOK
<1>2. ASSUME LeaseLapse PROVE LogStep
  BY <1>1, <1>2 DEF LogStep, LeaseLapse, PipeInv, PipeTypes, Cursors
<1>3. ASSUME LiveStep PROVE LogStep
  <2>1. CASE Project
    <3>1. Envelope.hi \in Nat
      BY <2>1, ProjectedFacts DEF Project, Batches
    <3>2. db.projected <= Max({db.projected, Envelope.hi})
      BY <1>1, <3>1, MaxPair
    <3>3. db' = [db EXCEPT !.projected = Max({db.projected, Envelope.hi})] /\ log' = log
      BY <2>1 DEF Project
    <3> QED BY <3>2, <3>3 DEF LogStep, PipeInv, PipeTypes, Cursors
  <2>2. ASSUME ~Project
        PROVE log' = log /\ db' = db
    <3>1. CASE ProjectRollback
      BY <3>1 DEF ProjectRollback, storeVars
    <3>2. CASE SkipProjected
      BY <3>2 DEF SkipProjected, storeVars
    <3>3. CASE ProjectConflict
      BY <3>3 DEF ProjectConflict, storeVars
    <3>4. CASE LoseLive \/ GatewayCrash \/ StartGateway
      BY <3>4 DEF LoseLive, GatewayCrash, StartGateway, storeVars
    <3> QED BY <1>3, <2>2, <3>1, <3>2, <3>3, <3>4 DEF LiveStep
  <2> QED BY <1>1, <2>1, <2>2 DEF LogStep
<1>4. ASSUME NEW f \in Fences, Assign(f) \/ WorkerStep(f) \/ RetentionStep(f) \/ Prepare(f)
      PROVE log' = log /\ db'.projected = db.projected
  <2>1. CASE Assign(f)
    BY <2>1 DEF Assign, PipeInv, PipeTypes, Cursors
  <2>2. CASE WorkerStep(f)
    BY <2>2 DEF WorkerStep, Produce, Flush, Acknowledged, PublishFails, Drain, Crash, StartRecovery,
                RecoverSend, RecoveryEnds, MarkRejected, Quarantine, storeVars
  <2>3. CASE RetentionStep(f)
    BY <2>3 DEF RetentionStep, Trim, RaiseFloor, CompactionFails, storeVars, PipeInv, PipeTypes, Cursors
  <2>4. CASE Prepare(f)
    BY <2>4 DEF Prepare
  <2> QED BY <1>4, <2>1, <2>2, <2>3, <2>4
<1>5. ASSUME NEW f \in Fences, NEW o \in {"completed", "failed"}, CommitTerminal(f, o)
      PROVE /\ f = db.fence /\ ~Settled(f) /\ Closed(f) /\ log' = Append(log, Entry(f, "terminal"))
            /\ db.projected <= db'.projected
  <2>1. /\ f = db.fence /\ ~Settled(f) /\ log' = Append(log, Entry(f, "terminal"))
        /\ db' = [db EXCEPT !.persisted = db.persisted + 1, !.projected = db.persisted + 1, !.lease = 0]
    BY <1>5 DEF CommitTerminal, Settling
  <2>2. db'.persisted = db.persisted + 1 /\ db'.projected = db.persisted + 1
    BY <2>1 DEF PipeInv, PipeTypes, Cursors
  <2> QED BY <1>1, <2>1, <2>2, ClosedFacts
<1>6. ASSUME NEW m \in net, Ingest(m)
      PROVE (log' = log \/ Accepted(m)) /\ db.projected <= db'.projected
  <2>1. CASE IngestOutcome(m) = "accept"
    <3>1. Accepted(m)
      BY <1>6, <2>1, AcceptedFacts
    <3>2. db'.projected = IF external THEN db.projected ELSE m.hi
      BY <3>1 DEF Accepted
    <3>3. m.hi \in Nat /\ db.persisted < m.hi
      BY <3>1 DEF Accepted, PipeInv, PipeTypes, Batches
    <3> QED BY <1>1, <3>1, <3>2, <3>3
  <2>2. CASE IngestOutcome(m) # "accept"
    BY <1>1, <1>6, <2>2 DEF Ingest
  <2> QED BY <2>1, <2>2
<1>7. ASSUME NEW m \in net, IngestRollback(m)
      PROVE log' = log /\ db'.projected = db.projected
  BY <1>7 DEF IngestRollback, storeVars
<1>8. ASSUME NEW f \in Fences, SettleStep(f)
      PROVE LogStep
  <2>1. CASE Prepare(f)
    BY <1>1, <1>4, <2>1 DEF LogStep
  <2>2. ASSUME NEW o \in {"completed", "failed"}, CommitTerminal(f, o)
        PROVE LogStep
    BY <1>5, <2>2 DEF LogStep
  <2> QED BY <1>8, <2>1, <2>2 DEF SettleStep
<1>9. ASSUME NEW f \in Fences, Assign(f) \/ WorkerStep(f) \/ RetentionStep(f)
      PROVE LogStep
  BY <1>1, <1>4, <1>9 DEF LogStep
<1>10. ASSUME NEW m \in net, Ingest(m) \/ IngestRollback(m)
       PROVE LogStep
  BY <1>1, <1>6, <1>7, <1>10 DEF LogStep
<1>11. LeaseLapse \/ LiveStep => LogStep
  BY <1>2, <1>3
<1> QED BY <1>8, <1>9, <1>10, <1>11 DEF PipelineNext

(* The log only grows, and so do its terminal events and the horizon.      *)
LEMMA HorizonGrows ==
  ASSUME PipeInv, PipeInv', PipelineNext
  PROVE /\ Horizon <= Horizon' /\ Horizon' \in Nat /\ Terminals \subseteq Terminals'
        /\ \A s \in DOMAIN log : s \in DOMAIN log' /\ log'[s] = log[s]
<1>1. Terminals \subseteq Terminals' /\ \A s \in DOMAIN log : s \in DOMAIN log' /\ log'[s] = log[s]
  <2>1. CASE log' = log
    BY <2>1 DEF Terminals
  <2>2. ASSUME NEW m \in net, Accepted(m)
        PROVE Terminals' = Terminals /\ LogGrows
    BY <2>2 DEF Accepted
  <2>3. ASSUME NEW f \in Fences, Closed(f)
        PROVE Terminals \subseteq Terminals' /\ LogGrows
    BY <2>3 DEF Closed
  <2>4. LogGrows => \A s \in DOMAIN log : s \in DOMAIN log' /\ log'[s] = log[s]
    BY Numbers DEF LogGrows, PipeInv
  <2> QED BY <2>1, <2>2, <2>3, <2>4, LogSteps DEF LogStep
<1>2. /\ Horizon \in {0} \cup Terminals /\ Horizon \in Nat
  BY Horizons
<1>3. \A s \in Terminals' : s \in Nat /\ s <= db'.persisted
  <2>1. (CursorsOK)' /\ (LogOK)' /\ (PipeTypes)'
    BY DEF PipeInv
  <2>2. db'.persisted = Len(log') /\ log' \in Seq(Entries)
    BY <2>1 DEF CursorsOK, LogOK, PipeTypes
  <2> QED BY <2>2 DEF Terminals
<1>4. db'.persisted \in Nat
  BY DEF PipeInv, PipeTypes, Cursors
<1>5. Horizon' \in Nat /\ \A s \in Terminals' : s <= Horizon'
  <2> DEFINE T == {0} \cup {s \in Terminals' : s <= db'.persisted}
  <2>1. T \subseteq Nat /\ T # {} /\ \A x \in T : x <= db'.persisted
    BY <1>3, <1>4
  <2>2. Max(T) \in T /\ \A x \in T : x <= Max(T)
    <3> HIDE DEF T
    <3> QED BY <1>4, <2>1, MaxNat
  <2>3. Horizon' = Max(T)
    BY DEF Horizon, LastTerminal
  <2> HIDE DEF T
  <2>4. Horizon' \in T /\ \A x \in T : x <= Horizon'
    BY <2>2, <2>3
  <2> QED BY <1>3, <2>1, <2>4 DEF T
<1> QED BY <1>1, <1>2, <1>5

(* A browser's state stays good while projection and horizon only grow.    *)
LEMMA BrowserKeeps ==
  ASSUME PipeInv, PipeInv', NEW w \in BrowserStates, BrowserOK(w),
         db.projected <= db'.projected, Horizon <= Horizon', Horizon' \in Nat
  PROVE BrowserOK(w)'
<1>1. db.projected \in Nat /\ Horizon \in Nat
  BY Numbers, Horizons DEF PipeInv
<1>2. db'.projected \in Nat
  BY DEF PipeInv, PipeTypes, Cursors
<1>3. w.last \in Nat /\ w.view \in Nat /\ w.hwm \in Nat /\ w.wake \in Nat /\ w.replay \in Nat
  BY DEF BrowserStates
<1> QED BY <1>1, <1>2, <1>3 DEF BrowserOK

(* A dropped connection keeps cursor and view.                             *)
LEMMA DroppedFacts ==
  ASSUME NEW w \in BrowserStates, BrowserOK(w), PipeInv
  PROVE Dropped(w) \in BrowserStates /\ BrowserOK(Dropped(w)) /\ Dropped(w).view = w.view
<1>1. CASE Streaming(w.phase)
  <2>1. PICK v : v = [w EXCEPT !.phase = "connect", !.wake = 0]
    OBVIOUS
  <2>2. v \in BrowserStates
    BY <2>1 DEF BrowserStates, BrowserPhases
  <2>3. v.phase = "connect" /\ v.wake = 0 /\ v.last = w.last /\ v.view = w.view /\ v.hwm = w.hwm
    BY <2>1 DEF BrowserStates
  <2>4. db.projected \in Nat
    BY Numbers DEF PipeInv
  <2>5. BrowserOK(v)
    BY <2>3, <2>4 DEF BrowserOK
  <2>6. Dropped(w) = v
    BY <1>1, <2>1 DEF Dropped
  <2> QED BY <2>2, <2>3, <2>5, <2>6
<1>2. CASE ~Streaming(w.phase)
  BY <1>2 DEF Dropped
<1> QED BY <1>1, <1>2

(* So does a wake of the commit that moved the projection.                 *)
LEMMA WokenFacts ==
  ASSUME NEW w \in BrowserStates, NEW s \in Nat
  PROVE /\ Woken(w, s) \in BrowserStates
        /\ \E k \in Nat : k \in {w.wake, s} /\ Woken(w, s) = [w EXCEPT !.wake = k]
<1>1. w.wake \in Nat
  BY DEF BrowserStates
<1>2. PICK k \in Nat : k = Max({w.wake, s})
  BY <1>1, MaxPair
<1>3. k \in {w.wake, s}
  BY <1>1, <1>2, MaxPair
<1>4. w = [w EXCEPT !.wake = w.wake]
  BY DEF BrowserStates
<1>5. Woken(w, s) = IF ~Streaming(w.phase) THEN w ELSE [w EXCEPT !.wake = k]
  BY <1>2 DEF Woken
<1>6. [w EXCEPT !.wake = k] \in BrowserStates
  BY DEF BrowserStates
<1> QED BY <1>1, <1>3, <1>4, <1>5, <1>6

(* The pipeline moves the browsers' view and cursor by nothing.            *)
LEMMA PipelineKeepsBrowsers ==
  ASSUME PipeInv, PipeInv', BrowsersOK, Pipeline
  PROVE /\ BrowsersOK'
        /\ \A b \in Browsers : browser'[b].view = browser[b].view
<1>1. /\ Horizon <= Horizon' /\ Horizon' \in Nat /\ db.projected <= db'.projected
      /\ db'.projected \in Nat
  BY HorizonGrows, LogSteps DEF Pipeline, LogStep, PipeInv, PipeTypes, Cursors
<1>2. ASSUME NEW b \in Browsers
      PROVE \E v \in BrowserStates : /\ browser'[b] = v /\ BrowserOK(v)'
                                     /\ v.view = browser[b].view
  <2>1. PICK w \in BrowserStates : w = browser[b] /\ BrowserOK(w)
    BY DEF BrowsersOK
  <2>2. BrowserOK(w)'
    BY <1>1, <2>1, BrowserKeeps
  <2>3. PICK v \in BrowserStates : v = Dropped(w) /\ BrowserOK(v) /\ v.view = w.view
    BY <2>1, DroppedFacts
  <2>4. BrowserOK(v)'
    BY <1>1, <2>3, BrowserKeeps
  <2>5. PICK s \in Nat : s = db'.projected
    BY <1>1
  <2>6. PICK u \in BrowserStates, k \in Nat :
           u = Woken(w, s) /\ k \in {w.wake, s} /\ u = [w EXCEPT !.wake = k]
    BY WokenFacts
  <2>7. BrowserOK(u)' /\ u.view = w.view
    <3>1. /\ u.last = w.last /\ u.view = w.view /\ u.hwm = w.hwm /\ u.replay = w.replay
          /\ u.phase = w.phase /\ u.wake \in {w.wake, s}
      BY <2>6 DEF BrowserStates
    <3> QED BY <1>1, <2>2, <2>5, <3>1 DEF BrowserOK
  <2>8. browser'[b] \in {w, v, u}
    BY <2>1, <2>3, <2>5, <2>6 DEF Pipeline, AfterPipeline
  <2> QED BY <2>1, <2>2, <2>3, <2>4, <2>7, <2>8
<1>3. browser' = [b \in Browsers |-> browser'[b]]
  BY DEF Pipeline, AfterPipeline
<1>4. browser' \in [Browsers -> BrowserStates] /\ \A b \in Browsers : BrowserOK(browser[b])'
  <2>1. \A b \in Browsers : browser'[b] \in BrowserStates
    BY <1>2
  <2>2. ASSUME NEW b \in Browsers PROVE BrowserOK(browser[b])'
    <3>1. PICK v \in BrowserStates : browser'[b] = v /\ BrowserOK(v)'
      BY <1>2
    <3> QED BY <3>1 DEF BrowserOK
  <2> QED BY <1>3, <2>1, <2>2
<1> QED BY <1>2, <1>4 DEF BrowsersOK
-----------------------------------------------------------------------------
(* The steps of a browser.                                                 *)

(* A browser takes a good state whose view is not behind the old one.      *)
BrowserMoves(b) ==
  \E v \in BrowserStates : /\ BrowserOK(v) /\ browser[b].view <= v.view
                           /\ browser' = [browser EXCEPT ![b] = v]

(* What is known of a browser before a step.                               *)
Known(b, w) ==
  /\ w = browser[b] /\ BrowserOK(w)
  /\ w.last \in Nat /\ w.view \in Nat /\ w.hwm \in Nat /\ w.wake \in Nat /\ w.replay \in Nat
  /\ w.last <= w.view /\ w.view <= db.projected
  /\ db.projected \in Nat /\ db.persisted \in Nat /\ db.floor \in Nat /\ Horizon \in Nat
  /\ db.floor <= Horizon /\ Horizon <= db.projected /\ db.projected <= db.persisted

(* Every browser is in a known state.                                      *)
LEMMA BrowserFacts ==
  ASSUME PipeInv, BrowsersOK, NEW b \in Browsers
  PROVE \E w \in BrowserStates : Known(b, w)
<1>1. browser[b] \in BrowserStates /\ BrowserOK(browser[b])
  BY DEF BrowsersOK
<1>2. Known(b, browser[b])
  BY <1>1, Numbers, Horizons DEF Known, BrowserStates, BrowserOK, PipeInv, CursorsOK
<1> QED BY <1>1, <1>2

(* A new state with a view that is not behind is a move.                   *)
LEMMA MovesTo ==
  ASSUME NEW b \in Browsers, NEW w \in BrowserStates, Known(b, w),
         NEW v \in BrowserStates, BrowserOK(v), w.view <= v.view,
         browser' = [browser EXCEPT ![b] = v]
  PROVE BrowserMoves(b)
BY DEF BrowserMoves, Known

(* The conversation ends at the horizon.                                   *)
LEMMA LoadConversationMoves ==
  ASSUME PipeInv, BrowsersOK, NEW b \in Browsers, LoadConversation(b)
  PROVE BrowserMoves(b)
<1>1. PICK w \in BrowserStates : Known(b, w)
  BY BrowserFacts
<1>2. PICK r \in Nat : r = Max({db.floor, LastTerminal(db.persisted)})
  BY <1>1, MaxPair DEF Horizon, Known
<1>3. r = Horizon
  BY <1>1, <1>2, MaxPair DEF Horizon, Known
<1>4. PICK T : T = Transcripts
  OBVIOUS
<1>5. T \subseteq Events
  BY <1>4 DEF Transcripts, PipeInv, PipeTypes, Settlements
<1>6. PICK v : v = [w EXCEPT !.phase = "loaded", !.loaded = T, !.replay = r]
  OBVIOUS
<1>7. v \in BrowserStates
  BY <1>5, <1>6 DEF BrowserStates, BrowserPhases
<1>8. /\ v.phase = "loaded" /\ v.replay = r /\ v.last = w.last /\ v.view = w.view
      /\ v.hwm = w.hwm /\ v.wake = w.wake
  BY <1>6 DEF BrowserStates
<1>9. w.phase = "load" /\ browser' = [browser EXCEPT ![b] = v]
  BY <1>1, <1>2, <1>4, <1>6 DEF LoadConversation, Set, Known
<1>10. BrowserOK(v) /\ w.view <= v.view
  BY <1>1, <1>3, <1>8, <1>9 DEF BrowserOK, Known
<1> QED BY <1>1, <1>7, <1>8, <1>9, <1>10, MovesTo

(* The lookup of the active Turn.                                          *)
LEMMA SnapshotTurnMoves ==
  ASSUME PipeInv, BrowsersOK, NEW b \in Browsers, SnapshotTurn(b)
  PROVE BrowserMoves(b)
<1>1. PICK w \in BrowserStates : Known(b, w)
  BY BrowserFacts
<1>2. PICK t \in 0..MaxFence : t = IF external THEN ActiveTurn ELSE 0
  BY Numbers, PipelineAssumption DEF ActiveTurn, PipeInv
<1>3. PICK v : v = [w EXCEPT !.phase = "snapshot", !.turn = t]
  OBVIOUS
<1>4. v \in BrowserStates
  BY <1>3 DEF BrowserStates, BrowserPhases
<1>5. /\ v.phase = "snapshot" /\ v.replay = w.replay /\ v.last = w.last /\ v.view = w.view
      /\ v.hwm = w.hwm /\ v.wake = w.wake
  BY <1>3 DEF BrowserStates
<1>6. w.phase = "loaded" /\ browser' = [browser EXCEPT ![b] = v]
  BY <1>1, <1>2, <1>3 DEF SnapshotTurn, Set, Known
<1>7. BrowserOK(v) /\ w.view <= v.view
  BY <1>1, <1>5, <1>6 DEF BrowserOK, Known
<1> QED BY <1>1, <1>4, <1>5, <1>6, <1>7, MovesTo

(* The stream is opened.                                                   *)
LEMMA SubscribeMoves ==
  ASSUME PipeInv, BrowsersOK, NEW b \in Browsers, Subscribe(b)
  PROVE BrowserMoves(b)
<1>1. PICK w \in BrowserStates : Known(b, w)
  BY BrowserFacts
<1>2. PICK v : v = [w EXCEPT !.phase = "opening", !.wake = 0]
  OBVIOUS
<1>3. v \in BrowserStates
  BY <1>2 DEF BrowserStates, BrowserPhases
<1>4. v.phase = "opening" /\ v.last = w.last /\ v.view = w.view /\ v.hwm = w.hwm /\ v.wake = 0
  BY <1>2 DEF BrowserStates
<1>5. browser' = [browser EXCEPT ![b] = v]
  BY <1>1, <1>2 DEF Subscribe, Set, Known
<1>6. BrowserOK(v) /\ w.view <= v.view
  BY <1>1, <1>4 DEF BrowserOK, Known
<1> QED BY <1>1, <1>3, <1>4, <1>5, <1>6, MovesTo

(* The replay window is opened, or the cursor has expired.                 *)
LEMMA OpenWindowMoves ==
  ASSUME PipeInv, BrowsersOK, NEW b \in Browsers, OpenWindow(b)
  PROVE BrowserMoves(b)
<1>1. PICK w \in BrowserStates : Known(b, w)
  BY BrowserFacts
<1>2. CASE w.last < db.floor
  <2>1. PICK v : v = [w EXCEPT !.phase = "load", !.wake = 0]
    OBVIOUS
  <2>2. v \in BrowserStates
    BY <2>1 DEF BrowserStates, BrowserPhases
  <2>3. v.phase = "load" /\ v.last = w.last /\ v.view = w.view /\ v.hwm = w.hwm /\ v.wake = 0
    BY <2>1 DEF BrowserStates
  <2>4. browser' = [browser EXCEPT ![b] = v]
    BY <1>1, <1>2, <2>1 DEF OpenWindow, Set, Known
  <2>5. BrowserOK(v) /\ w.view <= v.view
    BY <1>1, <1>2, <2>3 DEF BrowserOK, Known
  <2> QED BY <1>1, <2>2, <2>3, <2>4, <2>5, MovesTo
<1>3. CASE ~(w.last < db.floor)
  <2>1. PICK h \in Nat : h = db.projected
    BY <1>1 DEF Known
  <2>2. PICK v : v = [w EXCEPT !.phase = "window", !.hwm = h]
    OBVIOUS
  <2>3. v \in BrowserStates
    BY <2>2 DEF BrowserStates, BrowserPhases
  <2>4. v.phase = "window" /\ v.last = w.last /\ v.view = w.view /\ v.hwm = h /\ v.wake = w.wake
    BY <2>2 DEF BrowserStates
  <2>5. browser' = [browser EXCEPT ![b] = v]
    BY <1>1, <1>3, <2>1, <2>2 DEF OpenWindow, Set, Known
  <2>6. BrowserOK(v) /\ w.view <= v.view
    BY <1>1, <2>1, <2>4 DEF BrowserOK, Known
  <2> QED BY <1>1, <2>3, <2>4, <2>5, <2>6, MovesTo
<1> QED BY <1>2, <1>3

(* A window ends.                                                          *)
LEMMA WindowEndsMoves ==
  ASSUME PipeInv, BrowsersOK, NEW b \in Browsers, WindowEnds(b)
  PROVE BrowserMoves(b)
<1>1. PICK w \in BrowserStates : Known(b, w)
  BY BrowserFacts
<1>2. PICK v : v = [w EXCEPT !.phase = "idle"]
  OBVIOUS
<1>3. v \in BrowserStates
  BY <1>2 DEF BrowserStates, BrowserPhases
<1>4. v.phase = "idle" /\ v.last = w.last /\ v.view = w.view /\ v.hwm = w.hwm /\ v.wake = w.wake
  BY <1>2 DEF BrowserStates
<1>5. browser' = [browser EXCEPT ![b] = v]
  BY <1>1, <1>2 DEF WindowEnds, Set, Known
<1>6. BrowserOK(v) /\ w.view <= v.view
  BY <1>1, <1>4 DEF BrowserOK, Known
<1> QED BY <1>1, <1>3, <1>4, <1>5, <1>6, MovesTo

(* The last event of the live range.                                       *)
LEMMA LiveThroughFacts ==
  ASSUME PipeInv
  PROVE LiveThrough \in Nat /\ LiveThrough <= db.projected
<1>1. db.projected \in Nat /\ \A s \in Terminals : s \in Nat \ {0}
  BY Numbers DEF PipeInv, Terminals
<1> QED BY <1>1 DEF LiveThrough

(* What precedes the live range.                                           *)
LEMMA SnapshotRangeFacts ==
  ASSUME PipeInv, SnapshotRange # {}
  PROVE Min(SnapshotRange) \in Nat
<1>1. PICK n \in Nat : n = LiveThrough
  BY LiveThroughFacts
<1>2. LastTerminal(n) \in Nat /\ db.floor \in Nat
  BY LastTerminals, Numbers DEF PipeInv
<1>3. PICK m \in Nat : m = Max({db.floor, LastTerminal(n)})
  BY <1>2, MaxPair
<1>4. SnapshotRange \subseteq Nat
  BY <1>1, <1>3 DEF SnapshotRange
<1>5. \E x \in SnapshotRange : \A y \in SnapshotRange : x <= y
  BY <1>4, LeastNat
<1>6. Min(SnapshotRange) \in SnapshotRange
  BY <1>5 DEF Min
<1> QED BY <1>4, <1>6

(* The snapshot of the live range continues the conversation, or is        *)
(* dropped; either way the view does not go back.                          *)
LEMMA ReadSnapshotMoves ==
  ASSUME PipeInv, BrowsersOK, NEW b \in Browsers, ReadSnapshot(b)
  PROVE BrowserMoves(b)
<1>1. PICK w \in BrowserStates : Known(b, w)
  BY BrowserFacts
<1>2. PICK n \in Nat : n = LiveThrough /\ n <= db.projected
  BY LiveThroughFacts
<1>3. PICK E : E = SnapshotEvents(w.turn)
  OBVIOUS
<1>4. E \subseteq Events
  BY <1>3 DEF SnapshotEvents, PipeInv, PipeTypes
<1>5. w.phase = "snapshot" /\ w.view <= w.replay /\ w.replay <= Horizon
  BY <1>1 DEF ReadSnapshot, Known, BrowserOK
<1>6. PICK plain : plain = [w EXCEPT !.phase = "connect", !.last = w.replay, !.view = w.replay,
                                     !.shown = w.loaded, !.hole = {}]
  OBVIOUS
<1>7. plain \in BrowserStates
  BY <1>6 DEF BrowserStates, BrowserPhases
<1>8. /\ plain.phase = "connect" /\ plain.last = w.replay /\ plain.view = w.replay
      /\ plain.hwm = w.hwm /\ plain.wake = w.wake
  BY <1>6 DEF BrowserStates
<1>9. CASE E = {}
  <2>1. browser' = [browser EXCEPT ![b] = plain]
    BY <1>1, <1>3, <1>6, <1>9 DEF ReadSnapshot, Set, Known
  <2>2. BrowserOK(plain) /\ w.view <= plain.view
    BY <1>1, <1>5, <1>8 DEF Known, BrowserOK
  <2> QED BY <1>1, <1>7, <2>1, <2>2, MovesTo
<1>10. CASE E # {} /\ n < w.replay
  <2>1. PICK v : v = [plain EXCEPT !.last = n]
    OBVIOUS
  <2>2. v \in BrowserStates
    BY <1>7, <2>1 DEF BrowserStates
  <2>3. v.phase = "connect" /\ v.last = n /\ v.view = w.replay /\ v.hwm = w.hwm /\ v.wake = w.wake
    BY <1>7, <1>8, <2>1 DEF BrowserStates
  <2>4. browser' = [browser EXCEPT ![b] = v]
    BY <1>1, <1>2, <1>3, <1>6, <1>10, <2>1 DEF ReadSnapshot, Set, Known
  <2>5. BrowserOK(v) /\ w.view <= v.view
    BY <1>1, <1>5, <1>10, <2>3 DEF Known, BrowserOK
  <2> QED BY <1>1, <2>2, <2>4, <2>5, MovesTo
<1>11. CASE E # {} /\ ~(n < w.replay)
  <2>1. SnapshotRange # {}
    BY <1>3, <1>11 DEF SnapshotEvents
  <2>2. PICK q \in Nat : q = Min(SnapshotRange)
    BY <2>1, SnapshotRangeFacts
  <2>3. PICK H : H = (w.replay + 1)..(q - 1)
    OBVIOUS
  <2>4. H \subseteq Nat
    BY <1>1, <2>3 DEF Known
  <2>5. PICK S : S = w.loaded \cup E
    OBVIOUS
  <2>6. S \subseteq Events
    BY <1>1, <1>4, <2>5 DEF Known, BrowserStates
  <2>7. PICK v : v = [plain EXCEPT !.last = n, !.view = n, !.shown = S, !.hole = H]
    OBVIOUS
  <2>8. v \in BrowserStates
    BY <1>7, <2>4, <2>6, <2>7 DEF BrowserStates
  <2>9. v.phase = "connect" /\ v.last = n /\ v.view = n /\ v.hwm = w.hwm /\ v.wake = w.wake
    BY <1>7, <1>8, <2>7 DEF BrowserStates
  <2>10. browser' = [browser EXCEPT ![b] = v]
    BY <1>1, <1>2, <1>3, <1>6, <1>11, <2>2, <2>3, <2>5, <2>7 DEF ReadSnapshot, Set, Known
  <2>11. BrowserOK(v) /\ w.view <= v.view
    BY <1>1, <1>2, <1>5, <1>11, <2>9 DEF Known, BrowserOK
  <2> QED BY <1>1, <2>8, <2>10, <2>11, MovesTo
<1> QED BY <1>9, <1>10, <1>11

(* What a page delivers has the number the stream waits for.               *)
LEMMA StoredFacts ==
  ASSUME PipeInv, NEW s \in 1..db.persisted, Readable(s)
  PROVE Stored(s) \in Events /\ Stored(s).seq = s
<1>1. CASE external /\ s \notin Terminals
  <2>1. s \in Seqs(live.events)
    BY <1>1 DEF Readable
  <2>2. PICK e \in live.events : e.seq = s
    BY <2>1, SeqsFacts
  <2>3. Stored(s) = CHOOSE x \in live.events : x.seq = s
    BY <1>1 DEF Stored
  <2>4. Stored(s) \in live.events /\ Stored(s).seq = s
    BY <2>2, <2>3
  <2> QED BY <2>4 DEF PipeInv, PipeTypes
<1>2. CASE ~(external /\ s \notin Terminals)
  <2>1. Stored(s) = EventAt(s)
    BY <1>2 DEF Stored
  <2>2. s \in DOMAIN log /\ log[s] \in Entries /\ s \in Nat
    BY Numbers DEF PipeInv, LogOK
  <2> QED BY <2>1, <2>2 DEF EventAt, Event, Events, Entries
<1> QED BY <1>1, <1>2

(* A delivered frame moves the cursor, and the view only if it continues   *)
(* it.                                                                     *)
LEMMA DeliverMoves ==
  ASSUME PipeInv, BrowsersOK, NEW b \in Browsers, Deliver(b)
  PROVE BrowserMoves(b)
<1>1. PICK w \in BrowserStates : Known(b, w)
  BY BrowserFacts
<1>2. w.phase = "window" /\ w.last < w.hwm /\ w.hwm <= db.projected
  BY <1>1 DEF Deliver, Known, BrowserOK
<1>3. PICK n \in Nat : n = w.last + 1
  BY <1>1 DEF Known
<1>4. n \in 1..db.persisted /\ n <= db.projected
  BY <1>1, <1>2, <1>3 DEF Known
<1>5. CASE ~Readable(n)
  <2>1. PICK v \in BrowserStates : v = Dropped(w) /\ BrowserOK(v) /\ v.view = w.view
    BY <1>1, DroppedFacts DEF Known
  <2>2. browser' = [browser EXCEPT ![b] = v]
    BY <1>1, <1>3, <1>5, <2>1 DEF Deliver, Set, Known
  <2>3. w.view <= v.view
    BY <1>1, <2>1 DEF Known
  <2> QED BY <1>1, <2>1, <2>2, <2>3, MovesTo
<1>6. CASE Readable(n)
  <2>1. PICK e \in Events : e = Stored(n) /\ e.seq = n
    BY <1>4, <1>6, StoredFacts
  <2>2. CASE n = w.view + 1
    <3>1. PICK S : S = w.shown \cup {e}
      OBVIOUS
    <3>2. PICK u : u = [w EXCEPT !.view = n, !.shown = S]
      OBVIOUS
    <3>3. u = Shown(w, e)
      BY <2>1, <2>2, <3>1, <3>2 DEF Shown
    <3>4. u \in BrowserStates
      BY <2>1, <3>1, <3>2 DEF BrowserStates
    <3>5. u.phase = w.phase /\ u.view = n /\ u.hwm = w.hwm /\ u.wake = w.wake
      BY <3>2 DEF BrowserStates
    <3>6. PICK v : v = [u EXCEPT !.last = n]
      OBVIOUS
    <3>7. v \in BrowserStates
      BY <3>4, <3>6 DEF BrowserStates
    <3>8. v.phase = w.phase /\ v.last = n /\ v.view = n /\ v.hwm = w.hwm /\ v.wake = w.wake
      BY <3>4, <3>5, <3>6 DEF BrowserStates
    <3>9. browser' = [browser EXCEPT ![b] = v]
      BY <1>1, <1>3, <1>6, <2>1, <3>3, <3>6 DEF Deliver, Set, Known
    <3>10. BrowserOK(v) /\ w.view <= v.view
      BY <1>1, <1>2, <1>4, <2>2, <3>8 DEF Known, BrowserOK
    <3> QED BY <1>1, <3>7, <3>9, <3>10, MovesTo
  <2>3. CASE n # w.view + 1
    <3>1. w = Shown(w, e)
      BY <2>1, <2>3 DEF Shown
    <3>2. PICK v : v = [w EXCEPT !.last = n]
      OBVIOUS
    <3>3. v \in BrowserStates
      BY <3>2 DEF BrowserStates
    <3>4. v.phase = w.phase /\ v.last = n /\ v.view = w.view /\ v.hwm = w.hwm /\ v.wake = w.wake
      BY <3>2 DEF BrowserStates
    <3>5. browser' = [browser EXCEPT ![b] = v]
      BY <1>1, <1>3, <1>6, <2>1, <3>1, <3>2 DEF Deliver, Set, Known
    <3>6. BrowserOK(v) /\ w.view <= v.view
      BY <1>1, <1>2, <1>3, <2>3, <3>4 DEF Known, BrowserOK
    <3> QED BY <1>1, <3>3, <3>5, <3>6, MovesTo
  <2> QED BY <2>2, <2>3
<1> QED BY <1>5, <1>6

(* The current suffix is read, or the response ends.                       *)
LEMMA SuffixFacts ==
  ASSUME PipeInv, NEW b \in Browsers, NEW w \in BrowserStates, Known(b, w)
  PROVE \E v \in BrowserStates : v = Suffix(w) /\ BrowserOK(v) /\ w.view <= v.view
<1>1. CASE w.last < db.floor \/ db.projected < w.wake
  BY <1>1, DroppedFacts DEF Known, Suffix
<1>2. CASE ~(w.last < db.floor \/ db.projected < w.wake)
  <2>1. PICK h \in Nat : h = db.projected
    BY DEF Known
  <2>2. PICK v : v = [w EXCEPT !.phase = "window", !.hwm = h, !.wake = 0]
    OBVIOUS
  <2>3. v \in BrowserStates
    BY <2>2 DEF BrowserStates, BrowserPhases
  <2>4. v.phase = "window" /\ v.last = w.last /\ v.view = w.view /\ v.hwm = h /\ v.wake = 0
    BY <2>2 DEF BrowserStates
  <2>5. BrowserOK(v) /\ w.view <= v.view
    BY <2>1, <2>4 DEF Known, BrowserOK
  <2>6. v = Suffix(w)
    BY <1>2, <2>1, <2>2 DEF Suffix
  <2> QED BY <2>3, <2>5, <2>6
<1> QED BY <1>1, <1>2

(* Wakes and heartbeats.                                                   *)
LEMMA WakeMoves ==
  ASSUME PipeInv, BrowsersOK, NEW b \in Browsers, Wake(b) \/ Heartbeat(b)
  PROVE BrowserMoves(b)
<1>1. PICK w \in BrowserStates : Known(b, w)
  BY BrowserFacts
<1>2. PICK v \in BrowserStates : v = Suffix(w) /\ BrowserOK(v) /\ w.view <= v.view
  BY <1>1, SuffixFacts
<1>3. CASE browser' = [browser EXCEPT ![b] = v]
  BY <1>1, <1>2, <1>3, MovesTo
<1>4. CASE browser' = [browser EXCEPT ![b] = [w EXCEPT !.wake = 0]]
  <2>1. PICK u : u = [w EXCEPT !.wake = 0]
    OBVIOUS
  <2>2. u \in BrowserStates
    BY <2>1 DEF BrowserStates
  <2>3. u.phase = w.phase /\ u.last = w.last /\ u.view = w.view /\ u.hwm = w.hwm /\ u.wake = 0
        /\ u.replay = w.replay
    BY <2>1 DEF BrowserStates
  <2>4. BrowserOK(u) /\ w.view <= u.view
    BY <1>1, <2>3 DEF Known, BrowserOK
  <2> QED BY <1>1, <1>4, <2>1, <2>2, <2>4, MovesTo
<1> QED BY <1>1, <1>2, <1>3, <1>4 DEF Known, Wake, Heartbeat, Set

(* A lost connection.                                                      *)
LEMMA DisconnectMoves ==
  ASSUME PipeInv, BrowsersOK, NEW b \in Browsers, Disconnect(b)
  PROVE BrowserMoves(b)
<1>1. PICK w \in BrowserStates : Known(b, w)
  BY BrowserFacts
<1>2. PICK v \in BrowserStates : v = Dropped(w) /\ BrowserOK(v) /\ v.view = w.view
  BY <1>1, DroppedFacts DEF Known
<1>3. browser' = [browser EXCEPT ![b] = v]
  BY <1>1, <1>2 DEF Disconnect, Known, BrowsersOK
<1>4. w.view <= v.view
  BY <1>1, <1>2 DEF Known
<1> QED BY <1>1, <1>2, <1>3, <1>4, MovesTo
-----------------------------------------------------------------------------
(* The browsers' part of the invariant.                                    *)

(* A move keeps every browser good.                                        *)
LEMMA MovesKeep ==
  ASSUME PipeInv, BrowsersOK, PipelineStays, NEW b \in Browsers, BrowserMoves(b)
  PROVE BrowsersOK'
<1>1. PICK v \in BrowserStates : BrowserOK(v) /\ browser' = [browser EXCEPT ![b] = v]
  BY DEF BrowserMoves
<1>2. db' = db /\ Horizon' = Horizon
  BY DEF PipelineStays, Horizon, LastTerminal, Terminals
<1>3. ASSUME NEW w, BrowserOK(w) PROVE BrowserOK(w)'
  BY <1>2, <1>3 DEF BrowserOK
<1>4. browser' \in [Browsers -> BrowserStates]
  BY <1>1 DEF BrowsersOK
<1>5. ASSUME NEW c \in Browsers PROVE BrowserOK(browser[c])'
  <2>1. PICK w : w = browser'[c] /\ BrowserOK(w)
    BY <1>1 DEF BrowsersOK
  <2>2. BrowserOK(w)'
    BY <1>3, <2>1
  <2> QED BY <2>1, <2>2 DEF BrowserOK
<1> QED BY <1>4, <1>5 DEF BrowsersOK

(* Every step of a browser is a move.                                      *)
LEMMA BrowserStepMoves ==
  ASSUME PipeInv, BrowsersOK, NEW b \in Browsers, BrowserStep(b) \/ Disconnect(b)
  PROVE BrowserMoves(b)
BY LoadConversationMoves, SnapshotTurnMoves, ReadSnapshotMoves, SubscribeMoves, OpenWindowMoves,
   DeliverMoves, WindowEndsMoves, WakeMoves, DisconnectMoves DEF BrowserStep

(* A lost notification.                                                    *)
LEMMA LoseNotificationKeeps ==
  ASSUME PipeInv, BrowsersOK, LoseNotification
  PROVE BrowsersOK' /\ \A b \in Browsers : browser'[b].view = browser[b].view
<1>1. db' = db /\ Horizon' = Horizon
  BY DEF LoseNotification, storeVars, Horizon, LastTerminal, Terminals
<1>2. ASSUME NEW b \in Browsers
      PROVE \E v \in BrowserStates : /\ browser'[b] = v /\ BrowserOK(v)'
                                     /\ v.view = browser[b].view
  <2>1. PICK w \in BrowserStates : Known(b, w)
    BY BrowserFacts
  <2>2. PICK v : v = [w EXCEPT !.wake = 0]
    OBVIOUS
  <2>3. v \in BrowserStates
    BY <2>2 DEF BrowserStates
  <2>4. /\ v.phase = w.phase /\ v.last = w.last /\ v.view = w.view /\ v.hwm = w.hwm
        /\ v.replay = w.replay /\ v.wake = 0
    BY <2>2 DEF BrowserStates
  <2>5. BrowserOK(v)'
    BY <1>1, <2>1, <2>4 DEF BrowserOK, Known
  <2>6. browser'[b] = v
    BY <2>1, <2>2 DEF LoseNotification, Known
  <2> QED BY <2>1, <2>3, <2>4, <2>5, <2>6 DEF Known
<1>3. browser' = [b \in Browsers |-> browser'[b]]
  BY DEF LoseNotification
<1>4. browser' \in [Browsers -> BrowserStates] /\ \A b \in Browsers : BrowserOK(browser[b])'
  <2>1. \A b \in Browsers : browser'[b] \in BrowserStates
    BY <1>2
  <2>2. ASSUME NEW b \in Browsers PROVE BrowserOK(browser[b])'
    <3>1. PICK v \in BrowserStates : browser'[b] = v /\ BrowserOK(v)'
      BY <1>2
    <3> QED BY <3>1 DEF BrowserOK
  <2> QED BY <1>3, <2>1, <2>2
<1> QED BY <1>2, <1>4 DEF BrowsersOK

(* Every step of the system keeps the browsers in order.                   *)
LEMMA BrowsersKeep ==
  ASSUME PipeInv, PipeInv', BrowsersOK, [Next]_vars
  PROVE BrowsersOK'
<1>1. CASE Pipeline
  BY <1>1, PipelineKeepsBrowsers
<1>2. CASE LoseNotification
  BY <1>2, LoseNotificationKeeps
<1>3. ASSUME NEW b \in Browsers, BrowserStep(b) \/ Disconnect(b)
      PROVE BrowsersOK'
  <2>1. BrowserMoves(b)
    BY <1>3, BrowserStepMoves
  <2>2. PipelineStays
    BY <1>3, BrowserStepStays
  <2> QED BY <2>1, <2>2, MovesKeep
<1>4. CASE UNCHANGED vars
  <2>1. browser' = browser /\ db' = db /\ Horizon' = Horizon
    BY <1>4 DEF vars, pipeVars, storeVars, Horizon, LastTerminal, Terminals
  <2> QED BY <2>1 DEF BrowsersOK, BrowserOK
<1> QED BY <1>1, <1>2, <1>3, <1>4 DEF Next

(* At the start nothing is shown.                                          *)
LEMMA BrowsersStart ==
  ASSUME Init
  PROVE BrowsersOK
<1>1. PipeInv
  BY PipelineStarts DEF Init
<1>2. FreshBrowser \in BrowserStates
  BY PipelineAssumption DEF FreshBrowser, BrowserStates, BrowserPhases
<1>3. BrowserOK(FreshBrowser)
  BY <1>1, Horizons, Numbers DEF FreshBrowser, BrowserOK, PipeInv
<1> QED BY <1>2, <1>3 DEF BrowsersOK, Init

(* Beside the pipeline's invariant, the browsers' holds.                   *)
THEOREM BrowsersInvariant == Spec => []BrowsersOK
<1>1. Init => BrowsersOK
  BY BrowsersStart
<1>2. PipeInv /\ PipeInv' /\ BrowsersOK /\ [Next]_vars => BrowsersOK'
  BY BrowsersKeep
<1> QED BY <1>1, <1>2, PipelineInvariant, PTL DEF Spec

(* The log is no longer than the windows of its Turns.                     *)
LEMMA LogBounded ==
  ASSUME PipeInv
  PROVE MaxSeq \in Nat /\ db.persisted <= MaxSeq
<1>1. PerTurn \in Nat \ {0} /\ MaxFence \in Nat \ {0} /\ db.persisted \in Nat /\ db.fence \in 0..MaxFence
  BY PipelineAssumption, Numbers DEF PipeInv
<1>2. MaxSeq \in Nat
  BY <1>1 DEF MaxSeq
<1>3. CASE db.fence = 0
  BY <1>1, <1>2, <1>3 DEF PipeInv, WindowsOK
<1>4. CASE db.fence # 0
  <2>1. PICK f \in Fences : f = db.fence
    BY <1>1, <1>4 DEF Fences
  <2>2. f \in Nat \ {0} /\ f <= MaxFence /\ worker[f].base \in Nat
    BY <1>1, <2>1, Numbers DEF PipeInv
  <2>3. worker[f].base <= (f - 1) * (PerTurn + 1)
    BY <2>1, <2>2 DEF PipeInv, WindowsOK
  <2>4. db.persisted <= worker[f].base + PerTurn + 1
    <3>1. db.persisted <= Ceiling(f) + 1
      BY <1>1, <2>1, <2>2 DEF PipeInv, WindowsOK, Ceiling
    <3> QED BY <1>1, <2>2, <3>1 DEF Ceiling
  <2>5. PICK k \in Nat : k = PerTurn + 1
    BY <1>1
  <2>6. PICK d \in Nat : MaxFence = f + d
    <3>1. MaxFence - f \in Nat /\ MaxFence = f + (MaxFence - f)
      BY <1>1, <2>2
    <3> QED BY <3>1
  <2>7. PICK x \in Nat, y \in Nat : x = (f - 1) * k /\ y = d * k
    <3>1. f - 1 \in Nat
      BY <2>2
    <3> QED BY <2>5, <2>6, <3>1
  <2>8. MaxFence * k = x + k + y
    <3>1. MaxFence = (f - 1) + 1 + d
      BY <2>2, <2>6
    <3> QED BY <2>2, <2>5, <2>6, <2>7, <3>1
  <2>9. worker[f].base <= x
    BY <2>3, <2>5, <2>7
  <2>10. MaxSeq = x + k + y
    BY <2>5, <2>8 DEF MaxSeq
  <2> QED BY <1>1, <2>2, <2>4, <2>5, <2>7, <2>9, <2>10
<1> QED BY <1>2, <1>3, <1>4

(* The cursor of a stream never passes the projection, and its view never  *)
(* falls behind the cursor: the reducer of a browser meets no jump.        *)
THEOREM StreamsNeverJump == Spec => [](StreamTypeOK /\ StreamNeverJumps)
<1>1. ASSUME PipeInv, BrowsersOK
      PROVE StreamTypeOK /\ StreamNeverJumps
  <2>1. ASSUME NEW b \in Browsers
        PROVE LET w == browser[b] IN
              /\ w.phase \in {"load", "loaded", "snapshot", "connect", "opening", "window", "idle"}
              /\ w.last <= db.projected /\ w.hwm <= db.projected /\ w.wake <= db.projected
              /\ w.view \in 0..MaxSeq /\ w.turn \in 0..MaxFence
              /\ w.last <= w.view
    <3>1. PICK w \in BrowserStates : Known(b, w)
      BY <1>1, BrowserFacts
    <3>2. w.last <= db.projected /\ w.hwm <= db.projected /\ w.wake <= db.projected /\ w.last <= w.view
      BY <3>1 DEF Known, BrowserOK
    <3>3. w.view \in 0..MaxSeq
      BY <1>1, <3>1, LogBounded DEF Known
    <3> QED BY <3>1, <3>2, <3>3 DEF Known, BrowserStates, BrowserPhases
  <2> QED BY <2>1 DEF StreamTypeOK, StreamNeverJumps
<1> QED BY <1>1, PipelineInvariant, BrowsersInvariant, PTL
-----------------------------------------------------------------------------
(* The append-only log.                                                    *)

(* The views of the browsers, the readers of the abstract log.             *)
Positions == [b \in Browsers |-> browser[b].view]

(* The open Turn may write to the abstract log.                            *)
LEMMA OpenTurn ==
  ASSUME PipeInv, NEW t \in Fences, t = db.fence, ~Settled(t)
  PROVE Abstract!Open(t)
<1>1. /\ DOMAIN log = 1..Len(log) /\ Len(log) \in Nat /\ \A i \in DOMAIN log : log[i] \in Entries
      /\ \A i \in DOMAIN log : log[i].by <= t
  BY Numbers DEF PipeInv, LogOK
<1>2. ~Abstract!Closed(t)
  <2>1. SUFFICES ASSUME NEW i \in DOMAIN log, log[i] = [by |-> t, kind |-> "terminal"]
                 PROVE FALSE
    BY DEF Abstract!Closed, Abstract!Occurs, Abstract!Terminal
  <2>2. i \in Terminals /\ log[i].by = t
    BY <2>1 DEF Terminals
  <2> QED BY <2>2 DEF Settled
<1>3. ASSUME NEW u \in Fences, u < t PROVE Abstract!Closed(u)
  <2>1. PICK s \in Terminals : log[s].by = u
    BY <1>3 DEF PipeInv, LogOK, Settled
  <2>2. s \in DOMAIN log /\ log[s].kind = "terminal" /\ log[s] \in Entries
    BY <1>1, <2>1 DEF Terminals
  <2>3. log[s] = [by |-> u, kind |-> "terminal"]
    BY <2>1, <2>2 DEF Entries
  <2> QED BY <2>2, <2>3 DEF Abstract!Closed, Abstract!Occurs, Abstract!Terminal
<1> QED BY <1>1, <1>2, <1>3 DEF Abstract!Open

(* An accepted publication extends the block of the open Turn.             *)
LEMMA AcceptedIsAccept ==
  ASSUME PipeInv, NEW m, m \in net, Accepted(m), Positions' = Positions
  PROVE Abstract!Accept(m.by)
<1>1. /\ m.by \in Fences /\ m.by = db.fence /\ ~Settled(m.by) /\ m.hi \in Nat
  BY DEF Accepted, PipeInv, PipeTypes, Batches
<1>2. Abstract!Open(m.by)
  BY <1>1, OpenTurn
<1>3. /\ db.persisted = Len(log) /\ DOMAIN log = 1..Len(log) /\ Len(log) \in Nat
  BY Numbers DEF PipeInv, LogOK
<1>4. /\ log' \in Seq(Entries) /\ Len(log') = m.hi /\ Len(log) < m.hi
      /\ \A s \in DOMAIN log : log'[s] = log[s]
      /\ \A s \in (Len(log) + 1)..m.hi : log'[s] = [by |-> m.by, kind |-> "worker"]
  BY <1>3 DEF Accepted, LogGrows, Entry
<1>5. \A i \in 1..Len(log') : log'[i] = IF i \in DOMAIN log THEN log[i] ELSE [by |-> m.by, kind |-> "worker"]
  BY <1>1, <1>3, <1>4
<1>6. log' = [i \in 1..Len(log') |-> log'[i]]
  BY <1>4
<1>7. log' = [i \in 1..Len(log') |-> IF i \in DOMAIN log THEN log[i] ELSE [by |-> m.by, kind |-> "worker"]]
  BY <1>5, <1>6, Zenon
<1>8. Len(log') > Len(log)
  BY <1>1, <1>3, <1>4
<1> QED BY <1>2, <1>7, <1>8 DEF Abstract!Accept, Abstract!Worker, Positions

(* The terminal event of a settlement closes the block.                    *)
LEMMA ClosedIsClose ==
  ASSUME PipeInv, NEW f \in Fences, f = db.fence, ~Settled(f),
         log' = Append(log, Entry(f, "terminal")), Positions' = Positions
  PROVE Abstract!Close(f)
BY OpenTurn DEF Abstract!Close, Abstract!Terminal, Entry, Positions

(* A pipeline step accepts, closes, or is not to be seen in the log.       *)
LEMMA PipelineSeen ==
  ASSUME PipeInv, PipeInv', BrowsersOK, BrowsersOK', Pipeline
  PROVE [Abstract!Next]_<<log, Positions>>
<1>1. Positions' = Positions
  <2>1. \A b \in Browsers : browser'[b].view = browser[b].view
    BY PipelineKeepsBrowsers
  <2> QED BY <2>1 DEF Positions
<1>2. ASSUME NEW m \in net, Accepted(m)
      PROVE Abstract!Next
  <2>1. m.by \in Fences
    BY DEF PipeInv, PipeTypes, Batches
  <2>2. Abstract!Accept(m.by)
    BY <1>1, <1>2, AcceptedIsAccept
  <2> QED BY <2>1, <2>2 DEF Abstract!Next
<1>3. ASSUME NEW f \in Fences, f = db.fence, ~Settled(f), log' = Append(log, Entry(f, "terminal"))
      PROVE Abstract!Next
  <2>1. Abstract!Close(f)
    BY <1>1, <1>3, ClosedIsClose
  <2> QED BY <2>1 DEF Abstract!Next
<1> QED BY <1>1, <1>2, <1>3, LogSteps DEF Pipeline, LogStep

(* A step of a browser moves one reader forward.                           *)
LEMMA BrowserSeen ==
  ASSUME PipeInv, BrowsersOK, BrowsersOK', NEW b \in Browsers, BrowserMoves(b), PipelineStays
  PROVE Abstract!Next
<1>1. PICK v \in BrowserStates : /\ BrowserOK(v) /\ browser[b].view <= v.view
                                 /\ browser' = [browser EXCEPT ![b] = v]
  BY DEF BrowserMoves
<1>2. v.view \in Nat /\ browser[b].view \in Nat /\ v.view <= Len(log) /\ Len(log) \in Nat
  <2>1. PICK w \in BrowserStates : Known(b, w)
    BY BrowserFacts
  <2>2. v.view \in Nat /\ v.view <= db.projected
    BY <1>1 DEF BrowserStates, BrowserOK
  <2>3. Len(log) \in Nat /\ Len(log) = db.persisted
    BY Numbers DEF PipeInv, LogOK
  <2> QED BY <2>1, <2>2, <2>3 DEF Known
<1>3. PICK p \in browser[b].view..Len(log) : p = v.view
  BY <1>1, <1>2
<1>4. Positions' = [Positions EXCEPT ![b] = p]
  <2>1. \A c \in Browsers : browser'[c].view = IF c = b THEN p ELSE browser[c].view
    BY <1>1, <1>3 DEF BrowsersOK
  <2> QED BY <2>1 DEF Positions
<1>5. \E q \in Positions[b]..Len(log) : Positions' = [Positions EXCEPT ![b] = q]
  BY <1>3, <1>4 DEF Positions
<1>6. Abstract!Observe(b)
  BY <1>5 DEF Abstract!Observe, Positions, PipelineStays
<1> QED BY <1>6 DEF Abstract!Next

(* Every step of the system is one of the log or not to be seen.           *)
LEMMA LogImplemented ==
  ASSUME PipeInv, PipeInv', BrowsersOK, BrowsersOK', [Next]_vars
  PROVE [Abstract!Next]_<<log, Positions>>
<1>1. CASE Pipeline
  BY <1>1, PipelineSeen
<1>2. CASE LoseNotification
  <2>1. log' = log
    BY <1>2 DEF LoseNotification, storeVars
  <2>2. Positions' = Positions
    BY <1>2, LoseNotificationKeeps DEF Positions
  <2> QED BY <2>1, <2>2
<1>3. ASSUME NEW b \in Browsers, BrowserStep(b) \/ Disconnect(b)
      PROVE Abstract!Next
  <2>1. BrowserMoves(b)
    BY <1>3, BrowserStepMoves
  <2>2. PipelineStays
    BY <1>3, BrowserStepStays
  <2> QED BY <2>1, <2>2, BrowserSeen
<1>4. CASE UNCHANGED vars
  BY <1>4 DEF vars, pipeVars, storeVars, Positions
<1> QED BY <1>1, <1>2, <1>3, <1>4 DEF Next

(* Spool, ingestion, broker, projector, settlement and gateway implement   *)
(* one append-only log of closed Turns whose readers only move forward.    *)
THEOREM PipelineImplementsEventLog == Spec => ImplementsEventLog
<1>1. Init => Abstract!Init
  BY DEF Init, PipelineInit, FreshBrowser, Abstract!Init
<1>2. PipeInv /\ PipeInv' /\ BrowsersOK /\ BrowsersOK' /\ [Next]_vars => [Abstract!Next]_<<log, Positions>>
  BY LogImplemented
<1>3. PipeInv /\ PipeInv' /\ BrowsersOK /\ BrowsersOK' /\ [Next]_vars
        => [Abstract!Next]_<<log, [b \in Browsers |-> browser[b].view]>>
  BY <1>2 DEF Positions
<1> QED BY <1>1, <1>3, PipelineInvariant, BrowsersInvariant, PTL DEF Spec, ImplementsEventLog, Abstract!Spec
-----------------------------------------------------------------------------
(* What readers make of the log: transcripts and views.                    *)

Own(f)    == {EventAt(s) : s \in {s \in DOMAIN log : log[s].by = f}}
InLog     == {EventAt(s) : s \in DOMAIN log}

(* A prepared projection holds events of its Turn only, all of them if     *)
(* nothing was accepted since; a settled Turn has a transcript of its      *)
(* events, a completed one has them all.                                   *)
SettlementOK(f) ==
  LET p == settle[f] IN
  /\ p.prev <= db.persisted
  /\ ~Settled(f) => p.outcome = None /\ p.transcript = {}
  /\ ~Orphaned =>
       /\ p.read \subseteq Own(f)
       /\ p.ready = "yes" /\ ~Settled(f) /\ p.prev = db.persisted => p.read = Own(f)
       /\ p.transcript \subseteq Own(f)
       /\ p.outcome = "completed" => p.transcript = Own(f)

SettlementsOK == \A f \in Fences : SettlementOK(f)

Unkept(s) == Settled(log[s].by) /\ EventAt(s) \notin settle[log[s].by].transcript

(* A view, and a conversation that is about to become one, has every event *)
(* up to its position that a transcript keeps.                             *)
ViewOK(w) ==
  /\ w.shown \subseteq InLog
  /\ \A s \in 1..w.view : EventAt(s) \in w.shown \/ s \in w.hole \/ Unkept(s)
  /\ w.phase \in {"loaded", "snapshot"} =>
       /\ w.loaded \subseteq InLog
       /\ \A s \in 1..w.replay : EventAt(s) \in w.loaded \/ Unkept(s)

ViewsOK == ~Orphaned => \A b \in Browsers : ViewOK(browser[b])
ReadersOK == SettlementsOK /\ ViewsOK

BatchesStay == \A i \in DOMAIN kafka : i \in DOMAIN kafka' /\ kafka'[i] = kafka[i]

(* A step that neither writes to the log nor prepares a projection.        *)
Quiet ==
  /\ log' = log /\ settle' = settle /\ db'.persisted = db.persisted
  /\ db'.lease = db.lease \/ db'.lease = 0 \/ db'.lease = db.fence + 1
  /\ BatchesStay

(* What a step of the pipeline does to log and settlements.                *)
LEMMA StepKinds ==
  ASSUME PipeInv, PipelineNext
  PROVE \/ Quiet
        \/ \E f \in Fences : Prepare(f)
        \/ \E m \in net : Ingest(m) /\ Accepted(m)
        \/ \E f \in Fences, o \in {"completed", "failed"} : CommitTerminal(f, o) /\ Closed(f)
<1> USE DEF Quiet, BatchesStay
<1>1. CASE LeaseLapse
  <2>1. db' = [db EXCEPT !.lease = 0] /\ log' = log /\ settle' = settle /\ kafka' = kafka
    BY <1>1 DEF LeaseLapse, liveVars
  <2> QED BY <2>1 DEF PipeInv, PipeTypes, Cursors
<1>2. CASE LiveStep
  <2>1. log' = log /\ settle' = settle /\ kafka' = kafka
    <3>1. CASE Project
      BY <3>1 DEF Project
    <3>2. CASE ProjectRollback
      BY <3>2 DEF ProjectRollback, storeVars
    <3>3. CASE SkipProjected
      BY <3>3 DEF SkipProjected, storeVars
    <3>4. CASE ProjectConflict
      BY <3>4 DEF ProjectConflict, storeVars
    <3>5. CASE LoseLive \/ GatewayCrash \/ StartGateway
      BY <3>5 DEF LoseLive, GatewayCrash, StartGateway, storeVars
    <3> QED BY <1>2, <3>1, <3>2, <3>3, <3>4, <3>5 DEF LiveStep
  <2>2. db'.persisted = db.persisted /\ db'.lease = db.lease
    <3>1. CASE Project
      <4>1. PICK p : db' = [db EXCEPT !.projected = p]
        BY <3>1 DEF Project
      <4> QED BY <4>1 DEF PipeInv, PipeTypes, Cursors
    <3>2. CASE ~Project
      BY <1>2, <3>2 DEF LiveStep, ProjectRollback, SkipProjected, ProjectConflict, LoseLive,
                        GatewayCrash, StartGateway, storeVars
    <3> QED BY <3>1, <3>2
  <2> QED BY <2>1, <2>2
<1>3. ASSUME NEW f \in Fences, Assign(f)
      PROVE Quiet
  <2>1. /\ db' = [db EXCEPT !.fence = f, !.lease = f] /\ f = db.fence + 1
        /\ log' = log /\ settle' = settle /\ kafka' = kafka
    BY <1>3 DEF Assign, liveVars
  <2> QED BY <2>1 DEF PipeInv, PipeTypes, Cursors
<1>4. ASSUME NEW f \in Fences, WorkerStep(f)
      PROVE Quiet
  BY <1>4 DEF WorkerStep, Produce, Flush, Acknowledged, PublishFails, Drain, Crash, StartRecovery,
              RecoverSend, RecoveryEnds, MarkRejected, Quarantine, storeVars, liveVars
<1>5. ASSUME NEW f \in Fences, RetentionStep(f)
      PROVE Quiet
  <2>1. CASE RaiseFloor(f)
    <3>1. PICK p : db' = [db EXCEPT !.floor = p]
      BY <2>1 DEF RaiseFloor
    <3>2. log' = log /\ settle' = settle /\ kafka' = kafka
      BY <2>1 DEF RaiseFloor
    <3> QED BY <3>1, <3>2 DEF PipeInv, PipeTypes, Cursors
  <2>2. CASE Trim(f) \/ CompactionFails(f)
    BY <2>2 DEF Trim, CompactionFails, storeVars
  <2> QED BY <1>5, <2>1, <2>2 DEF RetentionStep
<1>6. ASSUME NEW f \in Fences, NEW o \in {"completed", "failed"}, CommitTerminal(f, o)
      PROVE Closed(f)
  <2>1. /\ f = db.fence /\ ~Settled(f) /\ log' = Append(log, Entry(f, "terminal"))
        /\ db' = [db EXCEPT !.persisted = db.persisted + 1, !.projected = db.persisted + 1, !.lease = 0]
    BY <1>6 DEF CommitTerminal, Settling
  <2>2. db'.persisted = db.persisted + 1
    BY <2>1 DEF PipeInv, PipeTypes, Cursors
  <2> QED BY <2>1, <2>2, ClosedFacts
<1>7. ASSUME NEW m \in net, Ingest(m)
      PROVE Quiet \/ Accepted(m)
  <2>1. CASE IngestOutcome(m) = "accept"
    BY <1>7, <2>1, AcceptedFacts
  <2>2. CASE IngestOutcome(m) # "accept"
    BY <1>7, <2>2 DEF Ingest
  <2> QED BY <2>1, <2>2
<1>8. ASSUME NEW m \in net, IngestRollback(m)
      PROVE Quiet
  <2>1. kafka' = Kafka(m) /\ db' = db /\ log' = log /\ settle' = settle
    BY <1>8 DEF IngestRollback, storeVars
  <2>2. PICK e : kafka' = Append(kafka, e)
    BY <2>1 DEF Kafka
  <2>3. kafka \in Seq(Batches)
    BY DEF PipeInv, PipeTypes
  <2>4. \A i \in DOMAIN kafka : i \in DOMAIN Append(kafka, e) /\ Append(kafka, e)[i] = kafka[i]
    BY <2>3
  <2> QED BY <2>1, <2>2, <2>4
<1>9. ASSUME NEW f \in Fences, SettleStep(f)
      PROVE Prepare(f) \/ \E o \in {"completed", "failed"} : CommitTerminal(f, o) /\ Closed(f)
  BY <1>6, <1>9 DEF SettleStep
<1> HIDE DEF Quiet, BatchesStay
<1> QED BY <1>1, <1>2, <1>3, <1>4, <1>5, <1>7, <1>8, <1>9 DEF PipelineNext

(* Log, broker, settled Turns and their transcripts only grow, and an      *)
(* orphaned batch stays one.                                               *)
Extends ==
  /\ BatchesStay
  /\ \A s \in DOMAIN log : s \in DOMAIN log' /\ log'[s] = log[s]
  /\ db.persisted <= db'.persisted
  /\ \A f \in Fences : Settled(f) => Settled(f)' /\ settle'[f].transcript = settle[f].transcript

(* What a Prepare changes.                                                 *)
LEMMA PrepareFrame ==
  ASSUME PipeInv, NEW f \in Fences, Prepare(f)
  PROVE /\ log' = log /\ db' = db /\ kafka' = kafka /\ live' = live
        /\ \A g \in Fences : g # f => settle'[g] = settle[g]
        /\ settle'[f].transcript = settle[f].transcript /\ settle'[f].outcome = settle[f].outcome
<1>1. log' = log /\ db' = db /\ kafka' = kafka /\ live' = live
  BY DEF Prepare, liveVars
<1>2. PICK a, p, r : settle' = [settle EXCEPT ![f] = [@ EXCEPT !.ready = a, !.prev = p, !.read = r]]
  BY DEF Prepare
<1> QED BY <1>1, <1>2 DEF PipeInv, PipeTypes, Settlements

(* What a settlement changes.                                              *)
LEMMA CommitFrame ==
  ASSUME PipeInv, NEW f \in Fences, NEW o \in {"completed", "failed"}, CommitTerminal(f, o)
  PROVE /\ f = db.fence /\ ~Settled(f) /\ kafka' = kafka
        /\ db'.persisted = db.persisted + 1 /\ db'.lease = 0
        /\ \A g \in Fences : g # f => settle'[g] = settle[g]
        /\ settle'[f].outcome = o /\ settle'[f].prev = settle[f].prev
        /\ settle'[f].read = settle[f].read /\ settle'[f].ready = settle[f].ready
        /\ settle'[f].transcript = {Event(db.persisted + 1, Entry(f, "terminal"))} \cup
                                   IF external THEN settle[f].read ELSE Own(f)
<1>1. f = db.fence /\ ~Settled(f) /\ kafka' = kafka
  BY DEF CommitTerminal, Settling
<1>2. PICK T : T = {Event(db.persisted + 1, Entry(f, "terminal"))} \cup
                   IF external THEN settle[f].read ELSE Own(f)
  OBVIOUS
<1>3. settle' = [settle EXCEPT ![f].outcome = o, ![f].transcript = T]
  BY <1>2 DEF CommitTerminal, Own
<1>4. db'.persisted = db.persisted + 1 /\ db'.lease = 0
  <2>1. db' = [db EXCEPT !.persisted = db.persisted + 1, !.projected = db.persisted + 1, !.lease = 0]
    BY DEF CommitTerminal
  <2> QED BY <2>1 DEF PipeInv, PipeTypes, Cursors
<1>5. settle \in [Fences -> Settlements]
  BY DEF PipeInv, PipeTypes
<1>6. /\ \A g \in Fences : g # f => settle'[g] = settle[g]
      /\ settle'[f] = [settle[f] EXCEPT !.outcome = o, !.transcript = T]
  BY <1>3, <1>5
<1>7. /\ settle'[f].outcome = o /\ settle'[f].transcript = T
      /\ settle'[f].prev = settle[f].prev
      /\ settle'[f].read = settle[f].read /\ settle'[f].ready = settle[f].ready
  BY <1>5, <1>6 DEF Settlements
<1> QED BY <1>1, <1>2, <1>4, <1>6, <1>7

(* What an acceptance leaves alone.                                        *)
LEMMA AcceptFrame ==
  ASSUME PipeInv, NEW m \in net, Ingest(m), Accepted(m)
  PROVE settle' = settle /\ BatchesStay
<1>1. settle' = settle /\ (kafka' = kafka \/ Persist(m))
  BY IngestFrame
<1>2. kafka' = kafka \/ \E e : kafka' = Append(kafka, e)
  BY <1>1 DEF Persist, Kafka
<1>3. kafka \in Seq(Batches)
  BY DEF PipeInv, PipeTypes
<1>4. \A e : \A i \in DOMAIN kafka : i \in DOMAIN Append(kafka, e) /\ Append(kafka, e)[i] = kafka[i]
  BY <1>3
<1> QED BY <1>1, <1>2, <1>4 DEF BatchesStay

(* Every step of the pipeline extends.                                     *)
LEMMA StepExtends ==
  ASSUME PipeInv, PipelineNext
  PROVE Extends
<1>1. db.persisted \in Nat /\ DOMAIN log = 1..Len(log) /\ Len(log) \in Nat
  BY Numbers DEF PipeInv
<1>2. \A f : Settled(f) <=> \E s \in DOMAIN log : log[s].kind = "terminal" /\ log[s].by = f
  BY DEF Settled, Terminals
<1>3. \A f : Settled(f)' <=> \E s \in DOMAIN log' : log'[s].kind = "terminal" /\ log'[s].by = f
  BY DEF Settled, Terminals
<1>4. CASE Quiet
  <2>1. \A f : Settled(f)' = Settled(f)
    BY <1>4 DEF Quiet, Settled, Terminals
  <2> QED BY <1>1, <1>4, <2>1 DEF Quiet, Extends
<1>5. ASSUME NEW f \in Fences, Prepare(f)
      PROVE Extends
  <2>1. /\ log' = log /\ db' = db /\ kafka' = kafka
        /\ \A g \in Fences : settle'[g].transcript = settle[g].transcript
    BY <1>5, PrepareFrame
  <2>2. \A g : Settled(g)' = Settled(g)
    BY <2>1 DEF Settled, Terminals
  <2> QED BY <1>1, <2>1, <2>2 DEF Extends, BatchesStay
<1>6. ASSUME NEW m \in net, Ingest(m), Accepted(m)
      PROVE Extends
  <2>1. settle' = settle /\ BatchesStay
    BY <1>6, AcceptFrame
  <2>2. \A s \in DOMAIN log : s \in DOMAIN log' /\ log'[s] = log[s]
    BY <1>1, <1>6 DEF Accepted, LogGrows
  <2>3. m.hi \in Nat /\ db.persisted <= db'.persisted
    BY <1>1, <1>6 DEF Accepted, PipeInv, PipeTypes, Batches
  <2> QED BY <1>2, <1>3, <2>1, <2>2, <2>3 DEF Extends
<1>7. ASSUME NEW f \in Fences, NEW o \in {"completed", "failed"}, CommitTerminal(f, o), Closed(f)
      PROVE Extends
  <2>1. /\ ~Settled(f) /\ kafka' = kafka /\ db'.persisted = db.persisted + 1
        /\ \A g \in Fences : g # f => settle'[g] = settle[g]
    BY <1>7, CommitFrame
  <2>2. \A s \in DOMAIN log : s \in DOMAIN log' /\ log'[s] = log[s]
    BY <1>1, <1>7 DEF Closed, LogGrows
  <2> QED BY <1>1, <1>2, <1>3, <2>1, <2>2 DEF Extends, BatchesStay
<1> QED BY <1>4, <1>5, <1>6, <1>7, StepKinds

(* A batch of the broker that nobody can commit any more.                  *)
LEMMA OrphansStay ==
  ASSUME PipeInv, PipelineNext, Orphaned
  PROVE Orphaned'
<1>1. /\ db.persisted \in Nat /\ db.persisted = Len(log) /\ DOMAIN log = 1..Len(log)
      /\ db.fence \in Nat /\ db.lease \in Nat
  BY Numbers DEF PipeInv, LogOK
<1>2. PICK i \in DOMAIN kafka :
         \/ kafka[i].hi > db.persisted /\ db.lease # kafka[i].by
         \/ \E s \in kafka[i].lo..kafka[i].hi : s <= db.persisted /\ log[s] # Entry(kafka[i].by, "worker")
  BY DEF Orphaned
<1>3. PICK e \in Batches : e = kafka[i]
  BY Numbers DEF PipeInv
<1>4. /\ e.lo \in Nat /\ e.hi \in Nat /\ 1 <= e.lo /\ e.lo <= e.hi /\ e.by \in Nat /\ 1 <= e.by /\ e.by <= db.fence
  BY <1>3 DEF PipeInv, KafkaOK, Batches, Fences
<1>5. Extends /\ i \in DOMAIN kafka' /\ kafka'[i] = e
  BY <1>3, StepExtends DEF Extends, BatchesStay
<1>6. SUFFICES \/ e.hi > db'.persisted /\ db'.lease # e.by
               \/ \E s \in e.lo..e.hi : s <= db'.persisted /\ log'[s] # Entry(e.by, "worker")
  BY <1>5 DEF Orphaned
<1>7. CASE \E s \in e.lo..e.hi : s <= db.persisted /\ log[s] # Entry(e.by, "worker")
  <2>1. PICK s \in e.lo..e.hi : s <= db.persisted /\ log[s] # Entry(e.by, "worker")
    BY <1>7
  <2>2. s \in DOMAIN log /\ s \in Nat
    BY <1>1, <1>4, <2>1
  <2>3. log'[s] = log[s] /\ db.persisted <= db'.persisted /\ db'.persisted \in Nat
    <3>1. db'.persisted \in Nat
      BY PipelineNextKeeps DEF PipeInv, PipeTypes, Cursors
    <3> QED BY <1>5, <2>2, <3>1 DEF Extends
  <2> QED BY <1>1, <2>1, <2>2, <2>3
<1>8. CASE e.hi > db.persisted /\ db.lease # e.by
  <2>1. CASE Quiet
    BY <1>1, <1>4, <1>8, <2>1 DEF Quiet
  <2>2. ASSUME NEW f \in Fences, Prepare(f)
        PROVE e.hi > db'.persisted /\ db'.lease # e.by
    BY <1>8, <2>2, PrepareFrame
  <2>3. ASSUME NEW m \in net, Accepted(m)
        PROVE \/ e.hi > db'.persisted /\ db'.lease # e.by
              \/ e.hi <= db'.persisted /\ log'[e.hi] # Entry(e.by, "worker")
    <3>1. /\ db'.persisted = m.hi /\ db'.lease = db.lease /\ db.lease = m.by /\ m.hi \in Nat
          /\ \A s \in (db.persisted + 1)..m.hi : log'[s] = Entry(m.by, "worker")
      BY <2>3 DEF Accepted, PipeInv, PipeTypes, Batches
    <3>2. CASE e.hi > m.hi
      BY <1>8, <3>1, <3>2
    <3>3. CASE e.hi <= m.hi
      <4>1. e.hi \in (db.persisted + 1)..m.hi
        BY <1>1, <1>4, <1>8, <3>1, <3>3
      <4>2. Entry(m.by, "worker") # Entry(e.by, "worker")
        BY <1>8, <3>1 DEF Entry
      <4> QED BY <3>1, <3>3, <4>1, <4>2
    <3> QED BY <1>4, <3>1, <3>2, <3>3
  <2>4. ASSUME NEW f \in Fences, NEW o \in {"completed", "failed"}, CommitTerminal(f, o), Closed(f)
        PROVE \/ e.hi > db'.persisted /\ db'.lease # e.by
              \/ e.hi <= db'.persisted /\ log'[e.hi] # Entry(e.by, "worker")
    <3>1. /\ db'.persisted = db.persisted + 1 /\ db'.lease = 0
          /\ log'[db.persisted + 1] = Entry(f, "terminal")
      BY <2>4, CommitFrame DEF Closed
    <3>2. Entry(f, "terminal") # Entry(e.by, "worker")
      BY DEF Entry
    <3> QED BY <1>1, <1>4, <1>8, <3>1, <3>2
  <2>5. e.hi \in e.lo..e.hi
    BY <1>4
  <2> QED BY <2>1, <2>2, <2>3, <2>4, <2>5, StepKinds
<1> QED BY <1>2, <1>3, <1>7, <1>8

(* The events of a Turn only grow, and only those of the writing Turn.     *)
LEMMA OwnGrows ==
  ASSUME NEW g, NEW h,
         \A s \in DOMAIN log : s \in DOMAIN log' /\ log'[s] = log[s],
         \A s \in DOMAIN log' : s \in DOMAIN log \/ log'[s].by = h
  PROVE Own(g) \subseteq Own(g)' /\ (g # h => Own(g)' = Own(g))
<1>1. \A s \in DOMAIN log : EventAt(s)' = EventAt(s)
  BY DEF EventAt, Event
<1>2. Own(g) = {EventAt(s) : s \in {s \in DOMAIN log : log[s].by = g}}
  BY DEF Own
<1>3. Own(g)' = {EventAt(s)' : s \in {s \in DOMAIN log' : log'[s].by = g}}
  BY DEF Own
<1>4. \A s : s \in DOMAIN log /\ log[s].by = g => s \in DOMAIN log' /\ log'[s].by = g
  OBVIOUS
<1>5. \A s : g # h /\ s \in DOMAIN log' /\ log'[s].by = g => s \in DOMAIN log /\ log[s].by = g
  OBVIOUS
<1> QED BY <1>1, <1>2, <1>3, <1>4, <1>5

(* The events of the open Turn come after the last terminal one.           *)
LEMMA OpenTurnIsLast ==
  ASSUME PipeInv, NEW f \in Fences, f = db.fence, ~Settled(f),
         NEW s \in DOMAIN log, log[s].by = f, NEW n \in Nat
  PROVE LastTerminal(n) < s
<1>1. /\ DOMAIN log = 1..Len(log) /\ Len(log) \in Nat /\ \A i \in DOMAIN log : log[i] \in Entries
  BY Numbers DEF PipeInv
<1>2. LastTerminal(n) \in {0} \cup Terminals /\ LastTerminal(n) \in Nat
  BY LastTerminals
<1>3. CASE LastTerminal(n) = 0
  BY <1>1, <1>3
<1>4. ASSUME LastTerminal(n) \in Terminals, s <= LastTerminal(n)
      PROVE FALSE
  <2>1. PICK t \in Terminals : t = LastTerminal(n)
    BY <1>4
  <2>2. t \in DOMAIN log /\ s <= t
    BY <1>4, <2>1 DEF Terminals
  <2>3. log[s].by <= log[t].by /\ log[t].by <= f
    BY <2>2 DEF PipeInv, LogOK
  <2>4. log[t].by = f
    BY <1>1, <2>2, <2>3 DEF Entries, Fences
  <2> QED BY <2>1, <2>4 DEF Settled
<1> QED BY <1>1, <1>2, <1>3, <1>4

(* What the live range of the open Turn reads is what it wrote.            *)
LEMMA PreparedIsOwn ==
  ASSUME PipeInv, ~Orphaned, NEW f \in Fences, f = db.fence, ~Settled(f),
         db.projected = db.persisted,
         (LastTerminal(db.projected) + 1)..db.projected \subseteq Seqs(live.events)
  PROVE {e \in live.events : e.seq \in (LastTerminal(db.projected) + 1)..db.projected /\ e.by = f} = Own(f)
<1>1. PICK n \in Nat : n = db.projected
  BY Numbers DEF PipeInv
<1>2. PICK t \in Nat : t = LastTerminal(n)
  BY LastTerminals
<1>3. DOMAIN log = 1..n /\ \A s \in DOMAIN log : log[s] \in Entries
  BY <1>1, Numbers DEF PipeInv, LogOK
<1>4. live.events \subseteq Events
  BY DEF PipeInv, PipeTypes
<1>5. ASSUME NEW e \in live.events, e.seq \in (t + 1)..n, e.by = f
      PROVE e \in Own(f)
  <2>1. e.seq \in Nat /\ e.seq \in DOMAIN log /\ e.seq <= db.persisted
    BY <1>1, <1>3, <1>4, <1>5 DEF Events
  <2>2. e = EventAt(e.seq)
    BY <2>1, LiveIsAccepted
  <2>3. log[e.seq].by = f
    BY <1>5, <2>2 DEF EventAt, Event
  <2> QED BY <2>1, <2>2, <2>3 DEF Own
<1>6. ASSUME NEW s \in DOMAIN log, log[s].by = f
      PROVE EventAt(s) \in live.events /\ EventAt(s).seq \in (t + 1)..n /\ EventAt(s).by = f
  <2>1. t < s
    BY <1>2, <1>6, OpenTurnIsLast
  <2>2. s \in (t + 1)..n
    BY <1>3, <2>1
  <2>3. s \in Seqs(live.events)
    BY <1>1, <1>2, <2>2
  <2>4. PICK e \in live.events : e.seq = s
    BY <2>3, SeqsFacts
  <2>5. s <= db.persisted
    BY <1>1, <2>2
  <2>6. e = EventAt(s)
    BY <2>4, <2>5, LiveIsAccepted
  <2> QED BY <1>6, <2>2, <2>4, <2>6 DEF EventAt, Event
<1>7. \A e \in Own(f) : \E s \in DOMAIN log : log[s].by = f /\ e = EventAt(s)
  BY DEF Own
<1> QED BY <1>1, <1>2, <1>5, <1>6, <1>7

(* Every step of the pipeline keeps the settlements.                       *)
LEMMA SettlementsKeep ==
  ASSUME PipeInv, PipelineNext, SettlementsOK
  PROVE SettlementsOK'
<1>1. SUFFICES ASSUME NEW g \in Fences
               PROVE SettlementOK(g)'
  BY DEF SettlementsOK
<1>2. SettlementOK(g) /\ Extends /\ (~Orphaned' => ~Orphaned)
  BY StepExtends, OrphansStay DEF SettlementsOK
<1>3. /\ db.persisted \in Nat /\ db.persisted = Len(log) /\ DOMAIN log = 1..Len(log)
      /\ settle[g] \in Settlements /\ settle[g].prev \in Nat
  BY Numbers DEF PipeInv, PipeTypes, LogOK, Settlements
<1>4. CASE Quiet
  <2>1. Own(g)' = Own(g) /\ Settled(g)' = Settled(g)
    BY <1>4 DEF Quiet, Own, EventAt, Settled, Terminals
  <2> QED BY <1>2, <1>4, <2>1 DEF Quiet, SettlementOK
<1>5. ASSUME NEW f \in Fences, Prepare(f)
      PROVE SettlementOK(g)'
  <2>1. /\ log' = log /\ db' = db
        /\ \A h \in Fences : h # f => settle'[h] = settle[h]
        /\ settle'[f].transcript = settle[f].transcript /\ settle'[f].outcome = settle[f].outcome
    BY <1>5, PrepareFrame
  <2>2. Own(g)' = Own(g) /\ Settled(g)' = Settled(g)
    BY <2>1 DEF Own, EventAt, Settled, Terminals
  <2>3. CASE g # f
    BY <1>2, <2>1, <2>2, <2>3 DEF SettlementOK
  <2>4. CASE g = f
    <3>1. f = db.fence /\ ~Settled(f)
      BY <1>5 DEF Prepare, Settling
    <3> DEFINE range == (LastTerminal(db.projected) + 1)..db.projected
    <3>2. CASE gateway /\ db.projected = db.persisted /\ range \subseteq Seqs(live.events)
      <4>1. PICK r : r = {e \in live.events : e.seq \in range /\ e.by = f}
        OBVIOUS
      <4>2. PICK p \in Nat : p = db.projected
        BY <1>3, <3>2
      <4>3. settle' = [settle EXCEPT ![f] = [@ EXCEPT !.ready = "yes", !.prev = p, !.read = r]]
        BY <1>5, <3>2, <4>1, <4>2 DEF Prepare
      <4>4. settle'[f].prev = p /\ settle'[f].read = r
        BY <4>3 DEF PipeInv, PipeTypes, Settlements
      <4>5. ~Orphaned => r = Own(f)
        BY <3>1, <3>2, <4>1, PreparedIsOwn
      <4> QED BY <1>2, <1>3, <2>1, <2>2, <2>4, <3>2, <4>2, <4>4, <4>5 DEF SettlementOK
    <3>3. CASE ~(gateway /\ db.projected = db.persisted /\ range \subseteq Seqs(live.events))
      <4>1. settle' = [settle EXCEPT ![f] = [@ EXCEPT !.ready = "threw", !.prev = 0, !.read = {}]]
        BY <1>5, <3>3 DEF Prepare
      <4>2. settle'[f].prev = 0 /\ settle'[f].read = {} /\ settle'[f].ready = "threw"
        BY <4>1 DEF PipeInv, PipeTypes, Settlements
      <4> QED BY <1>2, <1>3, <2>1, <2>2, <2>4, <4>2 DEF SettlementOK
    <3> QED BY <3>2, <3>3
  <2> QED BY <2>3, <2>4
<1>6. ASSUME NEW m \in net, Ingest(m), Accepted(m)
      PROVE SettlementOK(g)'
  <2>1. settle' = settle
    BY <1>6, AcceptFrame
  <2>2. /\ db'.persisted = m.hi /\ m.hi \in Nat /\ db.persisted < m.hi
        /\ Settled(g)' = Settled(g) /\ ~Settled(m.by)
        /\ \A s \in (db.persisted + 1)..m.hi : log'[s] = Entry(m.by, "worker")
        /\ DOMAIN log' = 1..m.hi
    BY <1>6 DEF Accepted, LogGrows, PipeInv, PipeTypes, Batches
  <2>3. \A s \in DOMAIN log' : s \in DOMAIN log \/ log'[s].by = m.by
    BY <1>3, <2>2 DEF Entry
  <2>4. Own(g) \subseteq Own(g)' /\ (g # m.by => Own(g)' = Own(g))
    BY <1>2, <2>3, OwnGrows DEF Extends
  <2>5. settle[g].prev <= db'.persisted /\ settle[g].prev # db'.persisted
    BY <1>2, <1>3, <2>2 DEF SettlementOK
  <2>6. CASE Settled(g)
    <3>1. g # m.by
      BY <2>2, <2>6
    <3> QED BY <1>2, <2>1, <2>2, <2>4, <2>5, <2>6, <3>1 DEF SettlementOK
  <2>7. CASE ~Settled(g)
    <3>1. settle[g].outcome = None /\ settle[g].transcript = {} /\ None # "completed"
      BY <1>2, <2>7 DEF SettlementOK, None
    <3> QED BY <1>2, <2>1, <2>2, <2>4, <2>5, <2>7, <3>1 DEF SettlementOK
  <2> QED BY <2>6, <2>7
<1>7. ASSUME NEW f \in Fences, NEW o \in {"completed", "failed"}, CommitTerminal(f, o), Closed(f)
      PROVE SettlementOK(g)'
  <2> DEFINE terminal == Event(db.persisted + 1, Entry(f, "terminal"))
  <2>1. /\ ~Settled(f) /\ db'.persisted = db.persisted + 1
        /\ \A h \in Fences : h # f => settle'[h] = settle[h]
        /\ settle'[f].outcome = o /\ settle'[f].prev = settle[f].prev
        /\ settle'[f].read = settle[f].read /\ settle'[f].ready = settle[f].ready
        /\ settle'[f].transcript = {terminal} \cup IF external THEN settle[f].read ELSE Own(f)
    BY <1>7, CommitFrame
  <2>2. /\ \A h : Settled(h)' = (Settled(h) \/ h = f)
        /\ log'[db.persisted + 1] = Entry(f, "terminal") /\ DOMAIN log' = 1..(db.persisted + 1)
    BY <1>7 DEF Closed, LogGrows
  <2>3. \A s \in DOMAIN log' : s \in DOMAIN log \/ s = db.persisted + 1
    BY <1>3, <2>2
  <2>4. Entry(f, "terminal").by = f
    BY DEF Entry
  <2>5. Own(g) \subseteq Own(g)' /\ (g # f => Own(g)' = Own(g))
    BY <1>2, <2>2, <2>3, <2>4, OwnGrows DEF Extends
  <2>6. settle[g].prev <= db'.persisted /\ settle[g].prev # db'.persisted
    BY <1>2, <1>3, <2>1 DEF SettlementOK
  <2>7. CASE g # f
    BY <1>2, <2>1, <2>2, <2>5, <2>6, <2>7 DEF SettlementOK
  <2>8. CASE g = f
    <3>1. Own(f)' = Own(f) \cup {terminal}
      <4>1. PICK n \in Nat : n = db.persisted + 1
        BY <1>3
      <4>2. EventAt(n)' = terminal /\ n \in DOMAIN log'
        BY <1>3, <2>2, <4>1 DEF EventAt
      <4>3. terminal \in Own(f)'
        BY <2>2, <2>4, <4>1, <4>2 DEF Own
      <4>4. ASSUME NEW e \in Own(f)' PROVE e \in Own(f) \cup {terminal}
        <5>1. PICK s \in DOMAIN log' : log'[s].by = f /\ e = EventAt(s)'
          BY <4>4 DEF Own
        <5>2. CASE s = n
          BY <4>2, <5>1, <5>2
        <5>3. CASE s \in DOMAIN log
          <6>1. log[s].by = f /\ e = EventAt(s)
            BY <1>2, <5>1, <5>3 DEF Extends, EventAt
          <6> QED BY <5>3, <6>1 DEF Own
        <5> QED BY <2>3, <4>1, <5>2, <5>3
      <4> QED BY <2>5, <2>8, <4>3, <4>4
    <3>2. ~Orphaned' => settle[f].read \subseteq Own(f)
      BY <1>2, <2>8 DEF SettlementOK
    <3>3. ~Orphaned' /\ o = "completed" => settle'[f].transcript = {terminal} \cup Own(f)
      <4>1. ASSUME external, o = "completed", ~Orphaned
            PROVE settle[f].read = Own(f)
        <5>1. settle[f].ready = "yes" /\ settle[f].prev = db.persisted
          BY <1>7, <4>1 DEF CommitTerminal
        <5> QED BY <1>2, <2>1, <2>8, <4>1, <5>1 DEF SettlementOK
      <4> QED BY <1>2, <2>1, <4>1
    <3>4. ~Orphaned' => settle'[f].transcript \subseteq Own(f)' /\ settle'[f].read \subseteq Own(f)'
      BY <2>1, <3>1, <3>2
    <3>5. ~Orphaned' => (settle'[f].outcome = "completed" => settle'[f].transcript = Own(f)')
      BY <2>1, <3>1, <3>3
    <3>6. settle'[f].prev <= db'.persisted /\ Settled(f)'
      BY <2>1, <2>2, <2>6, <2>8
    <3> QED BY <2>8, <3>4, <3>5, <3>6 DEF SettlementOK
  <2> QED BY <2>7, <2>8
<1> QED BY <1>4, <1>5, <1>6, <1>7, StepKinds

(* Other steps leave the settlements alone.                                *)
LEMMA SettlementsStay ==
  ASSUME SettlementsOK, PipelineStays
  PROVE SettlementsOK'
<1>1. db' = db /\ log' = log /\ settle' = settle /\ kafka' = kafka
  BY DEF PipelineStays
<1>2. \A f : Own(f)' = Own(f) /\ Settled(f)' = Settled(f)
  BY <1>1 DEF Own, EventAt, Settled, Terminals
<1>3. Orphaned' = Orphaned
  BY <1>1 DEF Orphaned
<1> QED BY <1>1, <1>2, <1>3 DEF SettlementsOK, SettlementOK

(* What a Turn is settled with is what was accepted of it.                 *)
THEOREM TranscriptsCanonical == Spec => []TranscriptsAreCanonical
<1>1. Init => SettlementsOK
  <2>1. SUFFICES ASSUME Init, NEW f \in Fences
                 PROVE SettlementOK(f)
    BY DEF SettlementsOK
  <2>2. settle[f] = FreshSettle /\ db.persisted = 0
    BY <2>1 DEF Init, PipelineInit
  <2> QED BY <2>2 DEF SettlementOK, FreshSettle, None
<1>2. PipeInv /\ SettlementsOK /\ [Next]_vars => SettlementsOK'
  BY NextCases, SettlementsKeep, SettlementsStay
<1>3. SettlementsOK => TranscriptsAreCanonical
  BY DEF SettlementsOK, SettlementOK, TranscriptsAreCanonical, Own
<1> QED BY <1>1, <1>2, <1>3, PipelineInvariant, PTL DEF Spec

(* Every event up to the horizon is of a settled Turn.                     *)
LEMMA HorizonSettled ==
  ASSUME PipeInv, NEW s \in 1..Horizon
  PROVE s \in DOMAIN log /\ log[s].by \in Fences /\ Settled(log[s].by)
<1>1. /\ DOMAIN log = 1..Len(log) /\ Len(log) \in Nat /\ \A i \in DOMAIN log : log[i] \in Entries
      /\ db.persisted = Len(log) /\ db.fence \in Nat
  BY Numbers DEF PipeInv, LogOK
<1>2. Horizon \in Terminals /\ Horizon \in Nat
  BY Horizons
<1>3. PICK t \in Terminals : t = Horizon
  BY <1>2
<1>4. t \in DOMAIN log /\ s \in DOMAIN log /\ s <= t
  BY <1>1, <1>2, <1>3 DEF Terminals
<1>5. /\ log[s].by \in Fences /\ log[s].by \in Nat /\ log[t].by \in Nat
      /\ log[s].by <= log[t].by /\ log[t].by <= db.fence
  BY <1>1, <1>4 DEF PipeInv, LogOK, Entries, Fences
<1>6. CASE log[s].by = log[t].by
  BY <1>4, <1>5, <1>6 DEF Settled
<1>7. CASE log[s].by # log[t].by
  <2>1. log[s].by < db.fence
    BY <1>1, <1>5, <1>7
  <2> QED BY <1>4, <1>5, <2>1 DEF PipeInv, LogOK
<1> QED BY <1>6, <1>7

(* A view stays what it is while the log grows.                            *)
LEMMA ViewKeeps ==
  ASSUME PipeInv, PipelineNext, NEW w, ViewOK(w),
         w.view \in Nat, w.view <= db.persisted, w.replay \in Nat,
         w.phase \in {"loaded", "snapshot"} => w.replay <= db.persisted
  PROVE ViewOK(w)'
<1>1. Extends
  BY StepExtends
<1>2. DOMAIN log = 1..db.persisted /\ db.persisted \in Nat /\ \A s \in DOMAIN log : log[s].by \in Fences
  BY Numbers DEF PipeInv, LogOK, Entries
<1>3. ASSUME NEW s \in DOMAIN log
      PROVE EventAt(s)' = EventAt(s) /\ (Unkept(s) => Unkept(s)')
  BY <1>1, <1>2, <1>3 DEF Extends, EventAt, Unkept
<1>4. InLog \subseteq InLog'
  BY <1>1, <1>3 DEF InLog, Extends
<1>5. \A s \in 1..w.view : EventAt(s)' \in w.shown \/ s \in w.hole \/ Unkept(s)'
  <2>1. \A s \in 1..w.view : s \in DOMAIN log
    BY <1>2
  <2> QED BY <1>3, <2>1 DEF ViewOK
<1>6. w.phase \in {"loaded", "snapshot"} =>
         \A s \in 1..w.replay : EventAt(s)' \in w.loaded \/ Unkept(s)'
  <2>1. w.phase \in {"loaded", "snapshot"} => \A s \in 1..w.replay : s \in DOMAIN log
    BY <1>2
  <2> QED BY <1>3, <2>1 DEF ViewOK
<1> QED BY <1>4, <1>5, <1>6 DEF ViewOK

(* A browser whose view, and whose conversation if it has one, is the same.*)
SameView(w, v) ==
  /\ v.view = w.view /\ v.shown = w.shown /\ v.hole = w.hole
  /\ v.phase \in {"loaded", "snapshot"} =>
       w.phase \in {"loaded", "snapshot"} /\ v.loaded = w.loaded /\ v.replay = w.replay

(* Its view is as good.                                                    *)
LEMMA SameViewOK ==
  ASSUME NEW w, NEW v, SameView(w, v)
  PROVE (ViewOK(w) => ViewOK(v)) /\ (ViewOK(w)' => ViewOK(v)')
BY DEF SameView, ViewOK

(* A dropped connection and a wake leave the view alone.                   *)
LEMMA DroppedView ==
  ASSUME NEW w \in BrowserStates
  PROVE SameView(w, Dropped(w)) /\ \A s \in Nat : SameView(w, Woken(w, s))
<1>1. SameView(w, Dropped(w))
  <2>1. CASE Streaming(w.phase)
    <3>1. PICK v : v = [w EXCEPT !.phase = "connect", !.wake = 0]
      OBVIOUS
    <3>2. v.phase = "connect" /\ v.view = w.view /\ v.shown = w.shown /\ v.hole = w.hole
      BY <3>1 DEF BrowserStates
    <3>3. Dropped(w) = v
      BY <2>1, <3>1 DEF Dropped
    <3> QED BY <3>2, <3>3 DEF SameView
  <2>2. CASE ~Streaming(w.phase)
    BY <2>2 DEF Dropped, SameView
  <2> QED BY <2>1, <2>2
<1>2. ASSUME NEW s \in Nat PROVE SameView(w, Woken(w, s))
  <2>1. PICK k \in Nat : Woken(w, s) = [w EXCEPT !.wake = k]
    BY WokenFacts
  <2>2. PICK v : v = [w EXCEPT !.wake = k]
    OBVIOUS
  <2>3. /\ v.phase = w.phase /\ v.view = w.view /\ v.shown = w.shown /\ v.hole = w.hole
        /\ v.loaded = w.loaded /\ v.replay = w.replay
    BY <2>2 DEF BrowserStates
  <2> QED BY <2>1, <2>2, <2>3 DEF SameView
<1> QED BY <1>1, <1>2

(* Steps of the pipeline keep the views.                                   *)
LEMMA PipelineKeepsViews ==
  ASSUME PipeInv, PipeInv', BrowsersOK, ViewsOK, Pipeline
  PROVE ViewsOK'
<1>1. SUFFICES ASSUME ~Orphaned', NEW b \in Browsers
               PROVE ViewOK(browser[b])'
  BY DEF ViewsOK
<1>2. PICK w \in BrowserStates : Known(b, w)
  BY BrowserFacts
<1>3. ViewOK(w)
  BY <1>1, <1>2, OrphansStay DEF ViewsOK, Pipeline, Known
<1>4. /\ w.view \in Nat /\ w.view <= db.persisted /\ w.replay \in Nat
      /\ w.phase \in {"loaded", "snapshot"} => w.replay <= db.persisted
  BY <1>2 DEF Known, BrowserOK
<1>5. ViewOK(w)'
  BY <1>3, <1>4, ViewKeeps DEF Pipeline
<1>6. PICK s \in Nat : s = db'.projected
  BY DEF PipeInv, PipeTypes, Cursors
<1>7. PICK v : v = browser'[b]
  OBVIOUS
<1>8. v \in {w, Dropped(w), Woken(w, s)}
  BY <1>2, <1>6, <1>7 DEF Pipeline, AfterPipeline, Known
<1>9. ViewOK(v)'
  BY <1>5, <1>8, DroppedView, SameViewOK
<1> QED BY <1>7, <1>9 DEF ViewOK

(* Steps of a browser that leave its view alone.                           *)
LEMMA QuietBrowser ==
  ASSUME PipeInv, BrowsersOK, NEW b \in Browsers,
         \/ SnapshotTurn(b) \/ Subscribe(b) \/ OpenWindow(b) \/ WindowEnds(b) \/ Wake(b)
         \/ Heartbeat(b) \/ Disconnect(b) \/ (Deliver(b) /\ ~Readable(browser[b].last + 1))
  PROVE \E v : SameView(browser[b], v) /\ browser' = [browser EXCEPT ![b] = v]
<1>1. PICK w \in BrowserStates : w = browser[b]
  BY DEF BrowsersOK
<1>2. browser \in [Browsers -> BrowserStates]
  BY DEF BrowsersOK
<1>3. CASE SnapshotTurn(b)
  <2>1. PICK t, v : v = [w EXCEPT !.phase = "snapshot", !.turn = t] /\ w.phase = "loaded"
                    /\ browser' = [browser EXCEPT ![b] = v]
    BY <1>1, <1>3 DEF SnapshotTurn, Set
  <2>2. v.view = w.view /\ v.shown = w.shown /\ v.hole = w.hole /\ v.loaded = w.loaded /\ v.replay = w.replay
    BY <2>1 DEF BrowserStates
  <2> QED BY <1>1, <2>1, <2>2 DEF SameView
<1>4. CASE Subscribe(b)
  <2>1. PICK v : v = [w EXCEPT !.phase = "opening", !.wake = 0] /\ browser' = [browser EXCEPT ![b] = v]
    BY <1>1, <1>4 DEF Subscribe, Set
  <2>2. v.phase = "opening" /\ v.view = w.view /\ v.shown = w.shown /\ v.hole = w.hole
    BY <2>1 DEF BrowserStates
  <2> QED BY <1>1, <2>1, <2>2 DEF SameView
<1>5. CASE OpenWindow(b)
  <2>1. PICK u, h, v : /\ u = [w EXCEPT !.phase = "load", !.wake = 0]
                       /\ v = [w EXCEPT !.phase = "window", !.hwm = h]
                       /\ \/ browser' = [browser EXCEPT ![b] = u]
                          \/ browser' = [browser EXCEPT ![b] = v]
    BY <1>1, <1>5 DEF OpenWindow, Set
  <2>2. u.phase = "load" /\ u.view = w.view /\ u.shown = w.shown /\ u.hole = w.hole
    BY <2>1 DEF BrowserStates
  <2>3. v.phase = "window" /\ v.view = w.view /\ v.shown = w.shown /\ v.hole = w.hole
    BY <2>1 DEF BrowserStates
  <2>4. SameView(w, u) /\ SameView(w, v)
    BY <2>2, <2>3 DEF SameView
  <2> QED BY <1>1, <2>1, <2>4
<1>6. CASE WindowEnds(b)
  <2>1. PICK v : v = [w EXCEPT !.phase = "idle"] /\ browser' = [browser EXCEPT ![b] = v]
    BY <1>1, <1>6 DEF WindowEnds, Set
  <2>2. v.phase = "idle" /\ v.view = w.view /\ v.shown = w.shown /\ v.hole = w.hole
    BY <2>1 DEF BrowserStates
  <2> QED BY <1>1, <2>1, <2>2 DEF SameView
<1>7. CASE browser' = [browser EXCEPT ![b] = Dropped(w)]
  BY <1>1, <1>7, DroppedView
<1>8. CASE Wake(b) \/ Heartbeat(b)
  <2>1. PICK u : u = [w EXCEPT !.wake = 0]
    OBVIOUS
  <2>2. PICK v : v = [w EXCEPT !.phase = "window", !.hwm = db.projected, !.wake = 0]
    OBVIOUS
  <2>3. Suffix(w) = Dropped(w) \/ Suffix(w) = v
    BY <2>2 DEF Suffix
  <2>4. browser' = [browser EXCEPT ![b] = u] \/ browser' = [browser EXCEPT ![b] = Suffix(w)]
    BY <1>1, <1>8, <2>1 DEF Wake, Heartbeat, Set
  <2>5. /\ u.phase = w.phase /\ u.view = w.view /\ u.shown = w.shown /\ u.hole = w.hole
        /\ u.loaded = w.loaded /\ u.replay = w.replay
    BY <2>1 DEF BrowserStates
  <2>6. v.phase = "window" /\ v.view = w.view /\ v.shown = w.shown /\ v.hole = w.hole
    BY <2>2 DEF BrowserStates
  <2>7. SameView(w, u) /\ SameView(w, v)
    BY <2>5, <2>6 DEF SameView
  <2> QED BY <1>1, <1>7, <2>3, <2>4, <2>7
<1>9. CASE Disconnect(b)
  BY <1>1, <1>2, <1>7, <1>9 DEF Disconnect
<1>10. CASE Deliver(b) /\ ~Readable(browser[b].last + 1)
  BY <1>1, <1>7, <1>10 DEF Deliver, Set
<1> QED BY <1>3, <1>4, <1>5, <1>6, <1>8, <1>9, <1>10

(* The conversation has every event that the transcripts keep.             *)
LEMMA LoadConversationView ==
  ASSUME PipeInv, SettlementsOK, ~Orphaned, BrowsersOK, NEW b \in Browsers, LoadConversation(b),
         ViewOK(browser[b])
  PROVE \E v : ViewOK(v) /\ browser' = [browser EXCEPT ![b] = v]
<1>1. PICK w \in BrowserStates : Known(b, w)
  BY BrowserFacts
<1>2. PICK r \in Nat : r = Max({db.floor, LastTerminal(db.persisted)})
  BY <1>1, MaxPair DEF Horizon, Known
<1>3. r = Horizon
  BY <1>1, <1>2, MaxPair DEF Horizon, Known
<1>4. PICK v : v = [w EXCEPT !.phase = "loaded", !.loaded = Transcripts, !.replay = r]
               /\ browser' = [browser EXCEPT ![b] = v]
  BY <1>1, <1>2 DEF LoadConversation, Set, Known
<1>5. /\ v.view = w.view /\ v.shown = w.shown /\ v.hole = w.hole
      /\ v.loaded = Transcripts /\ v.replay = r
  BY <1>4 DEF BrowserStates
<1>6. Transcripts \subseteq InLog
  BY DEF Transcripts, SettlementsOK, SettlementOK, Own, InLog
<1>7. ASSUME NEW s \in 1..r PROVE EventAt(s) \in Transcripts \/ Unkept(s)
  <2>1. log[s].by \in Fences /\ Settled(log[s].by)
    BY <1>3, HorizonSettled
  <2> QED BY <2>1 DEF Transcripts, Unkept
<1>8. ViewOK(v)
  BY <1>1, <1>5, <1>6, <1>7 DEF ViewOK, Known
<1> QED BY <1>4, <1>8

(* Between two terminal events there is one Turn.                          *)
LEMMA OneBlock ==
  ASSUME PipeInv, NEW n \in Nat, NEW i \in DOMAIN log, NEW j \in DOMAIN log,
         LastTerminal(n) < i, i <= j, j <= n
  PROVE log[i].by = log[j].by
<1>1. /\ DOMAIN log = 1..Len(log) /\ Len(log) \in Nat /\ \A q \in DOMAIN log : log[q] \in Entries
      /\ db.fence \in Nat
  BY Numbers DEF PipeInv
<1>2. LastTerminal(n) \in Nat /\ \A q \in Terminals : q <= n => q <= LastTerminal(n)
  BY LastTerminals
<1>3. /\ log[i].by <= log[j].by /\ log[j].by <= db.fence /\ log[i].by \in Fences
      /\ log[i].by \in Nat /\ log[j].by \in Nat
  BY <1>1 DEF PipeInv, LogOK, Entries, Fences
<1>4. SUFFICES ASSUME log[i].by # log[j].by PROVE FALSE
  OBVIOUS
<1>5. PICK q \in Terminals : log[q].by = log[i].by
  BY <1>1, <1>3, <1>4 DEF PipeInv, LogOK, Settled
<1>6. q \in DOMAIN log
  BY DEF Terminals
<1>7. ~(q < i) /\ q # j
  BY <1>1, <1>3, <1>4, <1>5, <1>6 DEF PipeInv, LogOK
<1>8. ~(j < q)
  <2>1. j <= q => log[j].by <= log[q].by
    BY <1>6 DEF PipeInv, LogOK
  <2> QED BY <1>1, <1>3, <1>4, <1>5, <1>6, <2>1
<1>9. q <= n
  BY <1>1, <1>6, <1>8
<1> QED BY <1>1, <1>2, <1>6, <1>7, <1>9

(* A snapshot has every event of its range.                                *)
LEMMA SnapshotIsLog ==
  ASSUME PipeInv, ~Orphaned, NEW t, SnapshotEvents(t) # {}
  PROVE /\ SnapshotEvents(t) \subseteq InLog
        /\ \A s \in SnapshotRange : EventAt(s) \in SnapshotEvents(t)
<1>1. PICK n \in Nat : n = LiveThrough /\ n <= db.projected
  BY LiveThroughFacts
<1>2. LastTerminal(n) \in Nat /\ db.floor \in Nat
  BY LastTerminals, Numbers DEF PipeInv
<1>3. PICK k \in Nat : k = Max({db.floor, LastTerminal(n)}) /\ LastTerminal(n) <= k
  BY <1>2, MaxPair
<1>4. SnapshotRange = (k + 1)..n
  BY <1>1, <1>3 DEF SnapshotRange
<1>5. DOMAIN log = 1..db.persisted /\ db.persisted \in Nat /\ n <= db.persisted
  BY <1>1, Numbers DEF PipeInv, LogOK, CursorsOK
<1>6. /\ SnapshotRange \subseteq Seqs(live.events)
      /\ SnapshotEvents(t) = {e \in live.events : e.seq \in SnapshotRange /\ e.by = t}
  BY DEF SnapshotEvents
<1>7. ASSUME NEW e \in live.events, e.seq \in SnapshotRange
      PROVE e.seq \in DOMAIN log /\ e.seq \in (k + 1)..n /\ e = EventAt(e.seq)
  <2>1. e.seq \in (k + 1)..n
    BY <1>4, <1>7
  <2>2. e.seq <= db.persisted /\ e.seq \in DOMAIN log
    BY <1>5, <2>1
  <2> QED BY <2>1, <2>2, LiveIsAccepted
<1>8. PICK x \in live.events : x.seq \in SnapshotRange /\ x.by = t
  BY <1>6
<1>9. x.seq \in DOMAIN log /\ x.seq \in (k + 1)..n /\ log[x.seq].by = t
  BY <1>7, <1>8 DEF EventAt, Event
<1>10. ASSUME NEW s \in SnapshotRange
       PROVE EventAt(s) \in SnapshotEvents(t)
  <2>1. s \in Seqs(live.events)
    BY <1>6
  <2>2. PICK e \in live.events : e.seq = s
    BY <2>1, SeqsFacts
  <2>3. s \in DOMAIN log /\ s \in (k + 1)..n /\ e = EventAt(s)
    BY <1>7, <2>2
  <2>4. log[s].by = t
    <3>1. CASE s <= x.seq
      BY <1>2, <1>3, <1>9, <2>3, <3>1, OneBlock
    <3>2. CASE x.seq <= s
      BY <1>2, <1>3, <1>9, <2>3, <3>2, OneBlock
    <3> QED BY <1>9, <2>3, <3>1, <3>2
  <2>5. EventAt(s).by = t
    BY <2>4 DEF EventAt, Event
  <2> QED BY <1>6, <2>2, <2>3, <2>5
<1>11. ASSUME NEW e \in SnapshotEvents(t) PROVE e \in InLog
  <2>1. e \in live.events /\ e.seq \in SnapshotRange
    BY <1>6
  <2> QED BY <1>7, <2>1 DEF InLog
<1> QED BY <1>10, <1>11

(* A snapshot continues the conversation up to what is in a hole.          *)
LEMMA ReadSnapshotView ==
  ASSUME PipeInv, ~Orphaned, BrowsersOK, NEW b \in Browsers, ReadSnapshot(b), ViewOK(browser[b])
  PROVE \E v : ViewOK(v) /\ browser' = [browser EXCEPT ![b] = v]
<1>1. PICK w \in BrowserStates : Known(b, w)
  BY BrowserFacts
<1>2. PICK n \in Nat : n = LiveThrough
  BY LiveThroughFacts
<1>3. PICK E : E = SnapshotEvents(w.turn)
  OBVIOUS
<1>4. w.phase = "snapshot" /\ ViewOK(w) /\ w.replay \in Nat
  BY <1>1 DEF ReadSnapshot, Known
<1>5. /\ w.loaded \subseteq InLog
      /\ \A s \in 1..w.replay : EventAt(s) \in w.loaded \/ Unkept(s)
  BY <1>4 DEF ViewOK
<1>6. PICK plain : plain = [w EXCEPT !.phase = "connect", !.last = w.replay, !.view = w.replay,
                                     !.shown = w.loaded, !.hole = {}]
  OBVIOUS
<1>7. plain \in BrowserStates
  BY <1>6 DEF BrowserStates, BrowserPhases
<1>8. plain.phase = "connect" /\ plain.view = w.replay /\ plain.shown = w.loaded /\ plain.hole = {}
  BY <1>6 DEF BrowserStates
<1>9. CASE E = {}
  <2>1. browser' = [browser EXCEPT ![b] = plain]
    BY <1>1, <1>3, <1>6, <1>9 DEF ReadSnapshot, Set, Known
  <2>2. ViewOK(plain)
    BY <1>5, <1>8 DEF ViewOK
  <2> QED BY <2>1, <2>2
<1>10. CASE E # {} /\ n < w.replay
  <2>1. PICK v : v = [plain EXCEPT !.last = n]
    OBVIOUS
  <2>2. v.phase = "connect" /\ v.view = w.replay /\ v.shown = w.loaded /\ v.hole = {}
    BY <1>7, <1>8, <2>1 DEF BrowserStates
  <2>3. browser' = [browser EXCEPT ![b] = v]
    BY <1>1, <1>2, <1>3, <1>6, <1>10, <2>1 DEF ReadSnapshot, Set, Known
  <2>4. ViewOK(v)
    BY <1>5, <2>2 DEF ViewOK
  <2> QED BY <2>3, <2>4
<1>11. CASE E # {} /\ ~(n < w.replay)
  <2>1. SnapshotRange # {}
    BY <1>3, <1>11 DEF SnapshotEvents
  <2>2. PICK q \in Nat : q = Min(SnapshotRange)
    BY <2>1, SnapshotRangeFacts
  <2>3. PICK H : H = (w.replay + 1)..(q - 1)
    OBVIOUS
  <2>4. PICK S : S = w.loaded \cup E
    OBVIOUS
  <2>5. PICK v : v = [plain EXCEPT !.last = n, !.view = n, !.shown = S, !.hole = H]
    OBVIOUS
  <2>6. v.phase = "connect" /\ v.view = n /\ v.shown = S /\ v.hole = H
    BY <1>7, <1>8, <2>5 DEF BrowserStates
  <2>7. browser' = [browser EXCEPT ![b] = v]
    BY <1>1, <1>2, <1>3, <1>6, <1>11, <2>2, <2>3, <2>4, <2>5 DEF ReadSnapshot, Set, Known
  <2>8. E \subseteq InLog /\ \A s \in SnapshotRange : EventAt(s) \in E
    BY <1>3, <1>11, SnapshotIsLog
  <2>9. \A s \in q..n : s \in SnapshotRange
    <3>1. LastTerminal(n) \in Nat /\ db.floor \in Nat
      BY LastTerminals, Numbers DEF PipeInv
    <3>2. PICK k \in Nat : k = Max({db.floor, LastTerminal(n)})
      BY <3>1, MaxPair
    <3>3. SnapshotRange = (k + 1)..n
      BY <1>2, <3>2 DEF SnapshotRange
    <3>4. \E x \in SnapshotRange : \A y \in SnapshotRange : x <= y
      BY <2>1, <3>3
    <3>5. q \in SnapshotRange
      BY <2>2, <3>4 DEF Min
    <3> QED BY <3>3, <3>5
  <2>10. ASSUME NEW s \in 1..n
         PROVE EventAt(s) \in S \/ s \in H \/ Unkept(s)
    <3>1. CASE s <= w.replay
      BY <1>4, <1>5, <2>4, <3>1
    <3>2. CASE s > w.replay /\ s < q
      BY <1>4, <2>2, <2>3, <3>2
    <3>3. CASE s >= q
      BY <2>2, <2>4, <2>8, <2>9, <3>3
    <3> QED BY <1>4, <2>2, <3>1, <3>2, <3>3
  <2>11. S \subseteq InLog
    BY <1>5, <2>4, <2>8
  <2>12. ViewOK(v)
    BY <2>6, <2>10, <2>11 DEF ViewOK
  <2> QED BY <2>7, <2>12
<1> QED BY <1>9, <1>10, <1>11

(* A delivered frame is the next event of the log.                         *)
LEMMA DeliverView ==
  ASSUME PipeInv, ~Orphaned, BrowsersOK, NEW b \in Browsers, Deliver(b),
         Readable(browser[b].last + 1), ViewOK(browser[b])
  PROVE \E v : ViewOK(v) /\ browser' = [browser EXCEPT ![b] = v]
<1>1. PICK w \in BrowserStates : Known(b, w)
  BY BrowserFacts
<1>2. w.phase = "window" /\ w.last < w.hwm /\ w.hwm <= db.projected /\ ViewOK(w) /\ Readable(w.last + 1)
  BY <1>1 DEF Deliver, Known, BrowserOK
<1>3. PICK n \in Nat : n = w.last + 1
  BY <1>1 DEF Known
<1>4. n \in 1..db.persisted
  BY <1>1, <1>2, <1>3 DEF Known
<1>5. PICK e : e = Stored(n)
  OBVIOUS
<1>6. e \in Events /\ e.seq = n
  BY <1>2, <1>3, <1>4, <1>5, StoredFacts
<1>7. n \in DOMAIN log /\ n <= db.persisted
  BY <1>4, Numbers DEF PipeInv, LogOK
<1>8. e = EventAt(n)
  <2>1. CASE external /\ n \notin Terminals
    <3>1. n \in Seqs(live.events)
      BY <1>2, <1>3, <2>1 DEF Readable
    <3>2. PICK x \in live.events : x.seq = n
      BY <3>1, SeqsFacts
    <3>3. e \in live.events
      BY <1>5, <2>1, <3>2 DEF Stored
    <3> QED BY <1>6, <1>7, <3>3, LiveIsAccepted
  <2>2. CASE ~(external /\ n \notin Terminals)
    BY <1>5, <2>2 DEF Stored
  <2> QED BY <2>1, <2>2
<1>9. CASE n = w.view + 1
  <2>1. PICK S : S = w.shown \cup {e}
    OBVIOUS
  <2>2. PICK u : u = [w EXCEPT !.view = n, !.shown = S]
    OBVIOUS
  <2>3. u = Shown(w, e)
    BY <1>6, <1>9, <2>1, <2>2 DEF Shown
  <2>4. u \in BrowserStates /\ u.phase = w.phase /\ u.view = n /\ u.shown = S /\ u.hole = w.hole
    BY <1>6, <2>1, <2>2 DEF BrowserStates
  <2>5. PICK v : v = [u EXCEPT !.last = n]
    OBVIOUS
  <2>6. v.phase = w.phase /\ v.view = n /\ v.shown = S /\ v.hole = w.hole
    BY <2>4, <2>5 DEF BrowserStates
  <2>7. browser' = [browser EXCEPT ![b] = v]
    BY <1>1, <1>2, <1>3, <1>5, <2>3, <2>5 DEF Deliver, Set, Known
  <2>8. S \subseteq InLog
    BY <1>2, <1>7, <1>8, <2>1 DEF ViewOK, InLog
  <2>9. \A s \in 1..n : EventAt(s) \in S \/ s \in w.hole \/ Unkept(s)
    <3>1. \A s \in 1..n : s = n \/ s \in 1..w.view
      BY <1>1, <1>9 DEF Known
    <3> QED BY <1>2, <1>8, <2>1, <3>1 DEF ViewOK
  <2>10. ViewOK(v)
    BY <1>2, <2>6, <2>8, <2>9 DEF ViewOK
  <2> QED BY <2>7, <2>10
<1>10. CASE n # w.view + 1
  <2>1. w = Shown(w, e)
    BY <1>6, <1>10 DEF Shown
  <2>2. PICK v : v = [w EXCEPT !.last = n]
    OBVIOUS
  <2>3. v.phase = w.phase /\ v.view = w.view /\ v.shown = w.shown /\ v.hole = w.hole
    BY <2>2 DEF BrowserStates
  <2>4. browser' = [browser EXCEPT ![b] = v]
    BY <1>1, <1>2, <1>3, <1>5, <2>1, <2>2 DEF Deliver, Set, Known
  <2>5. ViewOK(v)
    BY <1>2, <2>3 DEF ViewOK
  <2> QED BY <2>4, <2>5
<1> QED BY <1>9, <1>10

(* A browser takes a state with a good view.                               *)
ViewMoves(b) == \E v : ViewOK(v) /\ browser' = [browser EXCEPT ![b] = v]

(* Steps of the browsers keep the views.                                   *)
LEMMA BrowserKeepsViews ==
  ASSUME PipeInv, SettlementsOK, BrowsersOK, ViewsOK, NEW b \in Browsers, BrowserStep(b) \/ Disconnect(b)
  PROVE ViewsOK'
<1>1. PipelineStays
  BY BrowserStepStays
<1>2. db' = db /\ log' = log /\ settle' = settle /\ kafka' = kafka
  BY <1>1 DEF PipelineStays
<1>3. Orphaned' = Orphaned
  BY <1>2 DEF Orphaned
<1>4. ASSUME NEW w, ViewOK(w) PROVE ViewOK(w)'
  BY <1>2, <1>4 DEF ViewOK, InLog, EventAt, Unkept, Settled, Terminals
<1>5. SUFFICES ASSUME ~Orphaned PROVE \A c \in Browsers : ViewOK(browser[c])'
  BY <1>3 DEF ViewsOK
<1>6. ViewMoves(b)
  <2>1. ViewOK(browser[b])
    BY <1>5 DEF ViewsOK
  <2>2. CASE LoadConversation(b)
    BY <1>5, <2>1, <2>2, LoadConversationView DEF ViewMoves
  <2>3. CASE ReadSnapshot(b)
    BY <1>5, <2>1, <2>3, ReadSnapshotView DEF ViewMoves
  <2>4. CASE Deliver(b) /\ Readable(browser[b].last + 1)
    BY <1>5, <2>1, <2>4, DeliverView DEF ViewMoves
  <2>5. CASE \/ SnapshotTurn(b) \/ Subscribe(b) \/ OpenWindow(b) \/ WindowEnds(b) \/ Wake(b)
             \/ Heartbeat(b) \/ Disconnect(b) \/ (Deliver(b) /\ ~Readable(browser[b].last + 1))
    <3>1. PICK u : SameView(browser[b], u) /\ browser' = [browser EXCEPT ![b] = u]
      BY <2>5, QuietBrowser
    <3>2. ViewOK(u)
      BY <2>1, <3>1, SameViewOK
    <3> QED BY <3>1, <3>2 DEF ViewMoves
  <2> QED BY <2>2, <2>3, <2>4, <2>5 DEF BrowserStep
<1>7. SUFFICES ASSUME NEW c \in Browsers PROVE ViewOK(browser[c])'
  OBVIOUS
<1>8. PICK u : u = browser'[c] /\ ViewOK(u)
  <2>1. PICK v : ViewOK(v) /\ browser' = [browser EXCEPT ![b] = v]
    BY <1>6 DEF ViewMoves
  <2> QED BY <1>5, <2>1 DEF ViewsOK, BrowsersOK
<1>9. ViewOK(u)'
  BY <1>4, <1>8
<1> QED BY <1>8, <1>9 DEF ViewOK

(* So does a lost notification.                                            *)
LEMMA LoseNotificationKeepsViews ==
  ASSUME BrowsersOK, ViewsOK, LoseNotification
  PROVE ViewsOK'
<1>1. PipelineStays
  BY DEF LoseNotification, PipelineStays, workerVars, storeVars, liveVars
<1>2. db' = db /\ log' = log /\ settle' = settle /\ kafka' = kafka
  BY <1>1 DEF PipelineStays
<1>3. Orphaned' = Orphaned
  BY <1>2 DEF Orphaned
<1>4. ASSUME NEW w, ViewOK(w) PROVE ViewOK(w)'
  BY <1>2, <1>4 DEF ViewOK, InLog, EventAt, Unkept, Settled, Terminals
<1>5. SUFFICES ASSUME ~Orphaned, NEW b \in Browsers PROVE ViewOK(browser[b])'
  BY <1>3 DEF ViewsOK
<1>6. PICK w \in BrowserStates : w = browser[b] /\ ViewOK(w)
  BY <1>5 DEF ViewsOK, BrowsersOK
<1>7. PICK v : v = [w EXCEPT !.wake = 0]
  OBVIOUS
<1>8. /\ v.phase = w.phase /\ v.view = w.view /\ v.shown = w.shown /\ v.hole = w.hole
      /\ v.loaded = w.loaded /\ v.replay = w.replay
  BY <1>7 DEF BrowserStates
<1>9. ViewOK(v)
  BY <1>6, <1>8, SameViewOK DEF SameView
<1>10. ViewOK(v)' /\ browser'[b] = v
  BY <1>4, <1>6, <1>7, <1>9 DEF LoseNotification
<1> QED BY <1>10 DEF ViewOK

(* A view shows accepted events only, and up to its position all that a    *)
(* transcript keeps: through snapshots, reloads, reconnects, expired       *)
(* cursors and lost notifications.                                         *)
THEOREM BrowsersFollowTheLog == Spec => []ViewsFollowTheLog
<1>1. Init => SettlementsOK /\ ViewsOK
  <2>1. SUFFICES ASSUME Init, NEW f \in Fences
                 PROVE SettlementOK(f) /\ ViewsOK
    BY PipelineAssumption DEF SettlementsOK, Fences
  <2>2. settle[f] = FreshSettle /\ db.persisted = 0 /\ browser = [b \in Browsers |-> FreshBrowser]
    BY <2>1 DEF Init, PipelineInit
  <2>3. SettlementOK(f)
    BY <2>2 DEF SettlementOK, FreshSettle, None
  <2>4. ViewOK(FreshBrowser)
    BY DEF ViewOK, FreshBrowser
  <2> QED BY <2>2, <2>3, <2>4 DEF ViewsOK
<1>2. PipeInv /\ SettlementsOK /\ [Next]_vars => SettlementsOK'
  BY NextCases, SettlementsKeep, SettlementsStay
<1>3. PipeInv /\ PipeInv' /\ BrowsersOK /\ SettlementsOK /\ ViewsOK /\ [Next]_vars => ViewsOK'
  <2>1. CASE UNCHANGED vars
    <3>1. db' = db /\ log' = log /\ settle' = settle /\ kafka' = kafka /\ browser' = browser
      BY <2>1 DEF vars, pipeVars, storeVars, liveVars
    <3> QED BY <3>1 DEF ViewsOK, Orphaned, ViewOK, InLog, EventAt, Unkept, Settled, Terminals
  <2> QED BY <2>1, PipelineKeepsViews, LoseNotificationKeepsViews, BrowserKeepsViews DEF Next
<1>4. ViewsOK => ViewIsLogPrefix
  BY DEF ViewsOK, ViewOK, ViewIsLogPrefix, InLog, Unkept
<1> QED BY <1>1, <1>2, <1>3, <1>4, PipelineInvariant, BrowsersInvariant, StreamsNeverJump, PTL
    DEF Spec, ViewsFollowTheLog
-----------------------------------------------------------------------------
(* The order of the broker's batches, and what the live store has ahead of *)
(* the projection.                                                         *)

(* Every batch begins after what was accepted when it was appended, so the *)
(* batches are in order, whatever was rolled back between them; an         *)
(* accepted event is in a batch that is accepted as a whole; and what the  *)
(* projector has behind it is projected.                                   *)
BatchesInOrder ==
  /\ \A i, j \in DOMAIN kafka : i <= j => kafka[i].lo <= kafka[j].lo
  /\ \A i \in DOMAIN kafka : kafka[i].lo <= db.persisted + 1
  /\ external => \A s \in 1..db.persisted :
        s \in Terminals \/ \E i \in DOMAIN kafka : InBatch(s, i) /\ kafka[i].hi <= db.persisted
  /\ \A i \in 1..proj.stored : kafka[i].hi <= db.projected

(* The floor is the end of a Turn whose trimming is done.                  *)
FloorOK == db.floor = 0 \/ \E f \in Fences : jobs[f] = "done" /\ TerminalOf(f) = db.floor

(* What the live stream has ahead of the projection, after a projection    *)
(* that was rolled back, is whole, accepted, and ends where a batch ends.  *)
AheadOK ==
  /\ live.last <= db.persisted
  /\ \A s \in (db.projected + 1)..live.last : s \in Seqs(live.events)
  /\ db.projected < live.last => \E k \in DOMAIN kafka : kafka[k].hi = live.last

(* A projector that stopped had a reason, which is still there.            *)
StoppedOK ==
  proj.dead => /\ gateway /\ proj.pos \in DOMAIN kafka /\ proj.stored < proj.pos
               /\ Orphaned \/ Recut \/ Gone(Envelope.lo)

(* An event of a live stream has the digest of a publication that the      *)
(* broker has.                                                             *)
SentAs(lv) ==
  /\ \A s \in lv.batched : s <= lv.last
  /\ \A s \in Seqs(lv.events) : \E k \in DOMAIN kafka :
        InBatch(s, k) /\ (s \in lv.batched <=> kafka[k].via = "batch")
SentOK == SentAs(live)

ProjectorOK == BatchesInOrder /\ FloorOK /\ AheadOK /\ SentOK /\ StoppedOK

(* Batches of the broker, and the order of their numbers.                  *)
LEMMA BatchNumbers ==
  ASSUME PipeInv, NEW i \in DOMAIN kafka
  PROVE /\ kafka[i].lo \in Nat /\ kafka[i].hi \in Nat /\ kafka[i].by \in Fences
        /\ 1 <= kafka[i].lo /\ kafka[i].lo <= kafka[i].hi
<1>1. kafka[i] \in Batches
  BY Numbers DEF PipeInv
<1> QED BY <1>1 DEF Batches, PipeInv, KafkaOK

(* Where no batch is orphaned, what a batch says of an accepted event is   *)
(* what the log says.                                                      *)
LEMMA NotOrphaned ==
  ASSUME PipeInv, ~Orphaned, NEW i \in DOMAIN kafka, NEW s \in kafka[i].lo..kafka[i].hi, s <= db.persisted
  PROVE log[s] = Entry(kafka[i].by, "worker")
  BY DEF Orphaned

(* Two batches that overlap end at the same event.                         *)
LEMMA NotRecut ==
  ASSUME ~Recut, NEW i \in DOMAIN kafka, NEW j \in DOMAIN kafka,
         kafka[i].lo <= kafka[j].hi, kafka[j].lo <= kafka[i].hi
  PROVE kafka[i].hi = kafka[j].hi /\ kafka[i].via = kafka[j].via
  BY DEF Recut

(* What a stream takes of a batch has the batch's digest.                  *)
LEMMA AppendSent ==
  ASSUME PipeInv, NEW lv \in Lives, SentAs(lv), NEW base \in Nat, NEW i \in DOMAIN kafka,
         NEW batch \in SUBSET Events, \A e \in batch : InBatch(e.seq, i),
         CanAppendLive(lv, base, batch, kafka[i].via)
  PROVE SentAs(AppendLive(lv, base, batch, kafka[i].via))
<1>1. PICK nv : nv = AppendLive(lv, base, batch, kafka[i].via)
  OBVIOUS
<1>2. /\ nv \in Lives /\ nv.events = lv.events \cup batch
      /\ lv.last <= nv.last /\ \A e \in batch : e.seq <= nv.last
      /\ nv.batched = IF kafka[i].via = "batch" THEN lv.batched \cup Seqs(batch) ELSE lv.batched
  <2>1. kafka[i].hi \in Nat /\ \A e \in batch : e.seq <= kafka[i].hi
    BY BatchNumbers DEF InBatch
  <2>2. nv.batched = IF kafka[i].via = "batch" THEN lv.batched \cup Seqs(batch) ELSE lv.batched
    BY <1>1, AppendLiveBatched
  <2>3. /\ nv \in Lives /\ nv.events = lv.events \cup batch
        /\ lv.last <= nv.last /\ \A e \in batch : e.seq <= nv.last
    BY <1>1, <2>1, AppendLiveFacts
  <2> QED BY <2>2, <2>3
<1>3. lv.last \in Nat /\ nv.last \in Nat /\ lv.batched \subseteq Nat
  BY <1>2 DEF Lives
<1>4. \A s \in nv.batched : s <= nv.last
  <2>1. \A s \in lv.batched : s <= nv.last
    BY <1>2, <1>3 DEF SentAs
  <2>2. \A s \in Seqs(batch) : s <= nv.last
    BY <1>2, SeqsFacts
  <2> QED BY <1>2, <2>1, <2>2
<1>5. \A s \in Seqs(batch) : InBatch(s, i) /\ (s \in nv.batched <=> kafka[i].via = "batch")
  <2>1. SUFFICES ASSUME NEW e \in batch
                 PROVE InBatch(e.seq, i) /\ (e.seq \in nv.batched <=> kafka[i].via = "batch")
    BY SeqsFacts
  <2>2. CASE kafka[i].via = "batch"
    BY <1>2, <2>1, <2>2, SeqsFacts
  <2>3. CASE kafka[i].via # "batch"
    <3>1. SUFFICES ASSUME e.seq \in lv.batched PROVE FALSE
      BY <1>2, <2>3
    <3>2. lv.last <= Max({lv.last, base}) /\ Max({lv.last, base}) \in Nat
      BY <1>3, MaxPair
    <3>3. e.seq <= lv.last /\ e.seq \in Nat
      BY <1>3, <3>1 DEF SentAs
    <3>4. e.seq <= Max({lv.last, base})
      BY <1>3, <3>2, <3>3
    <3> QED BY <2>3, <3>1, <3>4 DEF CanAppendLive
  <2> QED BY <2>2, <2>3
<1>6. \A s \in Seqs(nv.events) : s \in Seqs(batch) \/ (s \in Seqs(lv.events)
                                                        /\ (s \in nv.batched <=> s \in lv.batched))
  <2>1. Seqs(nv.events) = Seqs(lv.events) \cup Seqs(batch)
    BY <1>2, SeqsFacts
  <2> QED BY <1>2, <2>1
<1> QED BY <1>1, <1>4, <1>5, <1>6 DEF SentAs

(* The floor is below what was not trimmed.                                *)
LEMMA NotGone ==
  ASSUME PipeInv, FloorOK, NEW s \in Nat, ~Gone(s), 1 <= s
  PROVE ~live.lost /\ db.floor < s /\ ~Excused(s)
<1>1. ~live.lost /\ \A f \in Fences : jobs[f] \in {"trimmed", "again", "done"} => ~(s <= TerminalOf(f))
  BY DEF Gone
<1>2. ~Excused(s)
  BY <1>1 DEF Excused
<1>3. db.floor < s
  <2>1. CASE db.floor = 0
    BY <2>1
  <2>2. CASE db.floor # 0
    <3>1. PICK f \in Fences : jobs[f] = "done" /\ TerminalOf(f) = db.floor
      BY <2>2 DEF FloorOK
    <3>2. ~(s <= db.floor)
      BY <1>1, <3>1
    <3> QED BY <3>2, Numbers DEF PipeInv
  <2> QED BY <2>1, <2>2
<1> QED BY <1>1, <1>2, <1>3

(* What has to be projected next is not ahead of the projection: the       *)
(* events between them are in no batch behind the projector, and not in    *)
(* one after it either.                                                    *)
LEMMA NextEnvelope ==
  ASSUME PipeInv, BatchesInOrder, CanProject
  PROVE /\ external /\ proj.pos = proj.stored + 1 /\ proj.pos \in DOMAIN kafka
        /\ Envelope.lo \in Nat /\ Envelope.hi \in Nat /\ Envelope.by \in Fences
        /\ 1 <= Envelope.lo /\ Envelope.lo <= Envelope.hi /\ Envelope.hi <= db.persisted
        /\ Envelope.lo <= db.projected + 1
<1>1. /\ proj.pos \in DOMAIN kafka /\ proj.pos > proj.stored /\ Envelope.hi <= db.persisted
      /\ Envelope = kafka[proj.pos]
  BY DEF CanProject, Envelope
<1>2. external /\ proj.pos = proj.stored + 1
  <2>1. kafka # << >>
    BY <1>1, Numbers DEF PipeInv
  <2> QED BY <1>1, <2>1, ProjectorFacts DEF PipeInv, KafkaOK
<1>3. /\ Envelope.lo \in Nat /\ Envelope.hi \in Nat /\ Envelope.by \in Fences
      /\ 1 <= Envelope.lo /\ Envelope.lo <= Envelope.hi
  BY <1>1, BatchNumbers
<1>4. Envelope.lo <= db.projected + 1
  <2>1. SUFFICES ASSUME db.projected + 1 < Envelope.lo PROVE FALSE
    BY <1>3, Numbers DEF PipeInv
  <2>2. PICK s \in Nat : s = db.projected + 1
    BY Numbers DEF PipeInv
  <2>3. s \in 1..db.persisted /\ s \notin Terminals
    <3>1. \A t \in Terminals : t <= db.projected
      BY DEF PipeInv, CursorsOK
    <3>2. db.projected \in Nat /\ db.persisted \in Nat
      BY Numbers DEF PipeInv
    <3>3. s <= db.persisted /\ 1 <= s
      BY <1>1, <1>3, <2>1, <2>2, <3>2
    <3>4. s \notin Terminals
      BY <2>2, <3>1, <3>2
    <3> QED BY <3>2, <3>3, <3>4
  <2>4. PICK i \in DOMAIN kafka : InBatch(s, i)
    BY <1>2, <2>3 DEF PipeInv, KafkaOK
  <2>5. kafka[i].lo <= s /\ s <= kafka[i].hi
    BY <2>4 DEF InBatch
  <2>6. ~(i \in 1..proj.stored)
    <3>1. SUFFICES ASSUME i \in 1..proj.stored PROVE FALSE
      OBVIOUS
    <3>2. kafka[i].hi <= db.projected
      BY <3>1 DEF BatchesInOrder
    <3>3. kafka[i].hi \in Nat /\ db.projected \in Nat
      BY BatchNumbers, Numbers DEF PipeInv
    <3> QED BY <2>2, <2>5, <3>2, <3>3
  <2>7. proj.pos <= i
    BY <1>2, <2>6, ProjectorFacts, Numbers DEF PipeInv
  <2>8. kafka[proj.pos].lo <= kafka[i].lo
    BY <1>1, <2>7 DEF BatchesInOrder
  <2>9. kafka[i].lo \in Nat /\ Envelope.lo <= kafka[i].lo
    BY <1>1, <2>8, BatchNumbers
  <2> QED BY <1>3, <2>1, <2>2, <2>5, <2>9
<1> QED BY <1>1, <1>2, <1>3, <1>4

(* An event at s in the live store is the accepted one.                    *)
LEMMA LiveAt ==
  ASSUME PipeInv, ~Orphaned, NEW s, s <= db.persisted, s \in Seqs(live.events)
  PROVE EventAt(s) \in live.events
<1>1. PICK e \in live.events : e.seq = s
  BY SeqsFacts
<1>2. e = EventAt(e.seq)
  BY <1>1, LiveIsAccepted
<1> QED BY <1>1, <1>2

(* The projector can take the envelope before it, unless a batch was       *)
(* orphaned or cut again, or Valkey no longer has what was redelivered:    *)
(* what is redelivered and what a rolled-back projection left behind are   *)
(* found as they are.                                                      *)
LEMMA ProjectorWorks ==
  ASSUME PipeInv, BatchesInOrder, FloorOK, AheadOK, SentOK, CanProject,
         ~Orphaned, ~Recut, ~Gone(Envelope.lo)
  PROVE Projectable
<1>1. /\ external /\ proj.pos \in DOMAIN kafka
      /\ Envelope.lo \in Nat /\ Envelope.hi \in Nat /\ Envelope.by \in Fences
      /\ 1 <= Envelope.lo /\ Envelope.lo <= Envelope.hi /\ Envelope.hi <= db.persisted
      /\ Envelope.lo <= db.projected + 1 /\ Envelope = kafka[proj.pos]
  BY NextEnvelope DEF Envelope
<1>2. /\ db.projected \in Nat /\ db.persisted \in Nat /\ live.last \in Nat /\ db.floor \in Nat
      /\ db.projected <= db.persisted /\ live.events \subseteq Events
  BY Numbers DEF PipeInv, CursorsOK, PipeTypes
<1>3. \A s \in Envelope.lo..Envelope.hi : log[s] = Entry(Envelope.by, "worker")
  BY <1>1, <1>2, NotOrphaned
<1>4. ~live.lost /\ db.floor < Envelope.lo
      /\ \A f \in Fences : jobs[f] \in {"trimmed", "again"} => ~(Envelope.lo <= TerminalOf(f))
  BY <1>1, NotGone DEF Gone
<1>5. Redelivered \subseteq live.events
  <2>1. SUFFICES ASSUME NEW e \in Redelivered PROVE e \in live.events
    OBVIOUS
  <2> DEFINE top == Min({Envelope.hi, db.projected})
  <2>2. top \in Nat /\ top <= Envelope.hi /\ top <= db.projected
    BY <1>1, <1>2, MinPair
  <2>3. Redelivered = Batch(Envelope.by, Envelope.lo, top)
    BY DEF Redelivered
  <2> HIDE DEF top
  <2>4. e.seq \in Envelope.lo..top /\ e = Event(e.seq, Entry(Envelope.by, "worker"))
    BY <2>1, <2>3, BatchFacts
  <2>5. PICK s \in Nat : s = e.seq
    BY <1>1, <2>2, <2>4
  <2>6. s \in Envelope.lo..Envelope.hi /\ s \in (db.floor + 1)..db.projected /\ s <= db.persisted
    BY <1>1, <1>2, <1>4, <2>2, <2>4, <2>5
  <2>7. e = EventAt(s) /\ log[s].kind = "worker"
    BY <1>3, <2>4, <2>5, <2>6 DEF EventAt, Entry
  <2>8. s \notin Terminals
    BY <2>7 DEF Terminals
  <2>9. ~Excused(s)
    <3>1. SUFFICES ASSUME NEW f \in Fences, jobs[f] \in {"trimmed", "again"}, s <= TerminalOf(f) PROVE FALSE
      BY DEF Excused
    <3>2. TerminalOf(f) \in Nat
      <4>1. Settled(f)
        BY <3>1 DEF PipeInv, CursorsOK, None
      <4>2. TerminalOf(f) \in Terminals
        BY <4>1, TerminalUnique
      <4> QED BY <4>2, Numbers DEF PipeInv, Terminals
    <3>3. Envelope.lo <= TerminalOf(f)
      BY <1>1, <2>6, <3>1, <3>2
    <3> QED BY <1>4, <3>1, <3>3
  <2>10. s \in Seqs(live.events)
    BY <1>1, <1>4, <2>6, <2>8, <2>9 DEF PipeInv, LiveOK
  <2> QED BY <2>6, <2>7, <2>10, LiveAt
<1>6. ASSUME Fresh # {} PROVE CanAppendLive(live, db.projected, Fresh, Envelope.via)
  <2> DEFINE a == Max({Envelope.lo, db.projected + 1})
  <2>1. PICK p \in Nat : p = db.projected + 1
    BY <1>2
  <2>2. a = p
    <3>1. Max({Envelope.lo, p}) \in {Envelope.lo, p} /\ Envelope.lo <= Max({Envelope.lo, p}) /\ p <= Max({Envelope.lo, p})
      BY <1>1, <2>1, MaxPair
    <3> QED BY <1>1, <2>1, <3>1
  <2>3. Fresh = Batch(Envelope.by, p, Envelope.hi)
    BY <2>2 DEF Fresh
  <2> HIDE DEF a
  <2>4. /\ \A e \in Fresh : e.seq \in p..Envelope.hi /\ e = Event(e.seq, Entry(Envelope.by, "worker"))
        /\ \A s \in p..Envelope.hi : s \in Seqs(Fresh)
    BY <2>3, BatchFacts
  <2>5. p <= Envelope.hi
    BY <1>1, <1>6, <2>1, <2>4
  <2>6. \A s \in Seqs(Fresh) : s \in p..Envelope.hi
    BY <2>4, SeqsFacts
  <2>7. p \in Seqs(Fresh) /\ Envelope.hi \in Seqs(Fresh)
    BY <1>1, <2>1, <2>4, <2>5
  <2>8. Max(Seqs(Fresh)) = Envelope.hi
    <3>1. Seqs(Fresh) \subseteq Nat /\ Seqs(Fresh) # {} /\ \A x \in Seqs(Fresh) : x <= Envelope.hi
      BY <1>1, <2>1, <2>6, <2>7
    <3>2. Max(Seqs(Fresh)) \in Seqs(Fresh) /\ \A x \in Seqs(Fresh) : x <= Max(Seqs(Fresh))
      BY <1>1, <3>1, MaxNat
    <3>3. PICK mx \in Nat : mx = Max(Seqs(Fresh))
      BY <3>1, <3>2
    <3>4. mx <= Envelope.hi
      BY <3>1, <3>2, <3>3
    <3>5. Envelope.hi <= mx
      BY <2>7, <3>2, <3>3
    <3> QED BY <1>1, <3>3, <3>4, <3>5
  <2>9. Min(Seqs(Fresh)) = p
    <3>1. \A x \in Seqs(Fresh) : p <= x
      BY <1>1, <2>1, <2>6
    <3>2. Min(Seqs(Fresh)) \in Seqs(Fresh) /\ \A x \in Seqs(Fresh) : Min(Seqs(Fresh)) <= x
      BY <2>7, <3>1 DEF Min
    <3>3. Seqs(Fresh) \subseteq Nat
      BY <2>6
    <3>4. PICK mn \in Nat : mn = Min(Seqs(Fresh))
      BY <3>2, <3>3
    <3>5. mn <= p
      BY <2>7, <3>2, <3>4
    <3>6. p <= mn
      BY <3>1, <3>2, <3>4
    <3> QED BY <3>4, <3>5, <3>6
  <2> DEFINE last == Max({live.last, db.projected})
  <2>10. last \in {live.last, db.projected} /\ live.last <= last /\ db.projected <= last /\ last \in Nat
    BY <1>2, MaxPair
  <2> HIDE DEF last
  <2>11. live.last > db.projected => Envelope.hi <= live.last
    <3>1. SUFFICES ASSUME live.last > db.projected, live.last < Envelope.hi PROVE FALSE
      BY <1>1, <1>2
    <3>2. PICK k \in DOMAIN kafka : kafka[k].hi = live.last
      BY <3>1 DEF AheadOK
    <3>3. kafka[k].lo \in Nat /\ kafka[k].hi \in Nat /\ kafka[k].lo <= kafka[k].hi
      BY BatchNumbers
    <3>4. kafka[k].lo <= Envelope.hi /\ Envelope.lo <= kafka[k].hi
      BY <1>1, <1>2, <3>1, <3>2, <3>3
    <3> QED BY <1>1, <1>2, <3>1, <3>2, <3>4, NotRecut
  <2>12. \A e \in Fresh : e.seq <= last => /\ e \in live.events
                                            /\ (e.seq \in live.batched <=> Envelope.via = "batch")
    <3>1. SUFFICES ASSUME NEW e \in Fresh, e.seq <= last
                   PROVE e \in live.events /\ (e.seq \in live.batched <=> Envelope.via = "batch")
      OBVIOUS
    <3>2. PICK s \in Nat : s = e.seq
      BY <1>1, <2>1, <2>4
    <3>3. s \in p..Envelope.hi /\ e = Event(s, Entry(Envelope.by, "worker"))
      BY <2>4, <3>2
    <3>4. s \in (db.projected + 1)..live.last
      BY <1>2, <2>1, <2>10, <3>1, <3>2, <3>3
    <3>5. s \in Seqs(live.events)
      BY <3>4 DEF AheadOK
    <3>6. s \in Envelope.lo..Envelope.hi /\ s <= db.persisted
      BY <1>1, <1>2, <2>1, <3>3
    <3>7. e = EventAt(s)
      BY <1>3, <3>3, <3>6 DEF EventAt
    <3>8. PICK k \in DOMAIN kafka : InBatch(s, k) /\ (s \in live.batched <=> kafka[k].via = "batch")
      BY <3>5 DEF SentOK, SentAs
    <3>9. kafka[k].lo \in Nat /\ kafka[k].hi \in Nat
      BY BatchNumbers
    <3>10. kafka[k].lo <= Envelope.hi /\ Envelope.lo <= kafka[k].hi
      BY <1>1, <3>6, <3>8, <3>9 DEF InBatch
    <3>11. kafka[k].via = Envelope.via
      BY <1>1, <3>10, NotRecut
    <3> QED BY <3>2, <3>5, <3>6, <3>7, <3>8, <3>11, LiveAt
  <2>13. p <= last + 1
    BY <1>2, <2>1, <2>10
  <2> QED BY <2>8, <2>9, <2>11, <2>12, <2>13 DEF CanAppendLive, last
<1> QED BY <1>1, <1>5, <1>6 DEF Projectable

(* Where a rebuild ends: at the last event of some batch it restored.      *)
RebuildEnds(n) ==
  \/ Rebuild[n].last = 0 /\ (~Rebuild[n].lost => \A i \in 1..n : Restored(i) = {})
  \/ /\ \E i \in 1..n : \E x \in Restored(i) : x.seq = Rebuild[n].last
                                               /\ \A y \in Restored(i) : y.seq <= x.seq
     /\ ~Rebuild[n].lost => \A i \in 1..n : \A y \in Restored(i) : y.seq <= Rebuild[n].last

(* What is restored of a batch.                                            *)
LEMMA RestoredFacts ==
  ASSUME PipeInv, NEW i \in DOMAIN kafka
  PROVE /\ Restored(i) \subseteq Events
        /\ \A x \in Restored(i) : /\ x.seq \in Nat /\ 1 <= x.seq /\ InBatch(x.seq, i)
                                  /\ db.floor < x.seq /\ x.seq <= db.persisted
                                  /\ x = Event(x.seq, Entry(kafka[i].by, "worker"))
        /\ \A s : InBatch(s, i) /\ db.floor < s /\ s <= db.persisted
                  => Event(s, Entry(kafka[i].by, "worker")) \in Restored(i)
<1>1. PICK e : e = kafka[i]
  OBVIOUS
<1>2. e.lo \in Nat /\ e.hi \in Nat /\ e.by \in Fences /\ 1 <= e.lo /\ e.lo <= e.hi
  BY <1>1, BatchNumbers
<1>3. db.floor \in Nat /\ db.persisted \in Nat
  BY Numbers DEF PipeInv
<1>4. /\ \A x \in Batch(e.by, e.lo, e.hi) : x.seq \in e.lo..e.hi /\ x = Event(x.seq, Entry(e.by, "worker"))
      /\ \A s \in e.lo..e.hi : Event(s, Entry(e.by, "worker")) \in Batch(e.by, e.lo, e.hi)
      /\ Batch(e.by, e.lo, e.hi) \subseteq Events
  BY <1>2, BatchFacts
<1>5. Restored(i) = {x \in Batch(e.by, e.lo, e.hi) : x.seq > db.floor /\ x.seq <= db.persisted}
  BY <1>1 DEF Restored
<1>6. \A x \in Restored(i) : /\ x.seq \in Nat /\ 1 <= x.seq /\ x.seq \in e.lo..e.hi
                             /\ db.floor < x.seq /\ x.seq <= db.persisted
                             /\ x = Event(x.seq, Entry(e.by, "worker"))
  BY <1>2, <1>3, <1>4, <1>5
<1>7. ASSUME NEW s \in e.lo..e.hi, db.floor < s, s <= db.persisted
      PROVE Event(s, Entry(e.by, "worker")) \in Restored(i)
  <2>1. Event(s, Entry(e.by, "worker")).seq = s
    BY DEF Event
  <2> QED BY <1>2, <1>3, <1>4, <1>5, <1>7, <2>1
<1> QED BY <1>1, <1>4, <1>5, <1>6, <1>7 DEF InBatch

(* The numbers of a batch that has something to restore.                   *)
LEMMA RestoredNumbers ==
  ASSUME PipeInv, NEW i \in DOMAIN kafka, Restored(i) # {}
  PROVE /\ Min(Seqs(Restored(i))) \in Seqs(Restored(i)) /\ Max(Seqs(Restored(i))) \in Seqs(Restored(i))
        /\ Seqs(Restored(i)) \subseteq Nat \ {0}
        /\ \A s \in Seqs(Restored(i)) : Min(Seqs(Restored(i))) <= s /\ s <= Max(Seqs(Restored(i)))
<1>1. PICK S : S = Seqs(Restored(i))
  OBVIOUS
<1>2. PICK top \in Nat : top = kafka[i].hi
  BY BatchNumbers
<1>3. /\ S # {} /\ S \subseteq Nat \ {0} /\ \A s \in S : s <= top
  <2>1. \A x \in Restored(i) : x.seq \in Nat /\ 1 <= x.seq /\ x.seq <= top
    BY <1>2, RestoredFacts, BatchNumbers DEF InBatch
  <2> QED BY <1>1, <2>1 DEF Seqs
<1>4. \E x \in S : \A y \in S : x <= y
  BY <1>3, LeastNat
<1>5. Min(S) \in S /\ \A s \in S : Min(S) <= s
  BY <1>4 DEF Min
<1>6. Max(S) \in S /\ \A s \in S : s <= Max(S)
  BY <1>3, MaxNat
<1> QED BY <1>1, <1>3, <1>5, <1>6

(* One step of a rebuild, with the numbers of its batch.                   *)
LEMMA RebuildStepIs ==
  ASSUME PipeInv, NEW i \in DOMAIN kafka, NEW lv \in Lives
  PROVE RebuildStep(lv, kafka[i]) =
          IF lv.lost \/ Restored(i) = {} THEN lv
          ELSE IF CanAppendLive(lv, Min(Seqs(Restored(i))) - 1, Restored(i), kafka[i].via)
               THEN AppendLive(lv, Min(Seqs(Restored(i))) - 1, Restored(i), kafka[i].via)
               ELSE [lv EXCEPT !.lost = TRUE]
  BY DEF RebuildStep, Restored

(* A rebuild ends there after every batch.                                 *)
LEMMA RebuildEndsAt ==
  ASSUME PipeInv
  PROVE \A n \in 0..Len(kafka) : RebuildEnds(n)
<1>1. Len(kafka) \in Nat /\ DOMAIN kafka = 1..Len(kafka)
  BY Numbers DEF PipeInv
<1> DEFINE T == {n \in 0..Len(kafka) : ~RebuildEnds(n)}
<1>2. SUFFICES ASSUME T # {} PROVE FALSE
  OBVIOUS
<1>3. PICK n \in T : \A k \in T : n <= k
  <2>1. T \subseteq Nat
    BY <1>1
  <2> QED BY <2>1, <1>2, LeastNat
<1>4. n \in 0..Len(kafka) /\ ~RebuildEnds(n)
  OBVIOUS
<1>5. n # 0
  <2>1. Rebuild[0] = EmptyLive
    BY <1>1, RebuildAt
  <2>2. EmptyLive.last = 0
    BY DEF EmptyLive
  <2>3. RebuildEnds(0)
    BY <2>1, <2>2 DEF RebuildEnds
  <2> QED BY <2>3, <1>4
<1>6. n \in 1..Len(kafka) /\ n \in DOMAIN kafka /\ n - 1 \in 0..Len(kafka) /\ ~(n <= n - 1)
  BY <1>1, <1>4, <1>5
<1>7. RebuildEnds(n - 1)
  BY <1>3, <1>6
<1>8. Rebuild[n] = RebuildStep(Rebuild[n - 1], kafka[n])
  BY <1>1, <1>6, RebuildAt
<1>9. PICK lv : lv = Rebuild[n - 1]
  OBVIOUS
<1>10. PICK nv : nv = Rebuild[n]
  OBVIOUS
<1>11. lv \in Lives
  BY <1>6, <1>9, RebuildFacts DEF RebuiltUpto
<1>12. nv = IF lv.lost \/ Restored(n) = {} THEN lv
            ELSE IF CanAppendLive(lv, Min(Seqs(Restored(n))) - 1, Restored(n), kafka[n].via)
                 THEN AppendLive(lv, Min(Seqs(Restored(n))) - 1, Restored(n), kafka[n].via)
                 ELSE [lv EXCEPT !.lost = TRUE]
  BY <1>6, <1>8, <1>9, <1>10, <1>11, RebuildStepIs
<1>13. \A i \in 1..n : i \in 1..(n - 1) \/ i = n
  BY <1>6
<1>14. \A i \in 1..(n - 1) : i \in 1..n
  BY <1>6
<1>15. \/ lv.last = 0 /\ (~lv.lost => \A i \in 1..(n - 1) : Restored(i) = {})
       \/ /\ \E i \in 1..(n - 1) : \E x \in Restored(i) : x.seq = lv.last /\ \A y \in Restored(i) : y.seq <= x.seq
          /\ ~lv.lost => \A i \in 1..(n - 1) : \A y \in Restored(i) : y.seq <= lv.last
  BY <1>7, <1>9 DEF RebuildEnds
<1>16. SUFFICES \/ nv.last = 0 /\ (~nv.lost => \A i \in 1..n : Restored(i) = {})
                \/ /\ \E i \in 1..n : \E x \in Restored(i) : x.seq = nv.last /\ \A y \in Restored(i) : y.seq <= x.seq
                   /\ ~nv.lost => \A i \in 1..n : \A y \in Restored(i) : y.seq <= nv.last
  BY <1>4, <1>10 DEF RebuildEnds
<1>17. CASE lv.lost
  <2>1. nv = lv
    BY <1>12, <1>17
  <2> QED BY <1>14, <1>15, <1>17, <2>1
<1>18. CASE ~lv.lost /\ Restored(n) = {}
  <2>1. nv = lv
    BY <1>12, <1>18
  <2>2. CASE lv.last = 0 /\ \A i \in 1..(n - 1) : Restored(i) = {}
    BY <1>13, <1>18, <2>1, <2>2
  <2>3. CASE /\ \E i \in 1..(n - 1) : \E x \in Restored(i) : x.seq = lv.last /\ \A y \in Restored(i) : y.seq <= x.seq
             /\ \A i \in 1..(n - 1) : \A y \in Restored(i) : y.seq <= lv.last
    <3>1. \A i \in 1..n : \A y \in Restored(i) : y.seq <= lv.last
      BY <1>13, <1>18, <2>3
    <3> QED BY <1>14, <2>1, <2>3, <3>1
  <2> QED BY <1>15, <1>18, <2>2, <2>3
<1>19. CASE ~lv.lost /\ Restored(n) # {}
  <2>1. PICK S : S = Seqs(Restored(n))
    OBVIOUS
  <2>2. PICK a \in Nat, b \in Nat, base \in Nat :
          /\ a = Min(S) /\ b = Max(S) /\ a \in S /\ b \in S /\ base = a - 1
          /\ \A s \in S : a <= s /\ s <= b
    <3>1. Min(S) \in Nat \ {0} /\ Max(S) \in Nat /\ Min(S) \in S /\ Max(S) \in S
          /\ \A s \in S : Min(S) <= s /\ s <= Max(S)
      BY <1>6, <1>19, <2>1, RestoredNumbers
    <3>2. Min(S) - 1 \in Nat
      BY <3>1
    <3> QED BY <3>1, <3>2
  <2>3. CASE ~CanAppendLive(lv, base, Restored(n), kafka[n].via)
    <3>1. nv = [lv EXCEPT !.lost = TRUE]
      BY <1>12, <1>19, <2>1, <2>2, <2>3
    <3>2. nv.last = lv.last /\ nv.lost
      BY <1>11, <3>1 DEF Lives
    <3> QED BY <1>14, <1>15, <3>2
  <2>4. CASE CanAppendLive(lv, base, Restored(n), kafka[n].via)
    <3>1. nv = AppendLive(lv, base, Restored(n), kafka[n].via)
      BY <1>12, <1>19, <2>1, <2>2, <2>4
    <3>2. Restored(n) \in SUBSET Events /\ \A y \in Restored(n) : y.seq \in S /\ y.seq <= b
      BY <1>6, <2>1, <2>2, RestoredFacts, SeqsFacts
    <3>3. /\ lv.last <= nv.last /\ \A y \in Restored(n) : y.seq <= nv.last
          /\ nv.last \in {lv.last, base} \cup S /\ nv.lost = lv.lost
      BY <1>11, <2>1, <2>2, <3>1, <3>2, AppendLiveFacts
    <3>4. lv.last \in Nat /\ nv.last \in Nat
      <4>1. S \subseteq Nat
        BY <1>6, <1>19, <2>1, RestoredNumbers
      <4> QED BY <1>11, <2>2, <3>3, <4>1 DEF Lives
    <3>5. PICK z \in Restored(n) : z.seq = b
      BY <2>1, <2>2, SeqsFacts
    <3>6. b <= nv.last
      BY <3>3, <3>5
    <3>7. nv.last = lv.last \/ nv.last = b
      BY <2>2, <3>3, <3>4, <3>6
    <3>8. \A i \in 1..n : \A y \in Restored(i) : y.seq <= nv.last
      <4>1. ASSUME NEW i \in 1..(n - 1), NEW y \in Restored(i) PROVE y.seq <= nv.last
        <5>1. y.seq <= lv.last
          BY <1>15, <1>19, <4>1
        <5>2. y.seq \in Nat
          <6>1. i \in DOMAIN kafka
            BY <1>1, <1>6
          <6> QED BY <4>1, <6>1, RestoredFacts
        <5> QED BY <3>3, <3>4, <5>1, <5>2
      <4> QED BY <1>13, <3>3, <4>1
    <3>9. CASE nv.last = b
      <4>1. n \in 1..n /\ \A y \in Restored(n) : y.seq <= z.seq
        BY <1>6, <3>2, <3>5
      <4> QED BY <3>5, <3>8, <3>9, <4>1
    <3>10. CASE nv.last = lv.last /\ nv.last # b
      <4>1. lv.last # 0
        BY <2>2, <3>4, <3>6, <3>10
      <4> QED BY <1>14, <1>15, <3>8, <3>10, <4>1
    <3> QED BY <3>7, <3>9, <3>10
  <2> QED BY <2>3, <2>4
<1> QED BY <1>17, <1>18, <1>19

(* What a rebuild restores has the digests of the broker's batches.        *)
LEMMA RebuildSent ==
  ASSUME PipeInv
  PROVE \A n \in 0..Len(kafka) : SentAs(Rebuild[n])
<1>1. Len(kafka) \in Nat /\ DOMAIN kafka = 1..Len(kafka)
  BY Numbers DEF PipeInv
<1> DEFINE T == {n \in 0..Len(kafka) : ~SentAs(Rebuild[n])}
<1>2. SUFFICES ASSUME T # {} PROVE FALSE
  OBVIOUS
<1>3. PICK n \in T : \A k \in T : n <= k
  <2>1. T \subseteq Nat
    BY <1>1
  <2> QED BY <2>1, <1>2, LeastNat
<1>4. n \in 0..Len(kafka) /\ ~SentAs(Rebuild[n])
  OBVIOUS
<1>5. n # 0
  <2>1. Rebuild[0] = EmptyLive
    BY <1>1, RebuildAt
  <2>2. EmptyLive.batched = {} /\ Seqs(EmptyLive.events) = {}
    BY SeqsFacts DEF EmptyLive
  <2>3. SentAs(EmptyLive)
    BY <2>2 DEF SentAs
  <2> QED BY <1>4, <2>1, <2>3
<1>6. n \in 1..Len(kafka) /\ n \in DOMAIN kafka /\ n - 1 \in 0..Len(kafka) /\ ~(n <= n - 1)
  BY <1>1, <1>4, <1>5
<1>7. SentAs(Rebuild[n - 1])
  BY <1>3, <1>6
<1>8. PICK lv : lv = Rebuild[n - 1]
  OBVIOUS
<1>9. lv \in Lives /\ SentAs(lv)
  BY <1>6, <1>7, <1>8, RebuildFacts DEF RebuiltUpto
<1>10. Rebuild[n] = RebuildStep(lv, kafka[n])
  BY <1>1, <1>6, <1>8, RebuildAt
<1> DEFINE batch == Restored(n)
           base == Min(Seqs(batch)) - 1
<1>11. RebuildStep(lv, kafka[n]) =
         IF lv.lost \/ batch = {} THEN lv
         ELSE IF CanAppendLive(lv, base, batch, kafka[n].via) THEN AppendLive(lv, base, batch, kafka[n].via)
         ELSE [lv EXCEPT !.lost = TRUE]
  BY <1>6, <1>9, RebuildStepIs
<1>12. batch \in SUBSET Events /\ \A e \in batch : InBatch(e.seq, n)
  BY <1>6, RestoredFacts
<1>13. batch # {} => base \in Nat
  <2>1. batch # {} => Min(Seqs(batch)) \in Nat \ {0}
    BY <1>6, RestoredNumbers
  <2> HIDE DEF batch
  <2> QED BY <2>1
<1> HIDE DEF batch, base
<1>14. SentAs(RebuildStep(lv, kafka[n]))
  <2>1. CASE lv.lost \/ batch = {}
    BY <1>9, <1>11, <2>1
  <2>2. CASE ~(lv.lost \/ batch = {}) /\ CanAppendLive(lv, base, batch, kafka[n].via)
    BY <1>6, <1>9, <1>11, <1>12, <1>13, <2>2, AppendSent
  <2>3. CASE ~(lv.lost \/ batch = {}) /\ ~CanAppendLive(lv, base, batch, kafka[n].via)
    <3>1. RebuildStep(lv, kafka[n]) = [lv EXCEPT !.lost = TRUE]
      BY <1>11, <2>3
    <3>2. /\ RebuildStep(lv, kafka[n]).events = lv.events
          /\ RebuildStep(lv, kafka[n]).batched = lv.batched
          /\ RebuildStep(lv, kafka[n]).last = lv.last
      BY <1>9, <3>1 DEF Lives
    <3> QED BY <1>9, <3>2 DEF SentAs
  <2> QED BY <2>1, <2>2, <2>3
<1> QED BY <1>4, <1>10, <1>14

(* No batch is refused by a rebuild, unless one was orphaned or cut again: *)
(* what a batch shares with those before it is there already, and a batch  *)
(* that shares something ends where they end.                              *)
LEMMA RebuildTakesAll ==
  ASSUME PipeInv, BatchesInOrder, ~Orphaned, ~Recut
  PROVE \A n \in 0..Len(kafka) : ~Rebuild[n].lost
<1>1. Len(kafka) \in Nat /\ DOMAIN kafka = 1..Len(kafka) /\ db.persisted \in Nat /\ db.floor \in Nat
  BY Numbers DEF PipeInv
<1> DEFINE T == {n \in 0..Len(kafka) : Rebuild[n].lost}
<1>2. SUFFICES ASSUME T # {} PROVE FALSE
  OBVIOUS
<1>3. PICK n \in T : \A k \in T : n <= k
  <2>1. T \subseteq Nat
    BY <1>1
  <2> QED BY <2>1, <1>2, LeastNat
<1>4. n \in 0..Len(kafka) /\ Rebuild[n].lost
  OBVIOUS
<1>5. n # 0
  <2>1. Rebuild[0] = EmptyLive
    BY <1>1, RebuildAt
  <2> QED BY <1>4, <2>1 DEF EmptyLive
<1>6. n \in 1..Len(kafka) /\ n \in DOMAIN kafka /\ n - 1 \in 0..Len(kafka) /\ ~(n <= n - 1)
  BY <1>1, <1>4, <1>5
<1>7. ~Rebuild[n - 1].lost
  BY <1>3, <1>6
<1>8. PICK lv : lv = Rebuild[n - 1]
  OBVIOUS
<1>9. /\ lv \in Lives /\ ~lv.lost /\ SentAs(lv)
      /\ \A i \in 1..(n - 1) : Restored(i) \subseteq lv.events
  BY <1>6, <1>7, <1>8, RebuildFacts, RebuildSent DEF RebuiltUpto
<1>10. \/ lv.last = 0 /\ \A i \in 1..(n - 1) : Restored(i) = {}
       \/ \E i \in 1..(n - 1) : \E x \in Restored(i) : x.seq = lv.last /\ \A y \in Restored(i) : y.seq <= x.seq
  BY <1>6, <1>7, <1>8, RebuildEndsAt DEF RebuildEnds
<1>11. Rebuild[n] = RebuildStep(lv, kafka[n])
  BY <1>1, <1>6, <1>8, RebuildAt
<1> DEFINE batch == Restored(n)
           base == Min(Seqs(batch)) - 1
<1>12. batch # {} /\ ~CanAppendLive(lv, base, batch, kafka[n].via)
  <2>1. Rebuild[n] = IF lv.lost \/ batch = {} THEN lv
                     ELSE IF CanAppendLive(lv, base, batch, kafka[n].via) THEN AppendLive(lv, base, batch, kafka[n].via)
                     ELSE [lv EXCEPT !.lost = TRUE]
    BY <1>6, <1>9, <1>11, RebuildStepIs
  <2>2. CanAppendLive(lv, base, batch, kafka[n].via) => AppendLive(lv, base, batch, kafka[n].via).lost = lv.lost
    BY <1>9 DEF AppendLive, Lives
  <2> HIDE DEF batch, base
  <2> QED BY <1>4, <1>9, <2>1, <2>2
<1>13. PICK S : S = Seqs(batch)
  OBVIOUS
<1>14. /\ Min(S) \in S /\ Max(S) \in S /\ S \subseteq Nat \ {0}
       /\ \A s \in S : Min(S) <= s /\ s <= Max(S)
  BY <1>6, <1>12, <1>13, RestoredNumbers
<1>15. PICK e : e = kafka[n]
  OBVIOUS
<1>16. e.lo \in Nat /\ e.hi \in Nat /\ e.by \in Fences
  BY <1>6, <1>15, BatchNumbers
<1>17. \A x \in batch : /\ x.seq \in S /\ x.seq \in Nat /\ e.lo <= x.seq /\ x.seq <= e.hi
                        /\ db.floor < x.seq /\ x.seq <= db.persisted
                        /\ x = Event(x.seq, Entry(e.by, "worker"))
  <2>1. \A x \in batch : x.seq \in S
    BY <1>13, SeqsFacts
  <2>2. \A x \in batch : /\ x.seq \in Nat /\ InBatch(x.seq, n)
                         /\ db.floor < x.seq /\ x.seq <= db.persisted
                         /\ x = Event(x.seq, Entry(e.by, "worker"))
    BY <1>6, <1>15, RestoredFacts
  <2> HIDE DEF batch
  <2> QED BY <1>15, <2>1, <2>2 DEF InBatch
<1>18. \A s \in S : \E x \in batch : x.seq = s
  BY <1>13, SeqsFacts
<1> HIDE DEF batch
<1>19. PICK a \in Nat, b \in Nat, c \in Nat :
         a = Min(S) /\ b = Max(S) /\ c = base /\ a = c + 1 /\ a \in S /\ b \in S /\ a <= b
  <2>1. PICK a \in Nat \ {0}, b \in Nat : a = Min(S) /\ b = Max(S)
    BY <1>14
  <2>2. a - 1 \in Nat /\ base = a - 1
    BY <1>13, <2>1
  <2> QED BY <1>14, <2>1, <2>2
<1>20. lv.last \in Nat
  BY <1>9 DEF Lives
<1>21. /\ e.lo <= a /\ b <= e.hi /\ b <= db.persisted /\ db.floor < a
  BY <1>17, <1>18, <1>19
(* What the batch has of what is there already.                            *)
<1>22. ASSUME c < lv.last
       PROVE \E i \in 1..(n - 1) : /\ kafka[i].lo <= a /\ lv.last <= kafka[i].hi
                                   /\ lv.last < b => kafka[i].hi = lv.last
  <2>1. lv.last # 0
    BY <1>22
  <2>2. PICK i \in 1..(n - 1) : \E x \in Restored(i) : x.seq = lv.last /\ \A y \in Restored(i) : y.seq <= x.seq
    BY <1>10, <2>1
  <2>8. PICK x \in Restored(i) : x.seq = lv.last /\ \A y \in Restored(i) : y.seq <= x.seq
    BY <2>2
  <2>3. i \in DOMAIN kafka /\ i <= n
    BY <1>1, <1>6
  <2>4. kafka[i].lo <= e.lo /\ kafka[i].lo \in Nat /\ kafka[i].hi \in Nat
    BY <1>6, <1>15, <2>3, BatchNumbers DEF BatchesInOrder
  <2>5. kafka[i].lo <= lv.last /\ lv.last <= kafka[i].hi /\ db.floor < lv.last /\ lv.last <= db.persisted
    BY <2>3, <2>8, RestoredFacts DEF InBatch
  <2>6. ASSUME lv.last < b PROVE kafka[i].hi = lv.last
    <3>1. SUFFICES ASSUME lv.last < kafka[i].hi PROVE FALSE
      BY <1>20, <2>4, <2>5
    <3>2. PICK q \in Nat : q = lv.last + 1
      BY <1>20
    <3>7. kafka[i].lo <= q /\ q <= kafka[i].hi /\ db.floor < q
      BY <1>1, <1>20, <2>4, <2>5, <3>1, <3>2
    <3>8. q <= db.persisted
      BY <1>1, <1>19, <1>20, <1>21, <2>6, <3>2
    <3>3. InBatch(q, i)
      BY <2>4, <3>2, <3>7 DEF InBatch
    <3>4. Event(q, Entry(kafka[i].by, "worker")) \in Restored(i)
      BY <2>3, <3>3, <3>7, <3>8, RestoredFacts
    <3>5. Event(q, Entry(kafka[i].by, "worker")).seq = q
      BY DEF Event
    <3>6. q <= x.seq
      BY <2>8, <3>4, <3>5
    <3> QED BY <1>20, <2>8, <3>2, <3>6
  <2>7. kafka[i].lo <= a
    BY <1>16, <1>19, <1>21, <2>4
  <2> QED BY <2>5, <2>6, <2>7
<1>23. lv.last > c => b <= lv.last
  <2>1. SUFFICES ASSUME c < lv.last, lv.last < b PROVE FALSE
    BY <1>19, <1>20
  <2>2. PICK i \in 1..(n - 1) : kafka[i].lo <= a /\ kafka[i].hi = lv.last
    BY <1>22, <2>1
  <2>3. i \in DOMAIN kafka
    BY <1>1, <1>6
  <2>4. kafka[i].lo \in Nat
    BY <2>3, BatchNumbers
  <2>5. kafka[i].lo <= e.hi /\ e.lo <= kafka[i].hi
    BY <1>16, <1>19, <1>20, <1>21, <2>1, <2>2, <2>4
  <2>6. kafka[i].hi = e.hi
    BY <1>6, <1>15, <2>3, <2>5, NotRecut
  <2> QED BY <1>16, <1>19, <1>20, <1>21, <2>1, <2>2, <2>6
<1> DEFINE last == Max({lv.last, c})
<1>24. last \in {lv.last, c} /\ lv.last <= last /\ c <= last /\ last \in Nat
  BY <1>19, <1>20, MaxPair
<1> HIDE DEF last
<1>25. ASSUME NEW x \in batch, x.seq <= last
       PROVE x \in lv.events /\ (x.seq \in lv.batched <=> e.via = "batch")
  <2>1. PICK s \in Nat : s = x.seq
    BY <1>17
  <2>2. s \in S /\ a <= s /\ s <= b /\ e.lo <= s /\ s <= e.hi /\ db.floor < s /\ s <= db.persisted
        /\ x = Event(s, Entry(e.by, "worker"))
    BY <1>14, <1>17, <1>19, <2>1
  <2>3. s <= lv.last /\ c < lv.last
    BY <1>19, <1>20, <1>24, <1>25, <2>1, <2>2
  <2>4. PICK i \in 1..(n - 1) : kafka[i].lo <= a /\ lv.last <= kafka[i].hi
    BY <1>22, <2>3
  <2>5. i \in DOMAIN kafka
    BY <1>1, <1>6
  <2>6. kafka[i].lo \in Nat /\ kafka[i].hi \in Nat
    BY <2>5, BatchNumbers
  <2>7. s \in kafka[i].lo..kafka[i].hi
    BY <1>19, <1>20, <2>2, <2>3, <2>4, <2>6
  <2>8. log[s] = Entry(kafka[i].by, "worker")
    BY <2>2, <2>5, <2>7, NotOrphaned
  <2>9. s \in kafka[n].lo..kafka[n].hi
    BY <1>15, <1>16, <2>2
  <2>10. log[s] = Entry(e.by, "worker")
    BY <1>6, <1>15, <2>2, <2>9, NotOrphaned
  <2>11. x = Event(s, Entry(kafka[i].by, "worker"))
    BY <2>2, <2>8, <2>10
  <2>12. x \in Restored(i)
    BY <2>2, <2>5, <2>7, <2>11, RestoredFacts DEF InBatch
  <2>13. x \in lv.events /\ s \in Seqs(lv.events)
    BY <1>9, <2>1, <2>12, SeqsFacts
  <2>14. PICK k \in DOMAIN kafka : InBatch(s, k) /\ (s \in lv.batched <=> kafka[k].via = "batch")
    BY <1>9, <2>13 DEF SentAs
  <2>15. kafka[k].lo \in Nat /\ kafka[k].hi \in Nat
    BY BatchNumbers
  <2>16. kafka[k].lo <= e.hi /\ e.lo <= kafka[k].hi
    BY <1>16, <2>2, <2>14, <2>15 DEF InBatch
  <2>17. kafka[k].via = e.via
    BY <1>6, <1>15, <2>16, NotRecut
  <2> QED BY <2>1, <2>13, <2>14, <2>17
<1>26. a <= last + 1
  BY <1>19, <1>24
<1>27. CanAppendLive(lv, c, batch, e.via)
  BY <1>13, <1>19, <1>23, <1>25, <1>26 DEF CanAppendLive, last
<1> QED BY <1>12, <1>15, <1>19, <1>27

(* A gateway can always repair what Valkey lost.                           *)
LEMMA RepairWorks ==
  ASSUME PipeInv, BatchesInOrder
  PROVE RepairSucceeds
<1>1. SUFFICES ASSUME external, Missing(live), ~Orphaned, ~Recut, db.floor + 1 \notin Terminals
               PROVE ~Rebuilt.lost /\ ~Missing(Rebuilt)
  BY DEF RepairSucceeds, CanStart
<1>2. Len(kafka) \in Nat /\ DOMAIN kafka = 1..Len(kafka) /\ db.persisted \in Nat /\ db.floor \in Nat
      /\ db.projected \in Nat /\ db.projected <= db.persisted
  BY Numbers DEF PipeInv, CursorsOK
<1>3. Len(kafka) \in 0..Len(kafka)
  BY <1>2
<1>4. ~Rebuilt.lost
  BY <1>1, <1>3, RebuildTakesAll DEF Rebuilt
<1>5. \A i \in 1..Len(kafka) : Restored(i) \subseteq Rebuilt.events
  BY <1>3, <1>4, RebuildFacts DEF RebuiltUpto, Rebuilt
<1>6. PICK s \in Nat : s = db.floor + 1
  BY <1>2
<1>7. s \in 1..db.persisted /\ db.floor < s
  <2>1. LiveThrough > db.floor
    BY <1>1 DEF Missing
  <2> QED BY <1>2, <1>6, <2>1, LiveThroughFacts
<1>8. PICK i \in DOMAIN kafka : InBatch(s, i)
  BY <1>1, <1>6, <1>7 DEF PipeInv, KafkaOK
<1>9. Event(s, Entry(kafka[i].by, "worker")) \in Restored(i)
  BY <1>2, <1>7, <1>8, RestoredFacts
<1>10. Event(s, Entry(kafka[i].by, "worker")) \in Rebuilt.events
  BY <1>2, <1>5, <1>9
<1>11. s \in Seqs(Rebuilt.events)
  <2>1. Event(s, Entry(kafka[i].by, "worker")).seq = s
    BY DEF Event
  <2> QED BY <1>10, <2>1, SeqsFacts
<1> QED BY <1>4, <1>6, <1>11 DEF Missing

(* What a rebuild leaves ahead of the projection is whole as well.         *)
LEMMA RebuiltAhead ==
  ASSUME PipeInv, BatchesInOrder, external, ~Rebuilt.lost
  PROVE /\ Rebuilt.last \in Nat /\ Rebuilt.last <= db.persisted
        /\ \A s \in (db.projected + 1)..Rebuilt.last : s \in Seqs(Rebuilt.events)
        /\ db.projected < Rebuilt.last => \E k \in DOMAIN kafka : kafka[k].hi = Rebuilt.last
<1>1. Len(kafka) \in Nat /\ DOMAIN kafka = 1..Len(kafka) /\ db.persisted \in Nat /\ db.floor \in Nat
      /\ db.projected \in Nat /\ db.projected <= db.persisted /\ db.floor <= db.projected
  BY Numbers DEF PipeInv, CursorsOK
<1>2. Len(kafka) \in 0..Len(kafka)
  BY <1>1
<1>3. PICK lv : lv = Rebuilt
  OBVIOUS
<1>4. lv \in Lives /\ lv.last \in Nat /\ \A i \in 1..Len(kafka) : Restored(i) \subseteq lv.events
  BY <1>2, <1>3, RebuildFacts DEF RebuiltUpto, Rebuilt, Lives
<1>5. \/ lv.last = 0
      \/ \E i \in 1..Len(kafka) : \E x \in Restored(i) : x.seq = lv.last /\ \A y \in Restored(i) : y.seq <= x.seq
  BY <1>2, <1>3, RebuildEndsAt DEF RebuildEnds, Rebuilt
<1>6. lv.last <= db.persisted
  BY <1>1, <1>5, RestoredFacts
<1>7. \A t \in Terminals : t <= db.projected
  BY DEF PipeInv, CursorsOK
<1>8. ASSUME NEW s \in (db.projected + 1)..lv.last PROVE s \in Seqs(lv.events)
  <2>1. s \in 1..db.persisted /\ db.floor < s /\ s \notin Terminals
    BY <1>1, <1>4, <1>6, <1>7
  <2>2. PICK i \in DOMAIN kafka : InBatch(s, i)
    BY <2>1 DEF PipeInv, KafkaOK
  <2>3. Event(s, Entry(kafka[i].by, "worker")) \in Restored(i)
    BY <1>1, <2>1, <2>2, RestoredFacts
  <2>4. Event(s, Entry(kafka[i].by, "worker")) \in lv.events
    BY <1>1, <1>4, <2>3
  <2>5. Event(s, Entry(kafka[i].by, "worker")).seq = s
    BY DEF Event
  <2> QED BY <2>4, <2>5, SeqsFacts
<1>9. ASSUME db.projected < lv.last PROVE \E k \in DOMAIN kafka : kafka[k].hi = lv.last
  <2>11. PICK i \in DOMAIN kafka : \E x \in Restored(i) : x.seq = lv.last /\ \A y \in Restored(i) : y.seq <= x.seq
    BY <1>1, <1>5, <1>9
  <2>1. PICK x \in Restored(i) : x.seq = lv.last /\ \A y \in Restored(i) : y.seq <= x.seq
    BY <2>11
  <2>2. kafka[i].lo \in Nat /\ kafka[i].hi \in Nat
    BY BatchNumbers
  <2>3. kafka[i].lo <= lv.last /\ lv.last <= kafka[i].hi /\ db.floor < lv.last
    BY <2>1, RestoredFacts DEF InBatch
  <2>4. PICK q \in Nat : (q = kafka[i].hi \/ q = db.persisted) /\ q <= kafka[i].hi /\ q <= db.persisted
    BY <1>1, <2>2
  <2>5. lv.last <= q
    BY <1>1, <1>6, <2>3, <2>4
  <2>6. InBatch(q, i) /\ db.floor < q
    BY <1>1, <1>4, <2>2, <2>3, <2>4, <2>5 DEF InBatch
  <2>7. Event(q, Entry(kafka[i].by, "worker")) \in Restored(i) /\ Event(q, Entry(kafka[i].by, "worker")).seq = q
    BY <2>4, <2>6, RestoredFacts DEF Event
  <2>8. q = lv.last
    BY <1>4, <2>1, <2>5, <2>7
  <2>9. CASE q = kafka[i].hi
    BY <2>8, <2>9
  <2>10. CASE q = db.persisted
    <3>1. q \in 1..db.persisted /\ q \notin Terminals
      BY <1>1, <1>7, <1>9, <2>8, <2>10
    <3>2. PICK k \in DOMAIN kafka : InBatch(q, k) /\ kafka[k].hi <= db.persisted
      BY <3>1 DEF BatchesInOrder
    <3>3. kafka[k].hi = q
      BY <2>10, <3>2, BatchNumbers DEF InBatch
    <3> QED BY <2>8, <3>3
  <2> QED BY <2>4, <2>9, <2>10
<1> QED BY <1>3, <1>4, <1>6, <1>8, <1>9

(* Steps that the broker, the live store and the projector do not see.     *)
StandsStill ==
  /\ log' = log /\ kafka' = kafka /\ external' = external /\ live' = live /\ jobs' = jobs
  /\ gateway' = gateway /\ proj' = proj
  /\ db'.persisted = db.persisted /\ db'.projected = db.projected /\ db'.floor = db.floor

(* What a step of the pipeline does to broker, projector and live store.   *)
LEMMA ProjectorKinds ==
  ASSUME PipeInv, PipelineNext
  PROVE \/ StandsStill
        \/ LiveStep
        \/ \E f \in Fences : RetentionStep(f)
        \/ \E m \in net : IngestRollback(m)
        \/ \E m \in net : Ingest(m) /\ IngestOutcome(m) = "accept" /\ Accepted(m)
        \/ \E f \in Fences, o \in {"completed", "failed"} : CommitTerminal(f, o) /\ Closed(f)
<1>1. CASE LeaseLapse
  <2>1. /\ db' = [db EXCEPT !.lease = 0] /\ log' = log /\ kafka' = kafka /\ external' = external
        /\ live' = live /\ jobs' = jobs /\ gateway' = gateway /\ proj' = proj
    BY <1>1 DEF LeaseLapse, liveVars
  <2>2. db'.persisted = db.persisted /\ db'.projected = db.projected /\ db'.floor = db.floor
    BY <2>1 DEF PipeInv, PipeTypes, Cursors
  <2> QED BY <2>1, <2>2 DEF StandsStill
<1>2. ASSUME NEW f \in Fences, Assign(f)
      PROVE StandsStill
  <2>1. /\ db' = [db EXCEPT !.fence = f, !.lease = f] /\ log' = log /\ kafka' = kafka
        /\ external' = external /\ live' = live /\ jobs' = jobs /\ gateway' = gateway /\ proj' = proj
    BY <1>2 DEF Assign, liveVars
  <2>2. db'.persisted = db.persisted /\ db'.projected = db.projected /\ db'.floor = db.floor
    BY <2>1 DEF PipeInv, PipeTypes, Cursors
  <2> QED BY <2>1, <2>2 DEF StandsStill
<1>3. ASSUME NEW f \in Fences, WorkerStep(f)
      PROVE StandsStill
  <2>1. /\ db' = db /\ log' = log /\ kafka' = kafka
        /\ external' = external /\ live' = live /\ jobs' = jobs /\ gateway' = gateway /\ proj' = proj
    BY <1>3 DEF WorkerStep, Produce, Flush, Acknowledged, PublishFails, Drain, Crash, StartRecovery,
                RecoverSend, RecoveryEnds, MarkRejected, Quarantine, storeVars, liveVars
  <2> QED BY <2>1 DEF StandsStill
<1>4. ASSUME NEW f \in Fences, SettleStep(f)
      PROVE StandsStill \/ \E o \in {"completed", "failed"} : CommitTerminal(f, o) /\ Closed(f)
  <2>1. CASE Prepare(f)
    <3>1. /\ db' = db /\ log' = log /\ kafka' = kafka
          /\ external' = external /\ live' = live /\ jobs' = jobs /\ gateway' = gateway /\ proj' = proj
      BY <2>1 DEF Prepare, liveVars
    <3> QED BY <3>1 DEF StandsStill
  <2>2. ASSUME NEW o \in {"completed", "failed"}, CommitTerminal(f, o)
        PROVE Closed(f)
    <3>1. /\ f = db.fence /\ ~Settled(f) /\ log' = Append(log, Entry(f, "terminal"))
          /\ db' = [db EXCEPT !.persisted = db.persisted + 1, !.projected = db.persisted + 1, !.lease = 0]
      BY <2>2 DEF CommitTerminal, Settling
    <3>2. db'.persisted = db.persisted + 1
      BY <3>1 DEF PipeInv, PipeTypes, Cursors
    <3> QED BY <3>1, <3>2, ClosedFacts
  <2> QED BY <1>4, <2>1, <2>2 DEF SettleStep
<1>5. ASSUME NEW m \in net, Ingest(m)
      PROVE StandsStill \/ (IngestOutcome(m) = "accept" /\ Accepted(m))
  <2>1. CASE IngestOutcome(m) = "accept"
    BY <1>5, <2>1, AcceptedFacts
  <2>2. CASE IngestOutcome(m) # "accept"
    <3>1. /\ db' = db /\ log' = log /\ kafka' = kafka
          /\ external' = external /\ live' = live /\ jobs' = jobs /\ gateway' = gateway /\ proj' = proj
      BY <1>5, <2>2, IngestFrame
    <3> QED BY <3>1 DEF StandsStill
  <2> QED BY <2>1, <2>2
<1> QED BY <1>1, <1>2, <1>3, <1>4, <1>5 DEF PipelineNext

(* The cursors only grow, and what ended a Turn still ends it.             *)
LEMMA CursorsGrow ==
  ASSUME PipeInv, PipelineNext
  PROVE /\ db.persisted <= db'.persisted /\ db.projected <= db'.projected
        /\ \A f : Settled(f) => TerminalOf(f)' = TerminalOf(f)
        /\ BatchesStay
<1>1. db.persisted \in Nat /\ db.projected \in Nat /\ db.projected <= db.persisted
  BY Numbers DEF PipeInv, CursorsOK
<1>2. BatchesStay /\ db.persisted <= db'.persisted
  BY StepExtends DEF Extends
<1>3. ASSUME log' = log PROVE \A f : TerminalOf(f)' = TerminalOf(f)
  BY <1>3 DEF TerminalOf, Terminals
<1>4. CASE StandsStill
  BY <1>1, <1>2, <1>3, <1>4 DEF StandsStill
<1>5. CASE LiveStep
  <2>1. log' = log
    BY <1>5 DEF LiveStep, Project, ProjectRollback, SkipProjected, ProjectConflict, LoseLive,
                GatewayCrash, StartGateway, storeVars
  <2>2. db.projected <= db'.projected
    <3>1. CASE Project
      <4>1. proj.pos \in DOMAIN kafka /\ Envelope.hi \in Nat
        <5>1. proj.pos \in DOMAIN kafka
          BY <3>1 DEF Project, CanProject
        <5> QED BY <5>1, BatchNumbers DEF Envelope
      <4>2. db' = [db EXCEPT !.projected = Max({db.projected, Envelope.hi})]
        BY <3>1 DEF Project
      <4>3. db'.projected = Max({db.projected, Envelope.hi})
        BY <4>2 DEF PipeInv, PipeTypes, Cursors
      <4> QED BY <1>1, <4>1, <4>3, MaxPair
    <3>2. CASE ~Project
      <4>1. db' = db
        BY <1>5, <3>2 DEF LiveStep, ProjectRollback, SkipProjected, ProjectConflict, LoseLive,
                          GatewayCrash, StartGateway, storeVars
      <4> QED BY <1>1, <4>1
    <3> QED BY <3>1, <3>2
  <2> QED BY <1>2, <1>3, <2>1, <2>2
<1>6. ASSUME NEW f \in Fences, RetentionStep(f)
      PROVE log' = log /\ db'.projected = db.projected
  <2>1. log' = log
    BY <1>6 DEF RetentionStep, Trim, RaiseFloor, CompactionFails, storeVars
  <2>2. db' = db \/ \E n : db' = [db EXCEPT !.floor = n]
    BY <1>6 DEF RetentionStep, Trim, RaiseFloor, CompactionFails, storeVars
  <2> QED BY <2>1, <2>2 DEF PipeInv, PipeTypes, Cursors
<1>7. ASSUME NEW m \in net, IngestRollback(m)
      PROVE log' = log /\ db' = db
  BY <1>7 DEF IngestRollback, storeVars
<1>8. ASSUME NEW m \in net, Ingest(m), Accepted(m)
      PROVE db.projected <= db'.projected /\ \A f : Settled(f) => TerminalOf(f)' = TerminalOf(f)
  <2>1. m.hi \in Nat
    BY <1>8 DEF PipeInv, PipeTypes, Batches
  <2> QED BY <1>1, <1>8, <2>1 DEF Accepted
<1>9. ASSUME NEW f \in Fences, NEW o \in {"completed", "failed"}, CommitTerminal(f, o), Closed(f)
      PROVE db.projected <= db'.projected /\ \A g : Settled(g) => TerminalOf(g)' = TerminalOf(g)
  <2>1. db' = [db EXCEPT !.persisted = db.persisted + 1, !.projected = db.persisted + 1, !.lease = 0]
    BY <1>9 DEF CommitTerminal
  <2>2. db'.projected = db.persisted + 1
    BY <2>1 DEF PipeInv, PipeTypes, Cursors
  <2> QED BY <1>1, <1>9, <2>2 DEF Closed
<1> QED BY <1>1, <1>2, <1>3, <1>4, <1>5, <1>6, <1>7, <1>8, <1>9, ProjectorKinds

(* A job that trimmed stays one that trimmed, and one that is done, done.  *)
Trimming == {"trimmed", "again", "done"}
JobsStay ==
  \A g \in Fences : /\ jobs[g] = "done" => jobs'[g] = "done"
                    /\ jobs[g] \in Trimming => jobs'[g] \in Trimming
LEMMA JobsOnlyAdvance ==
  ASSUME PipeInv, PipelineNext
  PROVE JobsStay
<1>1. jobs \in [Fences -> {None, "pending", "again", "trimmed", "done"}]
  BY DEF PipeInv, PipeTypes
<1>2. ASSUME jobs' = jobs PROVE JobsStay
  BY <1>2 DEF JobsStay
<1>3. ASSUME NEW f \in Fences, NEW j, jobs' = [jobs EXCEPT ![f] = j],
             jobs[f] # "done", jobs[f] \in Trimming => j \in Trimming
      PROVE JobsStay
  <2>1. jobs'[f] = j /\ \A g \in Fences \ {f} : jobs'[g] = jobs[g]
    BY <1>1, <1>3
  <2> QED BY <1>3, <2>1 DEF JobsStay
<1>4. CASE StandsStill
  BY <1>2, <1>4 DEF StandsStill
<1>5. CASE LiveStep
  BY <1>2, <1>5 DEF LiveStep, Project, ProjectRollback, SkipProjected, ProjectConflict, LoseLive,
                    GatewayCrash, StartGateway
<1>6. ASSUME NEW f \in Fences, RetentionStep(f)
      PROVE JobsStay
  <2>1. CASE Trim(f)
    <3>1. jobs' = [jobs EXCEPT ![f] = "trimmed"] /\ jobs[f] # "done" /\ "trimmed" \in Trimming
      BY <2>1 DEF Trim, Trimming
    <3> QED BY <1>3, <3>1
  <2>2. CASE RaiseFloor(f)
    <3>1. jobs' = [jobs EXCEPT ![f] = "done"] /\ jobs[f] # "done" /\ "done" \in Trimming
      BY <2>2 DEF RaiseFloor, Trimming
    <3> QED BY <1>3, <3>1
  <2>3. CASE CompactionFails(f)
    <3>1. jobs' = [jobs EXCEPT ![f] = "again"] /\ jobs[f] # "done" /\ "again" \in Trimming
      BY <2>3 DEF CompactionFails, Trimming
    <3> QED BY <1>3, <3>1
  <2> QED BY <1>6, <2>1, <2>2, <2>3 DEF RetentionStep
<1>7. ASSUME NEW m \in net, IngestRollback(m)
      PROVE JobsStay
  BY <1>2, <1>7 DEF IngestRollback
<1>8. ASSUME NEW m \in net, Ingest(m)
      PROVE JobsStay
  BY <1>2, <1>8, IngestFrame
<1>9. ASSUME NEW f \in Fences, NEW o \in {"completed", "failed"}, CommitTerminal(f, o)
      PROVE JobsStay
  <2>1. ~Settled(f) /\ jobs' = [jobs EXCEPT ![f] = IF external THEN "pending" ELSE @]
    BY <1>9 DEF CommitTerminal, Settling
  <2>2. jobs[f] = None
    BY <2>1 DEF PipeInv, CursorsOK
  <2>3. PICK j : j = IF external THEN "pending" ELSE jobs[f]
    OBVIOUS
  <2>4. jobs' = [jobs EXCEPT ![f] = j] /\ jobs[f] # "done" /\ jobs[f] \notin Trimming
    BY <2>1, <2>2, <2>3 DEF None, Trimming
  <2> QED BY <1>3, <2>4
<1> QED BY <1>4, <1>5, <1>6, <1>7, <1>8, <1>9, ProjectorKinds

(* The floor stays at the end of a Turn.                                   *)
LEMMA FloorKeeps ==
  ASSUME PipeInv, FloorOK, PipelineNext
  PROVE FloorOK'
<1>1. JobsStay /\ \A f : Settled(f) => TerminalOf(f)' = TerminalOf(f)
  BY JobsOnlyAdvance, CursorsGrow
<1>2. \A f \in Fences : jobs[f] # None => Settled(f)
  BY DEF PipeInv, CursorsOK
<1>3. ASSUME db'.floor = db.floor PROVE FloorOK'
  <2>1. CASE db.floor = 0
    BY <1>3, <2>1 DEF FloorOK
  <2>2. CASE db.floor # 0
    <3>1. PICK f \in Fences : jobs[f] = "done" /\ TerminalOf(f) = db.floor
      BY <2>2 DEF FloorOK
    <3>2. jobs'[f] = "done" /\ TerminalOf(f)' = db'.floor
      BY <1>1, <1>2, <1>3, <3>1 DEF JobsStay, None
    <3> QED BY <3>2 DEF FloorOK
  <2> QED BY <2>1, <2>2
<1>4. ASSUME NEW f \in Fences, RaiseFloor(f) PROVE FloorOK'
  <2>1. db' = [db EXCEPT !.floor = Max({db.floor, TerminalOf(f)})] /\ jobs' = [jobs EXCEPT ![f] = "done"]
        /\ jobs[f] = "trimmed" /\ log' = log
    BY <1>4 DEF RaiseFloor
  <2>2. jobs'[f] = "done"
    BY <2>1 DEF PipeInv, PipeTypes
  <2>3. db'.floor = Max({db.floor, TerminalOf(f)})
    BY <2>1 DEF PipeInv, PipeTypes, Cursors
  <2>4. Settled(f) /\ db.floor \in Nat /\ TerminalOf(f) \in Nat
    <3>1. Settled(f)
      BY <1>2, <2>1 DEF None
    <3>2. TerminalOf(f) \in Terminals
      BY <3>1, TerminalUnique
    <3> QED BY <3>1, <3>2, Numbers DEF PipeInv, Terminals
  <2>5. db'.floor = db.floor \/ db'.floor = TerminalOf(f)
    BY <2>3, <2>4, MaxPair
  <2>6. CASE db'.floor = TerminalOf(f)
    <3>1. TerminalOf(f)' = db'.floor
      BY <1>1, <2>4, <2>6
    <3> QED BY <2>2, <3>1 DEF FloorOK
  <2> QED BY <1>3, <2>5, <2>6
<1>5. CASE StandsStill
  BY <1>3, <1>5 DEF StandsStill
<1>6. CASE LiveStep
  <2>1. db' = db \/ \E n : db' = [db EXCEPT !.projected = n]
    BY <1>6 DEF LiveStep, Project, ProjectRollback, SkipProjected, ProjectConflict, LoseLive,
                GatewayCrash, StartGateway, storeVars
  <2>2. db'.floor = db.floor
    BY <2>1 DEF PipeInv, PipeTypes, Cursors
  <2> QED BY <1>3, <2>2
<1>7. ASSUME NEW f \in Fences, Trim(f) \/ CompactionFails(f)
      PROVE FloorOK'
  <2>1. db' = db
    BY <1>7 DEF Trim, CompactionFails, storeVars
  <2> QED BY <1>3, <2>1
<1>8. ASSUME NEW m \in net, IngestRollback(m)
      PROVE FloorOK'
  BY <1>3, <1>8 DEF IngestRollback, storeVars
<1>9. ASSUME NEW m \in net, Accepted(m)
      PROVE FloorOK'
  BY <1>3, <1>9 DEF Accepted
<1>10. ASSUME NEW f \in Fences, NEW o \in {"completed", "failed"}, CommitTerminal(f, o)
       PROVE FloorOK'
  <2>1. db' = [db EXCEPT !.persisted = db.persisted + 1, !.projected = db.persisted + 1, !.lease = 0]
    BY <1>10 DEF CommitTerminal
  <2>2. db'.floor = db.floor
    BY <2>1 DEF PipeInv, PipeTypes, Cursors
  <2> QED BY <1>3, <2>2
<1> QED BY <1>4, <1>5, <1>6, <1>7, <1>8, <1>9, <1>10, ProjectorKinds DEF RetentionStep

(* Where a projection leaves the end of the live stream.                   *)
LEMMA ProjectedLast ==
  ASSUME PipeInv, CanProject, Projectable
  PROVE /\ Projected(live).last \in Nat /\ live.last <= Projected(live).last
        /\ Projected(live).last \in {live.last, Envelope.hi}
        /\ proj.pos \in DOMAIN kafka /\ Envelope.hi \in Nat /\ Envelope.hi <= db.persisted
<1>1. proj.pos \in DOMAIN kafka /\ Envelope.hi <= db.persisted
  BY DEF CanProject
<1>2. Envelope.lo \in Nat /\ Envelope.hi \in Nat /\ Envelope.by \in Fences
  BY <1>1, BatchNumbers DEF Envelope
<1>3. live \in Lives /\ live.last \in Nat /\ db.projected \in Nat /\ Projected(live) \in Lives
  BY ProjectedFacts, Numbers DEF PipeInv, PipeTypes, Lives
<1>4. CASE Fresh = {}
  <2>1. Projected(live) = live
    BY <1>4 DEF Projected
  <2> QED BY <1>1, <1>2, <1>3, <2>1
<1>5. CASE Fresh # {}
  <2> DEFINE a == Max({Envelope.lo, db.projected + 1})
  <2>1. Fresh = Batch(Envelope.by, a, Envelope.hi)
    BY DEF Fresh
  <2>2. a \in Nat /\ db.projected + 1 <= a
    <3>1. PICK p \in Nat : p = db.projected + 1
      BY <1>3
    <3>2. Max({Envelope.lo, p}) \in {Envelope.lo, p} /\ p <= Max({Envelope.lo, p})
      BY <1>2, <3>1, MaxPair
    <3> QED BY <1>2, <3>1, <3>2
  <2> HIDE DEF a
  <2>3. /\ \A e \in Fresh : e.seq \in a..Envelope.hi
        /\ \A s \in a..Envelope.hi : s \in Seqs(Fresh)
        /\ Fresh \in SUBSET Events
    BY <1>2, <2>1, <2>2, BatchFacts
  <2>4. \A e \in Fresh : e.seq <= Envelope.hi
    BY <1>2, <2>2, <2>3
  <2>5. Projected(live) = AppendLive(live, db.projected, Fresh, Envelope.via)
    BY <1>5 DEF Projected
  <2>6. PICK lv : lv = Projected(live)
    OBVIOUS
  <2>7. /\ live.last <= lv.last /\ \A e \in Fresh : e.seq <= lv.last
        /\ lv.last \in {live.last, db.projected} \cup Seqs(Fresh)
    BY <1>2, <1>3, <2>3, <2>4, <2>5, <2>6, AppendLiveFacts
  <2>8. a <= Envelope.hi /\ Envelope.hi \in Seqs(Fresh)
    BY <1>2, <1>5, <2>2, <2>3
  <2>9. Envelope.hi <= lv.last
    <3>1. PICK e \in Fresh : e.seq = Envelope.hi
      BY <2>8, SeqsFacts
    <3> QED BY <2>7, <3>1
  <2>10. \A s \in Seqs(Fresh) : s <= Envelope.hi /\ s \in Nat
    BY <1>2, <2>2, <2>3, SeqsFacts
  <2>11. lv.last \in Nat
    BY <1>3, <2>6 DEF Lives
  <2>12. lv.last \in {live.last, Envelope.hi}
    <3>1. lv.last # db.projected
      BY <1>2, <1>3, <2>2, <2>8, <2>9
    <3>2. CASE lv.last \in Seqs(Fresh)
      BY <1>2, <2>9, <2>10, <2>11, <3>2
    <3> QED BY <2>7, <3>1, <3>2
  <2> QED BY <1>1, <1>2, <2>6, <2>7, <2>11, <2>12
<1> QED BY <1>4, <1>5

(* A step that leaves the live stream alone leaves what is ahead in it.    *)
LEMMA AheadStays ==
  ASSUME PipeInv, AheadOK, PipelineNext, live' = live
  PROVE AheadOK'
<1>1. /\ db.persisted <= db'.persisted /\ db.projected <= db'.projected /\ BatchesStay
  BY CursorsGrow
<1>2. /\ db'.persisted \in Nat /\ db'.projected \in Nat
  BY PipelineNextKeeps DEF PipeInv, PipeTypes, Cursors
<1>3. db.persisted \in Nat /\ db.projected \in Nat /\ live.last \in Nat
  BY Numbers DEF PipeInv
<1>4. live.last <= db'.persisted
  BY <1>1, <1>2, <1>3 DEF AheadOK
<1>5. \A s \in (db'.projected + 1)..live.last : s \in Seqs(live.events)
  <2>1. \A s \in (db'.projected + 1)..live.last : s \in (db.projected + 1)..live.last
    BY <1>1, <1>2, <1>3
  <2> QED BY <2>1 DEF AheadOK
<1>6. ASSUME db'.projected < live.last PROVE \E k \in DOMAIN kafka' : kafka'[k].hi = live.last
  <2>1. db.projected < live.last
    BY <1>1, <1>2, <1>3, <1>6
  <2>2. PICK k \in DOMAIN kafka : kafka[k].hi = live.last
    BY <2>1 DEF AheadOK
  <2> QED BY <1>1, <2>2 DEF BatchesStay
<1> QED BY <1>4, <1>5, <1>6 DEF AheadOK

(* What is ahead of the projection stays in order.                         *)
LEMMA AheadKeeps ==
  ASSUME PipeInv, BatchesInOrder, AheadOK, PipelineNext
  PROVE AheadOK'
<1>1. /\ db.persisted \in Nat /\ db.projected \in Nat /\ live.last \in Nat /\ db.projected <= db.persisted
  BY Numbers DEF PipeInv, CursorsOK
<1>2. CASE Project \/ ProjectRollback
  <2>1. /\ CanProject /\ Projectable /\ live' = Projected(live) /\ kafka' = kafka
        /\ db'.persisted = db.persisted
        /\ db'.projected = db.projected \/ (db'.projected = Max({db.projected, Envelope.hi}))
    <3>1. CASE Project
      <4>1. db' = [db EXCEPT !.projected = Max({db.projected, Envelope.hi})]
        BY <3>1 DEF Project
      <4>2. db'.persisted = db.persisted /\ db'.projected = Max({db.projected, Envelope.hi})
        BY <4>1 DEF PipeInv, PipeTypes, Cursors
      <4> QED BY <3>1, <4>2 DEF Project
    <3>2. CASE ProjectRollback
      BY <3>2 DEF ProjectRollback, storeVars
    <3> QED BY <1>2, <3>1, <3>2
  <2>2. PICK lv : lv = Projected(live)
    OBVIOUS
  <2>3. /\ lv.last \in Nat /\ live.last <= lv.last /\ lv.last \in {live.last, Envelope.hi}
        /\ proj.pos \in DOMAIN kafka /\ Envelope.hi \in Nat /\ Envelope.hi <= db.persisted
    BY <2>1, <2>2, ProjectedLast
  <2>4. lv.events = live.events \cup Fresh /\ \A s \in (db.projected + 1)..Envelope.hi : s \in Seqs(Fresh)
    BY <2>1, <2>2, ProjectedFacts
  <2>5. PICK p \in Nat : p = db'.projected /\ db.projected <= p
    <3>1. Max({db.projected, Envelope.hi}) \in Nat /\ db.projected <= Max({db.projected, Envelope.hi})
      BY <1>1, <2>3, MaxPair
    <3> QED BY <1>1, <2>1, <3>1
  <2>6. lv.last <= db.persisted
    BY <2>3 DEF AheadOK
  <2>7. ASSUME NEW s \in (p + 1)..lv.last PROVE s \in Seqs(lv.events)
    <3>1. s \in (db.projected + 1)..live.last \/ s \in (db.projected + 1)..Envelope.hi
      BY <1>1, <2>3, <2>5
    <3>2. s \in Seqs(live.events) \/ s \in Seqs(Fresh)
      BY <2>4, <3>1 DEF AheadOK
    <3> QED BY <2>4, <3>2, SeqsFacts
  <2>8. ASSUME p < lv.last PROVE \E k \in DOMAIN kafka : kafka[k].hi = lv.last
    <3>1. CASE lv.last = Envelope.hi
      BY <2>3, <3>1 DEF Envelope
    <3>2. CASE lv.last = live.last
      <4>1. db.projected < live.last
        BY <1>1, <2>3, <2>5, <2>8, <3>2
      <4> QED BY <3>2, <4>1 DEF AheadOK
    <3> QED BY <2>3, <3>1, <3>2
  <2>9. live'.last = lv.last /\ live'.events = lv.events
    BY <2>1, <2>2
  <2> QED BY <2>1, <2>5, <2>6, <2>7, <2>8, <2>9 DEF AheadOK
<1>3. CASE LoseLive
  <2>1. live'.last = 0 /\ db' = db
    BY <1>3 DEF LoseLive, EmptyLive, storeVars
  <2> QED BY <1>1, <2>1 DEF AheadOK
<1>4. CASE StartGateway
  <2>1. db' = db /\ kafka' = kafka /\ live' = RepairedLive /\ CanStart
    BY <1>4 DEF StartGateway, storeVars
  <2>2. CASE external /\ Missing(live)
    <3>1. live' = Rebuilt /\ ~Rebuilt.lost
      BY <2>1, <2>2 DEF RepairedLive, CanStart
    <3>2. PICK lv : lv = Rebuilt
      OBVIOUS
    <3>3. /\ lv.last <= db.persisted
          /\ \A s \in (db.projected + 1)..lv.last : s \in Seqs(lv.events)
          /\ db.projected < lv.last => \E k \in DOMAIN kafka : kafka[k].hi = lv.last
      BY <2>2, <3>1, <3>2, RebuiltAhead
    <3> QED BY <2>1, <3>1, <3>2, <3>3 DEF AheadOK
  <2>3. CASE ~(external /\ Missing(live))
    <3>1. live' = [live EXCEPT !.lost = FALSE]
      BY <2>1, <2>3 DEF RepairedLive
    <3>2. live'.last = live.last /\ live'.events = live.events
      BY <3>1 DEF PipeInv, PipeTypes
    <3> QED BY <2>1, <3>2 DEF AheadOK
  <2> QED BY <2>2, <2>3
<1>5. ASSUME NEW f \in Fences, Trim(f) PROVE AheadOK'
  <2>1. db' = db /\ kafka' = kafka /\ jobs[f] \in {"pending", "again"}
        /\ live' = [live EXCEPT !.events = {e \in live.events : e.seq > TerminalOf(f)},
                            !.batched = {s \in live.batched : s > TerminalOf(f)}]
    BY <1>5 DEF Trim, storeVars
  <2>2. live'.last = live.last /\ live'.events = {e \in live.events : e.seq > TerminalOf(f)}
    BY <2>1 DEF PipeInv, PipeTypes
  <2>3. TerminalOf(f) <= db.projected /\ TerminalOf(f) \in Nat
    <3>1. Settled(f)
      BY <2>1 DEF PipeInv, CursorsOK, None
    <3>2. TerminalOf(f) \in Terminals
      BY <3>1, TerminalUnique
    <3> QED BY <3>2, Numbers DEF PipeInv, Terminals, CursorsOK
  <2>4. ASSUME NEW s \in (db.projected + 1)..live.last PROVE s \in Seqs(live'.events)
    <3>1. s \in Seqs(live.events)
      BY DEF AheadOK
    <3>2. PICK e \in live.events : e.seq = s
      BY <3>1, SeqsFacts
    <3>3. e \in live'.events
      BY <1>1, <2>2, <2>3, <3>2
    <3> QED BY <3>2, <3>3, SeqsFacts
  <2> QED BY <2>1, <2>2, <2>4 DEF AheadOK
<1>6. ASSUME live' = live PROVE AheadOK'
  BY <1>6, AheadStays
<1>7. StandsStill => live' = live
  BY DEF StandsStill
<1>8. SkipProjected \/ ProjectConflict \/ GatewayCrash => live' = live
  BY DEF SkipProjected, ProjectConflict, GatewayCrash
<1>9. \A f \in Fences : RaiseFloor(f) \/ CompactionFails(f) => live' = live
  BY DEF RaiseFloor, CompactionFails
<1>10. \A m \in net : IngestRollback(m) => live' = live
  BY DEF IngestRollback
<1>11. \A m \in net : Ingest(m) => live' = live
  BY IngestFrame
<1>12. \A f \in Fences, o \in {"completed", "failed"} : CommitTerminal(f, o) => live' = live
  BY DEF CommitTerminal
<1>13. CASE LiveStep
  BY <1>2, <1>3, <1>4, <1>6, <1>8, <1>13 DEF LiveStep
<1>14. ASSUME NEW f \in Fences, RetentionStep(f) PROVE AheadOK'
  BY <1>5, <1>6, <1>9, <1>14 DEF RetentionStep
<1> QED BY <1>6, <1>7, <1>10, <1>11, <1>12, <1>13, <1>14, ProjectorKinds

(* The digests of the live stream stay those of publications.              *)
LEMMA SentKeeps ==
  ASSUME PipeInv, SentOK, PipelineNext
  PROVE SentOK'
<1>1. BatchesStay
  BY CursorsGrow
<1>2. \A s, k : k \in DOMAIN kafka /\ InBatch(s, k)
                => k \in DOMAIN kafka' /\ InBatch(s, k)' /\ kafka'[k].via = kafka[k].via
  BY <1>1 DEF BatchesStay, InBatch
<1>3. ASSUME NEW lv, live' = lv, SentAs(lv) PROVE SentOK'
  BY <1>2, <1>3 DEF SentOK, SentAs
<1>4. live \in Lives
  BY DEF PipeInv, PipeTypes, Lives
<1>5. CASE Project \/ ProjectRollback
  <2>1. CanProject /\ Projectable /\ live' = Projected(live)
    BY <1>5 DEF Project, ProjectRollback
  <2>2. CASE Fresh = {}
    BY <1>3, <2>1, <2>2 DEF Projected, SentOK
  <2>3. CASE Fresh # {}
    <3>1. /\ proj.pos \in DOMAIN kafka /\ Envelope = kafka[proj.pos] /\ db.projected \in Nat
          /\ \A e \in Fresh : InBatch(e.seq, proj.pos)
      BY <2>1, ProjectedFacts, Numbers DEF PipeInv, Envelope
    <3>2. Fresh \in SUBSET Events
      <4>1. Projected(live) \in Lives /\ Projected(live).events = live.events \cup Fresh
        BY <2>1, ProjectedFacts
      <4> QED BY <4>1 DEF Lives
    <3>3. CanAppendLive(live, db.projected, Fresh, kafka[proj.pos].via)
      BY <2>1, <2>3, <3>1 DEF Projectable
    <3>4. Projected(live) = AppendLive(live, db.projected, Fresh, kafka[proj.pos].via)
      BY <2>3, <3>1 DEF Projected
    <3>5. SentAs(Projected(live))
      BY <1>4, <3>1, <3>2, <3>3, <3>4, AppendSent DEF SentOK
    <3> QED BY <1>3, <2>1, <3>5
  <2> QED BY <2>2, <2>3
<1>6. CASE LoseLive
  <2>1. live' = [last |-> 0, events |-> {}, batched |-> {}, lost |-> TRUE]
    BY <1>6 DEF LoseLive, EmptyLive
  <2>2. live'.batched = {} /\ Seqs(live'.events) = {}
    BY <2>1, SeqsFacts
  <2> QED BY <2>2 DEF SentOK, SentAs
<1>7. CASE StartGateway
  <2>1. live' = RepairedLive
    BY <1>7 DEF StartGateway
  <2>2. CASE external /\ Missing(live)
    <3>1. live' = Rebuild[Len(kafka)]
      BY <2>1, <2>2 DEF RepairedLive, Rebuilt
    <3>2. Len(kafka) \in 0..Len(kafka)
      BY Numbers DEF PipeInv
    <3> QED BY <1>3, <3>1, <3>2, RebuildSent
  <2>3. CASE ~(external /\ Missing(live))
    <3>1. live' = [live EXCEPT !.lost = FALSE]
      BY <2>1, <2>3 DEF RepairedLive
    <3>2. live'.last = live.last /\ live'.events = live.events /\ live'.batched = live.batched
      BY <1>4, <3>1 DEF Lives
    <3>3. SentAs(live')
      BY <3>2 DEF SentOK, SentAs
    <3> QED BY <1>3, <3>3
  <2> QED BY <2>2, <2>3
<1>8. ASSUME NEW f \in Fences, Trim(f) PROVE SentOK'
  <2>1. PICK t : t = TerminalOf(f)
    OBVIOUS
  <2>2. live' = [live EXCEPT !.events = {e \in live.events : e.seq > t},
                             !.batched = {s \in live.batched : s > t}]
    BY <1>8, <2>1 DEF Trim
  <2>3. /\ live'.last = live.last /\ live'.events = {e \in live.events : e.seq > t}
        /\ live'.batched = {s \in live.batched : s > t}
    BY <1>4, <2>2 DEF Lives
  <2>4. \A s \in Seqs(live'.events) : s \in Seqs(live.events) /\ (s \in live'.batched <=> s \in live.batched)
    <3>1. SUFFICES ASSUME NEW e \in live'.events
                   PROVE e.seq \in Seqs(live.events) /\ (e.seq \in live'.batched <=> e.seq \in live.batched)
      BY SeqsFacts
    <3>2. e \in live.events /\ e.seq > t
      BY <2>3
    <3> QED BY <2>3, <3>2, SeqsFacts
  <2>5. SentAs(live')
    BY <2>3, <2>4 DEF SentOK, SentAs
  <2> QED BY <1>3, <2>5
<1>9. ASSUME live' = live PROVE SentOK'
  BY <1>3, <1>9 DEF SentOK
<1>10. StandsStill => live' = live
  BY DEF StandsStill
<1>11. SkipProjected \/ ProjectConflict \/ GatewayCrash => live' = live
  BY DEF SkipProjected, ProjectConflict, GatewayCrash
<1>12. \A f \in Fences : RaiseFloor(f) \/ CompactionFails(f) => live' = live
  BY DEF RaiseFloor, CompactionFails
<1>13. \A m \in net : IngestRollback(m) => live' = live
  BY DEF IngestRollback
<1>14. \A m \in net : Ingest(m) => live' = live
  BY IngestFrame
<1>15. \A f \in Fences, o \in {"completed", "failed"} : CommitTerminal(f, o) => live' = live
  BY DEF CommitTerminal
<1>16. CASE LiveStep
  BY <1>5, <1>6, <1>7, <1>9, <1>11, <1>16 DEF LiveStep
<1>17. ASSUME NEW f \in Fences, RetentionStep(f) PROVE SentOK'
  BY <1>8, <1>9, <1>12, <1>17 DEF RetentionStep
<1> QED BY <1>9, <1>10, <1>13, <1>14, <1>15, <1>16, <1>17, ProjectorKinds

(* A batch that is appended after what is accepted keeps the order.        *)
LEMMA AppendKeepsOrder ==
  ASSUME PipeInv, BatchesInOrder, NEW b \in Batches, kafka' = Append(kafka, b),
         b.lo = db.persisted + 1, db'.persisted \in Nat, db.persisted <= db'.persisted
  PROVE /\ \A i, j \in DOMAIN kafka' : i <= j => kafka'[i].lo <= kafka'[j].lo
        /\ \A i \in DOMAIN kafka' : kafka'[i].lo <= db'.persisted + 1
        /\ \A i \in DOMAIN kafka : i \in DOMAIN kafka' /\ kafka'[i] = kafka[i]
        /\ Len(kafka) + 1 \in DOMAIN kafka' /\ kafka'[Len(kafka) + 1] = b
<1>1. kafka \in Seq(Batches) /\ DOMAIN kafka = 1..Len(kafka) /\ Len(kafka) \in Nat /\ db.persisted \in Nat
  BY Numbers DEF PipeInv
<1>2. /\ DOMAIN kafka' = 1..(Len(kafka) + 1)
      /\ \A i \in DOMAIN kafka : i \in DOMAIN kafka' /\ kafka'[i] = kafka[i]
      /\ kafka'[Len(kafka) + 1] = b
  BY <1>1, KafkaGrows
<1>3. \A i \in DOMAIN kafka' : i \in DOMAIN kafka \/ i = Len(kafka) + 1
  BY <1>1, <1>2
<1>4. \A i \in DOMAIN kafka : kafka[i].lo \in Nat /\ kafka[i].lo <= db.persisted + 1
  BY BatchNumbers DEF BatchesInOrder
<1>5. ASSUME NEW i \in DOMAIN kafka', NEW j \in DOMAIN kafka', i <= j
      PROVE kafka'[i].lo <= kafka'[j].lo
  <2>1. CASE i \in DOMAIN kafka /\ j \in DOMAIN kafka
    BY <1>2, <1>5, <2>1 DEF BatchesInOrder
  <2>2. CASE i \in DOMAIN kafka /\ j = Len(kafka) + 1
    BY <1>2, <1>4, <2>2
  <2>3. CASE i = Len(kafka) + 1 /\ j = Len(kafka) + 1
    BY <1>1, <1>2, <2>3
  <2>4. ~(i = Len(kafka) + 1 /\ j \in DOMAIN kafka)
    BY <1>1, <1>5
  <2> QED BY <1>3, <2>1, <2>2, <2>3, <2>4
<1>6. ASSUME NEW i \in DOMAIN kafka' PROVE kafka'[i].lo <= db'.persisted + 1
  BY <1>1, <1>2, <1>3, <1>4
<1> QED BY <1>1, <1>2, <1>5, <1>6

(* The broker's batches stay in order.                                     *)
LEMMA OrderKeeps ==
  ASSUME PipeInv, BatchesInOrder, PipelineNext
  PROVE BatchesInOrder'
<1>1. /\ db.persisted \in Nat /\ db.projected \in Nat /\ DOMAIN kafka = 1..Len(kafka) /\ Len(kafka) \in Nat
      /\ proj.stored \in Nat /\ proj.stored <= Len(kafka)
  BY Numbers, ProjectorFacts DEF PipeInv
<1>2. /\ db.persisted <= db'.persisted /\ db.projected <= db'.projected
      /\ db'.persisted \in Nat /\ db'.projected \in Nat /\ Terminals \subseteq Terminals'
  BY CursorsGrow, PipelineNextKeeps, HorizonGrows DEF PipeInv, PipeTypes, Cursors
<1>3. \A i \in 1..proj.stored : i \in DOMAIN kafka /\ kafka[i].hi \in Nat /\ kafka[i].hi <= db'.projected
  <2>1. \A i \in 1..proj.stored : i \in DOMAIN kafka /\ kafka[i].hi <= db.projected
    BY <1>1 DEF BatchesInOrder
  <2> QED BY <1>1, <1>2, <2>1, BatchNumbers
<1>4. ASSUME kafka' = kafka, external' = external,
             \A s \in 1..db'.persisted : s \in 1..db.persisted \/ s \in Terminals',
             proj'.stored = proj.stored \/ (proj'.stored = proj.pos /\ CanProject /\ Envelope.hi <= db'.projected)
      PROVE BatchesInOrder'
  <2>1. \A i \in DOMAIN kafka : kafka[i].lo <= db'.persisted + 1
    <3>1. \A i \in DOMAIN kafka : kafka[i].lo \in Nat /\ kafka[i].lo <= db.persisted + 1
      BY BatchNumbers DEF BatchesInOrder
    <3> QED BY <1>1, <1>2, <3>1
  <2>2. external => \A s \in 1..db'.persisted :
          s \in Terminals' \/ \E i \in DOMAIN kafka : InBatch(s, i) /\ kafka[i].hi <= db'.persisted
    <3>1. SUFFICES ASSUME external, NEW s \in 1..db.persisted
                   PROVE s \in Terminals' \/ \E i \in DOMAIN kafka : InBatch(s, i) /\ kafka[i].hi <= db'.persisted
      BY <1>4
    <3>2. s \in Terminals \/ \E i \in DOMAIN kafka : InBatch(s, i) /\ kafka[i].hi <= db.persisted
      BY <3>1 DEF BatchesInOrder
    <3> QED BY <1>1, <1>2, <3>2, BatchNumbers
  <2>3. \A i \in 1..proj'.stored : kafka[i].hi <= db'.projected
    <3>1. CASE proj'.stored = proj.stored
      BY <1>3, <3>1
    <3>2. CASE proj'.stored = proj.pos /\ CanProject /\ Envelope.hi <= db'.projected
      <4>1. proj.pos = proj.stored + 1
        BY <3>2, NextEnvelope
      <4>2. \A i \in 1..proj'.stored : i \in 1..proj.stored \/ i = proj.pos
        BY <1>1, <3>2, <4>1
      <4> QED BY <1>3, <3>2, <4>2 DEF Envelope
    <3> QED BY <1>4, <3>1, <3>2
  <2> QED BY <1>4, <2>1, <2>2, <2>3 DEF BatchesInOrder, InBatch
<1>5. CASE StandsStill
  <2>1. Terminals' = Terminals
    BY <1>5 DEF StandsStill, Terminals
  <2> QED BY <1>4, <1>5, <2>1 DEF StandsStill
<1>6. CASE Project
  <2>1. /\ CanProject /\ kafka' = kafka /\ external' = external /\ log' = log
        /\ db' = [db EXCEPT !.projected = Max({db.projected, Envelope.hi})]
        /\ proj' = [proj EXCEPT !.pos = @ + 1, !.stored = proj.pos]
    BY <1>6 DEF Project
  <2>2. db'.persisted = db.persisted /\ db'.projected = Max({db.projected, Envelope.hi})
    BY <2>1 DEF PipeInv, PipeTypes, Cursors
  <2>3. proj'.stored = proj.pos
    BY <2>1, ProjectorFacts
  <2>4. Envelope.hi \in Nat
    BY <2>1, NextEnvelope
  <2>5. Envelope.hi <= db'.projected
    BY <1>1, <2>2, <2>4, MaxPair
  <2> QED BY <1>4, <2>1, <2>2, <2>3, <2>5
<1>7. ASSUME LiveStep, ~Project
      PROVE BatchesInOrder'
  <2>1. kafka' = kafka /\ external' = external /\ db' = db
    BY <1>7 DEF LiveStep, ProjectRollback, SkipProjected, ProjectConflict, LoseLive,
                GatewayCrash, StartGateway, storeVars
  <2>2. proj' = proj \/ SkipProjected \/ ProjectConflict \/ GatewayCrash
    BY <1>7 DEF LiveStep, ProjectRollback, LoseLive, StartGateway
  <2>3. SkipProjected => proj' = [proj EXCEPT !.pos = @ + 1]
    BY DEF SkipProjected
  <2>4. ProjectConflict => proj' = [proj EXCEPT !.dead = TRUE]
    BY DEF ProjectConflict
  <2>5. GatewayCrash => \E pos : proj' = [proj EXCEPT !.pos = pos, !.dead = FALSE]
    BY DEF GatewayCrash
  <2>6. proj'.stored = proj.stored
    BY <2>2, <2>3, <2>4, <2>5, ProjectorFacts
  <2> QED BY <1>4, <2>1, <2>6
<1>8. ASSUME NEW f \in Fences, RetentionStep(f)
      PROVE BatchesInOrder'
  <2>1. kafka' = kafka /\ external' = external /\ proj' = proj
    BY <1>8 DEF RetentionStep, Trim, RaiseFloor, CompactionFails
  <2>2. db' = db \/ \E n : db' = [db EXCEPT !.floor = n]
    BY <1>8 DEF RetentionStep, Trim, RaiseFloor, CompactionFails, storeVars
  <2>3. db'.persisted = db.persisted
    BY <2>2 DEF PipeInv, PipeTypes, Cursors
  <2> QED BY <1>4, <2>1, <2>3
<1>9. ASSUME NEW f \in Fences, NEW o \in {"completed", "failed"}, CommitTerminal(f, o), Closed(f)
      PROVE BatchesInOrder'
  <2>1. kafka' = kafka /\ external' = external /\ proj' = proj /\ db'.persisted = db.persisted + 1
    <3>1. db'.persisted = db.persisted + 1
      BY <1>9, CommitFrame
    <3> QED BY <1>9, <3>1 DEF CommitTerminal
  <2>2. db.persisted + 1 \in Terminals'
    BY <1>9 DEF Closed
  <2>3. \A s \in 1..db'.persisted : s \in 1..db.persisted \/ s \in Terminals'
    BY <1>1, <2>1, <2>2
  <2> QED BY <1>4, <2>1, <2>3
<1>10. ASSUME NEW b \in Batches, kafka' = Append(kafka, b), b.lo = db.persisted + 1,
              external' = external, proj' = proj,
              \A s \in 1..db'.persisted : \/ s \in 1..db.persisted
                                          \/ s \in b.lo..b.hi /\ b.hi <= db'.persisted
       PROVE BatchesInOrder'
  <2>1. /\ \A i, j \in DOMAIN kafka' : i <= j => kafka'[i].lo <= kafka'[j].lo
        /\ \A i \in DOMAIN kafka' : kafka'[i].lo <= db'.persisted + 1
        /\ \A i \in DOMAIN kafka : i \in DOMAIN kafka' /\ kafka'[i] = kafka[i]
        /\ Len(kafka) + 1 \in DOMAIN kafka' /\ kafka'[Len(kafka) + 1] = b
    BY <1>2, <1>10, AppendKeepsOrder
  <2>2. \A i \in 1..proj.stored : kafka'[i].hi <= db'.projected
    BY <1>3, <2>1
  <2>3. ASSUME external, NEW s \in 1..db'.persisted
        PROVE s \in Terminals' \/ \E i \in DOMAIN kafka' : InBatch(s, i)' /\ kafka'[i].hi <= db'.persisted
    <3>1. CASE s \in b.lo..b.hi /\ b.hi <= db'.persisted
      <4>1. PICK n : n = Len(kafka) + 1
        OBVIOUS
      <4>2. n \in DOMAIN kafka' /\ kafka'[n] = b
        BY <2>1, <4>1
      <4>3. s \in kafka'[n].lo..kafka'[n].hi /\ kafka'[n].hi <= db'.persisted
        BY <3>1, <4>2
      <4> QED BY <4>2, <4>3 DEF InBatch
    <3>2. CASE s \in 1..db.persisted
      <4>1. CASE s \in Terminals
        BY <1>2, <4>1
      <4>2. CASE s \notin Terminals
        <5>1. PICK i \in DOMAIN kafka : InBatch(s, i) /\ kafka[i].hi <= db.persisted
          BY <2>3, <3>2, <4>2 DEF BatchesInOrder
        <5>2. i \in DOMAIN kafka' /\ kafka'[i] = kafka[i] /\ kafka[i].hi <= db'.persisted
          BY <1>1, <1>2, <2>1, <5>1, BatchNumbers
        <5>3. s \in kafka'[i].lo..kafka'[i].hi /\ kafka'[i].hi <= db'.persisted
          BY <5>1, <5>2 DEF InBatch
        <5> QED BY <5>2, <5>3 DEF InBatch
      <4> QED BY <4>1, <4>2
    <3> QED BY <1>10, <3>1, <3>2
  <2> QED BY <1>10, <2>1, <2>2, <2>3 DEF BatchesInOrder
<1>11. ASSUME NEW m \in net, IngestRollback(m)
       PROVE BatchesInOrder'
  <2>1. m \in Batches /\ ~(m.hi <= db.persisted) /\ kafka' = Kafka(m) /\ db' = db /\ proj' = proj
        /\ external' = external
    BY <1>11 DEF IngestRollback, IngestOutcome, PipeInv, PipeTypes, storeVars
  <2>2. PICK b : b = [by |-> m.by, lo |-> db.persisted + 1, hi |-> m.hi, via |-> m.via]
    OBVIOUS
  <2>3. b \in Batches /\ b.lo = db.persisted + 1 /\ kafka' = Append(kafka, b)
    BY <1>1, <2>1, <2>2 DEF Batches, Kafka
  <2> QED BY <1>10, <2>1, <2>3
<1>12. ASSUME NEW m \in net, Ingest(m), IngestOutcome(m) = "accept", Accepted(m)
       PROVE BatchesInOrder'
  <2>1. /\ m \in Batches /\ m.by \in Fences /\ m.lo \in Nat /\ m.hi \in Nat /\ Persist(m)
        /\ external' = external /\ proj' = proj
    BY <1>12, IngestFrame
  <2>2. db.persisted < m.hi /\ db'.persisted = m.hi
    BY <1>12 DEF Accepted
  <2>3. CASE external
    <3>1. kafka' = Kafka(m)
      BY <2>1, <2>3 DEF Persist
    <3>2. PICK b : b = [by |-> m.by, lo |-> db.persisted + 1, hi |-> m.hi, via |-> m.via]
      OBVIOUS
    <3>3. b \in Batches /\ b.lo = db.persisted + 1 /\ b.hi = m.hi /\ kafka' = Append(kafka, b)
      BY <1>1, <2>1, <2>2, <3>1, <3>2 DEF Batches, Kafka
    <3>4. \A s \in 1..db'.persisted : s \in 1..db.persisted \/ (s \in b.lo..b.hi /\ b.hi <= db'.persisted)
      BY <1>1, <2>1, <2>2, <3>3
    <3> QED BY <1>10, <2>1, <3>3, <3>4
  <2>4. CASE ~external
    <3>1. kafka' = kafka /\ kafka = << >>
      BY <2>1, <2>4 DEF Persist, PipeInv, KafkaOK
    <3>2. DOMAIN kafka = {} /\ proj'.stored = 0
      BY <1>1, <2>1, <3>1
    <3> QED BY <2>1, <2>4, <3>1, <3>2 DEF BatchesInOrder
  <2> QED BY <2>3, <2>4
<1> QED BY <1>5, <1>6, <1>7, <1>8, <1>9, <1>11, <1>12, ProjectorKinds

(* What stopped a projector stays.                                         *)
LEMMA ReasonsStay ==
  ASSUME PipeInv, PipelineNext, gateway, NEW s \in Nat, Orphaned \/ Recut \/ Gone(s)
  PROVE Orphaned' \/ Recut' \/ Gone(s)'
<1>1. /\ \A f : Settled(f) => TerminalOf(f)' = TerminalOf(f)
      /\ BatchesStay /\ JobsStay
  BY CursorsGrow, JobsOnlyAdvance
<1>2. Orphaned => Orphaned'
  BY OrphansStay
<1>3. ASSUME Recut PROVE Recut'
  <2>1. PICK i \in DOMAIN kafka, j \in DOMAIN kafka :
           /\ kafka[i].lo <= kafka[j].hi /\ kafka[j].lo <= kafka[i].hi
           /\ kafka[i].hi # kafka[j].hi \/ kafka[i].via # kafka[j].via
    BY <1>3 DEF Recut
  <2>2. i \in DOMAIN kafka' /\ j \in DOMAIN kafka' /\ kafka'[i] = kafka[i] /\ kafka'[j] = kafka[j]
    BY <1>1 DEF BatchesStay
  <2> QED BY <2>1, <2>2 DEF Recut
<1>4. live.lost => live'.lost
  <2>1. CASE live' = live
    BY <2>1
  <2>2. CASE Project \/ ProjectRollback
    <3>1. CanProject /\ Projectable /\ live' = Projected(live)
      BY <2>2 DEF Project, ProjectRollback
    <3> QED BY <3>1, ProjectedFacts
  <2>3. CASE LoseLive
    BY <2>3 DEF LoseLive
  <2>4. ~StartGateway
    BY DEF StartGateway
  <2>5. ASSUME NEW f \in Fences, Trim(f) PROVE live'.lost = live.lost
    <3>1. live' = [live EXCEPT !.events = {e \in live.events : e.seq > TerminalOf(f)},
                            !.batched = {q \in live.batched : q > TerminalOf(f)}]
      BY <2>5 DEF Trim
    <3> QED BY <3>1 DEF PipeInv, PipeTypes
  <2>6. StandsStill => live' = live
    BY DEF StandsStill
  <2>7. SkipProjected \/ ProjectConflict \/ GatewayCrash => live' = live
    BY DEF SkipProjected, ProjectConflict, GatewayCrash
  <2>8. \A f \in Fences : RaiseFloor(f) \/ CompactionFails(f) => live' = live
    BY DEF RaiseFloor, CompactionFails
  <2>9. \A m \in net : IngestRollback(m) => live' = live
    BY DEF IngestRollback
  <2>10. \A m \in net : Ingest(m) => live' = live
    BY IngestFrame
  <2>11. \A f \in Fences, o \in {"completed", "failed"} : CommitTerminal(f, o) => live' = live
    BY DEF CommitTerminal
  <2>12. CASE LiveStep
    BY <2>1, <2>2, <2>3, <2>4, <2>7, <2>12 DEF LiveStep
  <2>13. ASSUME NEW f \in Fences, RetentionStep(f) PROVE live.lost => live'.lost
    BY <2>1, <2>5, <2>8, <2>13 DEF RetentionStep
  <2> QED BY <2>1, <2>6, <2>9, <2>10, <2>11, <2>12, <2>13, ProjectorKinds
<1>5. ASSUME NEW f \in Fences, jobs[f] \in {"trimmed", "again", "done"}, s <= TerminalOf(f)
      PROVE Gone(s)'
  <2>1. Settled(f)
    BY <1>5 DEF PipeInv, CursorsOK, None
  <2>2. TerminalOf(f)' = TerminalOf(f) /\ jobs'[f] \in {"trimmed", "again", "done"}
    BY <1>1, <1>5, <2>1 DEF JobsStay, Trimming
  <2>3. s <= TerminalOf(f)'
    BY <1>5, <2>2
  <2> QED BY <2>2, <2>3 DEF Gone
<1>6. live.lost => Gone(s)'
  BY <1>4 DEF Gone
<1> QED BY <1>2, <1>3, <1>5, <1>6 DEF Gone

(* A projector that stops has a reason, and keeps it until it is restarted.*)
LEMMA StoppedKeeps ==
  ASSUME PipeInv, ProjectorOK, PipelineNext
  PROVE StoppedOK'
<1>1. SUFFICES ASSUME proj'.dead
               PROVE /\ gateway' /\ proj'.pos \in DOMAIN kafka' /\ proj'.stored < proj'.pos
                     /\ Orphaned' \/ Recut' \/ Gone(Envelope.lo)'
  BY DEF StoppedOK
<1>2. /\ proj \in [pos : Nat, stored : Nat, dead : BOOLEAN] /\ proj.pos \in Nat /\ proj.stored \in Nat
      /\ BatchesStay
  BY ProjectorFacts, CursorsGrow
<1>3. ASSUME proj' = proj, proj.dead, gateway' = gateway
      PROVE /\ gateway' /\ proj'.pos \in DOMAIN kafka' /\ proj'.stored < proj'.pos
            /\ Orphaned' \/ Recut' \/ Gone(Envelope.lo)'
  <2>1. /\ gateway /\ proj.pos \in DOMAIN kafka /\ proj.stored < proj.pos
        /\ Orphaned \/ Recut \/ Gone(Envelope.lo)
    BY <1>3 DEF ProjectorOK, StoppedOK
  <2>2. PICK s \in Nat : s = Envelope.lo
    BY <2>1, BatchNumbers DEF Envelope
  <2>3. Orphaned' \/ Recut' \/ Gone(s)'
    BY <2>1, <2>2, ReasonsStay
  <2>4. Envelope' = Envelope
    BY <1>2, <1>3, <2>1 DEF Envelope, BatchesStay
  <2>5. (Envelope.lo)' = s
    BY <2>2, <2>4
  <2>6. Gone(s)' => Gone(Envelope.lo)'
    BY <2>5 DEF Gone
  <2> QED BY <1>2, <1>3, <2>1, <2>3, <2>6 DEF BatchesStay
<1>4. CASE Project
  <2>1. ~proj.dead /\ proj' = [proj EXCEPT !.pos = @ + 1, !.stored = proj.pos]
    BY <1>4 DEF Project, CanProject
  <2>2. ~proj'.dead
    BY <1>2, <2>1
  <2> QED BY <1>1, <2>2
<1>5. CASE SkipProjected
  <2>1. proj' = [proj EXCEPT !.pos = @ + 1] /\ proj.pos <= proj.stored
    BY <1>5 DEF SkipProjected
  <2>2. proj.dead
    BY <1>1, <1>2, <2>1
  <2>3. proj.stored < proj.pos
    BY <2>2 DEF ProjectorOK, StoppedOK
  <2> QED BY <1>2, <2>1, <2>3
<1>6. CASE ProjectConflict
  <2>1. /\ CanProject /\ ~Projectable /\ proj' = [proj EXCEPT !.dead = TRUE]
        /\ kafka' = kafka /\ live' = live /\ jobs' = jobs /\ gateway' = gateway /\ log' = log /\ db' = db
    BY <1>6 DEF ProjectConflict, storeVars
  <2>2. gateway /\ proj.pos \in DOMAIN kafka /\ proj.pos > proj.stored
    BY <2>1 DEF CanProject
  <2>3. proj'.pos = proj.pos /\ proj'.stored = proj.stored
    BY <1>2, <2>1
  <2>4. Orphaned \/ Recut \/ Gone(Envelope.lo)
    BY <2>1, ProjectorWorks DEF ProjectorOK
  <2>5. Orphaned' = Orphaned /\ Recut' = Recut
    BY <2>1 DEF Orphaned, Recut
  <2>6. Gone(Envelope.lo)' = Gone(Envelope.lo)
    <3>1. Envelope' = Envelope
      BY <2>1, <2>3 DEF Envelope
    <3>2. \A f : TerminalOf(f)' = TerminalOf(f)
      BY <2>1 DEF TerminalOf, Terminals
    <3> QED BY <2>1, <3>1, <3>2 DEF Gone
  <2> QED BY <1>2, <2>1, <2>2, <2>3, <2>4, <2>5, <2>6
<1>7. CASE GatewayCrash
  <2>1. PICK pos : proj' = [proj EXCEPT !.pos = pos, !.dead = FALSE]
    BY <1>7 DEF GatewayCrash
  <2>2. ~proj'.dead
    BY <1>2, <2>1
  <2> QED BY <1>1, <2>2
<1>8. CASE StartGateway
  <2>1. ~gateway /\ proj' = proj
    BY <1>8 DEF StartGateway
  <2> QED BY <1>1, <2>1 DEF ProjectorOK, StoppedOK
<1>9. CASE StandsStill
  BY <1>1, <1>3, <1>9 DEF StandsStill
<1>10. CASE ProjectRollback \/ LoseLive
  <2>1. proj' = proj /\ gateway' = gateway
    BY <1>10 DEF ProjectRollback, LoseLive
  <2> QED BY <1>1, <1>3, <2>1
<1>11. ASSUME NEW f \in Fences, RetentionStep(f)
       PROVE proj' = proj /\ gateway' = gateway
  BY <1>11 DEF RetentionStep, Trim, RaiseFloor, CompactionFails
<1>12. ASSUME NEW m \in net, IngestRollback(m)
       PROVE proj' = proj /\ gateway' = gateway
  BY <1>12 DEF IngestRollback
<1>13. ASSUME NEW m \in net, Ingest(m)
       PROVE proj' = proj /\ gateway' = gateway
  BY <1>13, IngestFrame
<1>14. ASSUME NEW f \in Fences, NEW o \in {"completed", "failed"}, CommitTerminal(f, o)
       PROVE proj' = proj /\ gateway' = gateway
  BY <1>14 DEF CommitTerminal
<1>15. CASE LiveStep
  BY <1>4, <1>5, <1>6, <1>7, <1>8, <1>10, <1>15 DEF LiveStep
<1> QED BY <1>1, <1>3, <1>9, <1>11, <1>12, <1>13, <1>14, <1>15, ProjectorKinds

(* Steps of a browser leave it all alone.                                  *)
LEMMA ProjectorStays ==
  ASSUME ProjectorOK, PipelineStays
  PROVE ProjectorOK'
<1>1. /\ db' = db /\ log' = log /\ kafka' = kafka /\ proj' = proj /\ live' = live /\ jobs' = jobs
      /\ gateway' = gateway /\ external' = external
  BY DEF PipelineStays
<1>2. Terminals' = Terminals
  BY <1>1 DEF Terminals
<1>3. \A f : TerminalOf(f)' = TerminalOf(f)
  BY <1>1, <1>2 DEF TerminalOf
<1>4. BatchesInOrder'
  BY <1>1, <1>2 DEF ProjectorOK, BatchesInOrder, InBatch
<1>5. FloorOK'
  BY <1>1, <1>3 DEF ProjectorOK, FloorOK
<1>6. AheadOK' /\ SentOK'
  BY <1>1 DEF ProjectorOK, AheadOK, SentOK, SentAs, InBatch
<1>7. Orphaned' = Orphaned /\ Recut' = Recut /\ Envelope' = Envelope
  BY <1>1 DEF Orphaned, Recut, Envelope
<1>8. Gone(Envelope.lo)' = Gone(Envelope.lo)
  BY <1>1, <1>3, <1>7 DEF Gone
<1>9. StoppedOK'
  BY <1>1, <1>7, <1>8 DEF ProjectorOK, StoppedOK
<1> QED BY <1>4, <1>5, <1>6, <1>9 DEF ProjectorOK

(* The projector stops for no redelivery, a gateway repairs what Valkey    *)
(* lost, and a transcript is the accepted log of its Turn: where no batch  *)
(* was orphaned and none sent again, for any number of rolled-back      *)
(* appends and projections, losses, trims, crashes and redeliveries.       *)
THEOREM ReadersAreSound == Spec => []ProjectionSound
<1>1. Init => ProjectorOK
  <2>1. SUFFICES ASSUME Init PROVE ProjectorOK
    OBVIOUS
  <2>2. /\ kafka = << >> /\ live = EmptyLive /\ ~proj.dead /\ proj.stored = 0
        /\ db.persisted = 0 /\ db.projected = 0 /\ db.floor = 0
    BY <2>1 DEF Init, PipelineInit
  <2>3. live.last = 0 /\ DOMAIN kafka = {}
    BY <2>2 DEF EmptyLive
  <2>4. SentOK
    <3>1. live.batched = {} /\ Seqs(live.events) = {}
      BY <2>2, SeqsFacts DEF EmptyLive
    <3> QED BY <3>1 DEF SentOK, SentAs
  <2> QED BY <2>2, <2>3, <2>4 DEF ProjectorOK, BatchesInOrder, FloorOK, AheadOK, StoppedOK
<1>2. PipeInv /\ ProjectorOK /\ [Next]_vars => ProjectorOK'
  <2>1. PipeInv /\ ProjectorOK /\ PipelineNext => ProjectorOK'
    BY OrderKeeps, FloorKeeps, AheadKeeps, SentKeeps, StoppedKeeps DEF ProjectorOK
  <2> QED BY <2>1, NextCases, ProjectorStays
<1>3. PipeInv /\ ProjectorOK /\ TranscriptsAreCanonical => ProjectionSound
  BY RepairWorks DEF ProjectorOK, StoppedOK, ProjectorSound, ProjectionSound
<1> QED BY <1>1, <1>2, <1>3, PipelineInvariant, TranscriptsCanonical, PTL DEF Spec
=============================================================================
