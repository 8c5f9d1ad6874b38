---------------------------- MODULE ServiceProofs ----------------------------
(***************************************************************************)
(* The accounts of the Control Plane, for every number of tenants,         *)
(* replicas, registrations and logins that overlap:                        *)
(* TenancySpec => []TenancySound, and what is revoked stays so.            *)
(* The Model Gateway, for every number of gateways and model requests:     *)
(* GatewaySpec => []GatewaySound, and what is settled stays so.            *)
(***************************************************************************)
EXTENDS Tenancy, ModelGateway, FiniteSetTheorems, WellFoundedInduction, TLAPS

-----------------------------------------------------------------------------
(* Counting.                                                               *)

(* A set of natural numbers that is not empty has a least element.         *)
LEMMA LeastNat ==
  ASSUME NEW T, T \subseteq Nat, T # {}
  PROVE \E x \in T : \A y \in T : x <= y
<1> DEFINE R == {ss \in Nat \X Nat : ss[1] < ss[2]}
<1>1. IsWellFoundedOn(R, Nat)
  <2>1. SUFFICES ASSUME NEW f \in [Nat -> Nat], \A n \in Nat : f[n + 1] < f[n]
                 PROVE FALSE
    BY DEF IsWellFoundedOn
  <2> DEFINE g == [n \in Nat |-> 1..f[n]]
  <2>2. g \in [Nat -> FiniteSubsetsOf(Nat)]
    <3>1. ASSUME NEW n \in Nat PROVE 1..f[n] \in FiniteSubsetsOf(Nat)
      <4>1. IsFiniteSet(1..f[n])
        BY FS_Interval
      <4>2. 1..f[n] \in SUBSET Nat
        OBVIOUS
      <4> QED BY <4>1, <4>2 DEF FiniteSubsetsOf
    <3> QED BY <3>1
  <2>3. ASSUME NEW n \in Nat PROVE <<g[n + 1], g[n]>> \in StrictSubsetOrdering(Nat)
    <3>1. f[n + 1] < f[n] /\ f[n] \in Nat /\ f[n + 1] \in Nat
      BY <2>1
    <3>2. 1..f[n + 1] \subseteq 1..f[n] /\ f[n] \in 1..f[n] /\ f[n] \notin 1..f[n + 1]
      BY <3>1
    <3>3. 1..f[n + 1] # 1..f[n]
      BY <3>2
    <3>4. g[n + 1] = 1..f[n + 1] /\ g[n] = 1..f[n]
      OBVIOUS
    <3>5. g[n + 1] \in SUBSET Nat /\ g[n] \in SUBSET Nat
      BY <3>4
    <3> HIDE DEF g
    <3>6. <<g[n + 1], g[n]>> \in (SUBSET Nat) \X (SUBSET Nat)
      BY <3>5
    <3>7. <<g[n + 1], g[n]>>[1] \subseteq <<g[n + 1], g[n]>>[2]
          /\ <<g[n + 1], g[n]>>[1] # <<g[n + 1], g[n]>>[2]
      BY <3>2, <3>3, <3>4
    <3> QED BY <3>2, <3>3, <3>4, <3>5, <3>6, <3>7 DEF StrictSubsetOrdering
  <2>4. IsWellFoundedOn(StrictSubsetOrdering(Nat), FiniteSubsetsOf(Nat))
    BY FS_StrictSubsetOrderingWellFounded
  <2> QED BY <2>2, <2>3, <2>4 DEF IsWellFoundedOn
<1>2. \E x \in T : \A y \in T : ~ (<<y, x>> \in R)
  BY <1>1, WFMin
<1>3. PICK x \in T : \A y \in T : ~ (<<y, x>> \in R)
  BY <1>2
<1>4. \A y \in T : x <= y
  <2>1. SUFFICES ASSUME NEW y \in T, y < x PROVE FALSE
    OBVIOUS
  <2>2. <<y, x>> \in Nat \X Nat /\ <<y, x>>[1] < <<y, x>>[2]
    BY <2>1
  <2> QED BY <2>2, <1>3
<1> QED BY <1>4


\* A part of a finite set has no more elements.
LEMMA PartCount ==
  ASSUME NEW S, IsFiniteSet(S), NEW T, T \subseteq S
  PROVE  IsFiniteSet(T) /\ Cardinality(T) \in Nat /\ Cardinality(S) \in Nat
         /\ Cardinality(T) <= Cardinality(S)
  BY FS_Subset, FS_CardinalityType

\* One element more counts one more, at most.
LEMMA OneMore ==
  ASSUME NEW S, IsFiniteSet(S), NEW x, NEW T, T \subseteq S \cup {x}
  PROVE  Cardinality(T) \in Nat /\ Cardinality(S) \in Nat /\ Cardinality(T) <= Cardinality(S) + 1
  <1>1. /\ IsFiniteSet(S \cup {x}) /\ Cardinality(S) \in Nat
        /\ Cardinality(S \cup {x}) <= Cardinality(S) + 1
    <2>1. /\ IsFiniteSet(S \cup {x})
          /\ Cardinality(S \cup {x}) = IF x \in S THEN Cardinality(S) ELSE Cardinality(S) + 1
      BY FS_AddElement
    <2>2. Cardinality(S) \in Nat
      BY FS_CardinalityType
    <2>3. QED
      BY <2>1, <2>2
  <1>2. Cardinality(T) \in Nat /\ Cardinality(T) <= Cardinality(S \cup {x})
        /\ Cardinality(S \cup {x}) \in Nat
    BY <1>1, PartCount
  <1>3. QED
    BY <1>1, <1>2

\* Without one of its elements a set counts one less.
LEMMA OneLess ==
  ASSUME NEW S, IsFiniteSet(S), NEW x \in S, NEW T, T \subseteq S \ {x}
  PROVE  Cardinality(T) \in Nat /\ Cardinality(S) \in Nat /\ Cardinality(T) <= Cardinality(S) - 1
  <1>1. /\ IsFiniteSet(S \ {x}) /\ Cardinality(S) \in Nat
        /\ Cardinality(S \ {x}) = Cardinality(S) - 1
    BY FS_RemoveElement, FS_CardinalityType
  <1>2. Cardinality(T) \in Nat /\ Cardinality(T) <= Cardinality(S \ {x})
    BY <1>1, PartCount
  <1>3. QED
    BY <1>1, <1>2

\* Two sets together count no more than each of them.
LEMMA TogetherCount ==
  ASSUME NEW S, IsFiniteSet(S), NEW T, IsFiniteSet(T), NEW U, U \subseteq S \cup T
  PROVE  /\ Cardinality(U) \in Nat /\ Cardinality(S) \in Nat /\ Cardinality(T) \in Nat
         /\ Cardinality(U) <= Cardinality(S) + Cardinality(T)
  <1>1. /\ IsFiniteSet(S \cup T) /\ IsFiniteSet(S \cap T)
        /\ Cardinality(S \cup T) = Cardinality(S) + Cardinality(T) - Cardinality(S \cap T)
    <2>1. IsFiniteSet(S \cap T)
      BY PartCount
    <2>2. QED
      BY <2>1, FS_Union
  <1>2. /\ Cardinality(S) \in Nat /\ Cardinality(T) \in Nat
        /\ Cardinality(S \cap T) \in Nat /\ Cardinality(S \cup T) \in Nat
    BY <1>1, FS_CardinalityType
  <1>3. Cardinality(U) \in Nat /\ Cardinality(U) <= Cardinality(S \cup T)
    BY <1>1, PartCount
  <1>4. QED
    BY <1>1, <1>2, <1>3

\* No more than K numbers of a set have fewer than K of it above them.
LEMMA NewestCount ==
  ASSUME NEW S, IsFiniteSet(S), S \subseteq Nat, NEW K \in Nat
  PROVE  LET T == {w \in S : Cardinality({v \in S : v > w}) < K}
         IN  IsFiniteSet(T) /\ Cardinality(T) \in Nat /\ Cardinality(T) <= K
  <1> DEFINE T == {w \in S : Cardinality({v \in S : v > w}) < K}
  <1>1. IsFiniteSet(T) /\ Cardinality(T) \in Nat
    BY PartCount
  <1>2. ASSUME T = {} PROVE Cardinality(T) <= K
    <2>1. Cardinality(T) = 0
      BY <1>2, FS_EmptySet
    <2>2. QED
      BY <2>1
  <1>3. ASSUME T # {} PROVE Cardinality(T) <= K
    <2>1. T \subseteq Nat
      OBVIOUS
    <2>2. PICK m \in T : \A w \in T : m <= w
      BY <1>3, <2>1, LeastNat
    <2> DEFINE above == {v \in S : v > m}
    <2>3. Cardinality(above) < K /\ above \subseteq S
      BY <2>2
    <2>4. IsFiniteSet(above) /\ Cardinality(above) \in Nat
      BY <2>3, PartCount
    <2>5. T \subseteq above \cup {m}
      <3>1. ASSUME NEW w \in T, w # m PROVE w \in above
        BY <2>1, <2>2, <3>1
      <3>2. QED
        BY <3>1
    <2> HIDE DEF above, T
    <2>6. Cardinality(T) <= Cardinality(above) + 1
      BY <2>4, <2>5, OneMore
    <2>7. QED
      BY <1>1, <2>3, <2>4, <2>6
  <1>4. QED
    BY <1>1, <1>2, <1>3

-----------------------------------------------------------------------------
(* Tenants, accounts and sessions: the inductive invariant.                *)

\* The web_sessions rows that were ever begun.
Used == {w \in WebSessions : webSession[w].state # "none"}

\* The logins of an account that have read its list and not committed.
Pending(s) == {c \in Logins : signIn[c].at = "listed" /\ signIn[c].user = s}

\* Those of them whose session is older than h.
Before(s, h) == {c \in Pending(s) : signIn[c].id < h}

\* The active sessions older than a login's own that its list does not have.
Unseen(c) == {w \in Active(signIn[c].user) : w < signIn[c].id /\ w \notin signIn[c].listed}

\* A tenant that was made is there, and a request that is under way made none.
NamesKept ==
  /\ OneOwnerPerName
  /\ \A r \in Registrations :
       /\ registration[r].at # "none" => registration[r].slug \in Slugs
       /\ registration[r].at # "done" => ~registration[r].created
       /\ registration[r].created => registration[r].slug \in Present

\* A login that has read the list has begun the row of its session, which no
\* other login has, and the list holds committed rows of the account.
SignInsOK ==
  \A c \in Logins :
    /\ signIn[c].at # "none" => signIn[c].user \in Names
    /\ signIn[c].at # "listed" => signIn[c].id = 0
    /\ signIn[c].at = "listed" =>
         /\ signIn[c].id \in WebSessions
         /\ webSession[signIn[c].id].state = "issuing"
         /\ webSession[signIn[c].id].user = signIn[c].user
         /\ \A w \in signIn[c].listed : webSession[w].state \in {"live", "revoked"}
         /\ \A d \in Logins \ {c} : signIn[d].at = "listed" => signIn[d].id # signIn[c].id

\* created_at grows: no row is older than one that was begun before it.
UsedInOrder == \A v \in Used, w \in WebSessions : w < v => w \in Used

\* What a login does not see, it did not see because others were under way.
UnseenBounded(c) ==
  signIn[c].at = "listed" =>
    Cardinality(Unseen(c)) + Cardinality(Before(signIn[c].user, signIn[c].id))
      <= Cardinality(Logins) - 1

\* h is the newest session that was committed, or a newer one: with the logins
\* of older sessions still to come, the account keeps to its bound.
Excess(s, h) ==
  /\ \A w \in Active(s) : w <= h
  /\ Cardinality(Active(s)) + Cardinality(Before(s, h))
       <= MaximumActiveSessions + Cardinality(Logins) - 1

TenancyInv ==
  /\ TenancyTypeOK /\ NamesKept /\ SignInsOK /\ UsedInOrder
  /\ \A c \in Logins : UnseenBounded(c)
  /\ \A s \in Names : \E h \in Used \cup {0} : Excess(s, h)

\* Whatever is counted is finite.
LEMMA Counted ==
  ASSUME NEW s
  PROVE  /\ IsFiniteSet(Active(s)) /\ Cardinality(Active(s)) \in Nat
         /\ IsFiniteSet(Pending(s)) /\ Cardinality(Pending(s)) \in Nat
         /\ Cardinality(Pending(s)) <= Cardinality(Logins)
         /\ \A h : IsFiniteSet(Before(s, h)) /\ Cardinality(Before(s, h)) \in Nat
         /\ \A c : IsFiniteSet(Unseen(c)) /\ Cardinality(Unseen(c)) \in Nat
         /\ Cardinality(Logins) \in Nat /\ MaximumActiveSessions \in Nat \ {0}
  <1>1. /\ Active(s) \subseteq WebSessions /\ Pending(s) \subseteq Logins
        /\ \A h : Before(s, h) \subseteq Logins
        /\ \A c : Unseen(c) \subseteq WebSessions
    BY DEF Active, Pending, Before, Unseen
  <1>2. IsFiniteSet(WebSessions) /\ IsFiniteSet(Logins) /\ MaximumActiveSessions \in Nat \ {0}
    BY TenancyConstants
  <1>3. IsFiniteSet(Active(s)) /\ Cardinality(Active(s)) \in Nat
    BY <1>1, <1>2, PartCount
  <1>4. /\ IsFiniteSet(Pending(s)) /\ Cardinality(Pending(s)) \in Nat
        /\ Cardinality(Logins) \in Nat /\ Cardinality(Pending(s)) <= Cardinality(Logins)
    BY <1>1, <1>2, PartCount
  <1>5. ASSUME NEW h PROVE IsFiniteSet(Before(s, h)) /\ Cardinality(Before(s, h)) \in Nat
    BY <1>1, <1>2, PartCount
  <1>6. ASSUME NEW c PROVE IsFiniteSet(Unseen(c)) /\ Cardinality(Unseen(c)) \in Nat
    BY <1>1, <1>2, PartCount
  <1>7. QED
    BY <1>2, <1>3, <1>4, <1>5, <1>6

-----------------------------------------------------------------------------
(* What the steps do to the counts of an account.                          *)

\* An account for which nothing is begun: sessions may end and logins give up.
Relaxes(s) ==
  /\ Active(s)' \subseteq Active(s) /\ Pending(s)' \subseteq Pending(s)
  /\ \A c \in Pending(s)' : signIn'[c] = signIn[c]

\* It keeps its bounds.
LEMMA RelaxesKeeps ==
  ASSUME NEW s, Relaxes(s)
  PROVE  /\ \A h : Excess(s, h) => Excess(s, h)'
         /\ \A c \in Logins : UnseenBounded(c) /\ signIn'[c].user = s => UnseenBounded(c)'
  <1>1. \A h : Before(s, h)' \subseteq Before(s, h)
    BY DEF Relaxes, Before
  <1>2. ASSUME NEW h, Excess(s, h) PROVE Excess(s, h)'
    BY <1>1, Counted, PartCount, <1>2 DEF Relaxes, Excess
  <1>3. ASSUME NEW c \in Logins, UnseenBounded(c), signIn'[c].user = s, signIn'[c].at = "listed"
        PROVE  UnseenBounded(c)'
    <2>1. c \in Pending(s)'
      BY <1>3 DEF Pending
    <2>2. signIn'[c] = signIn[c]
      BY <2>1 DEF Relaxes
    <2>3. signIn[c].user = s /\ signIn[c].at = "listed"
      BY <1>3, <2>2
    <2>4. Unseen(c)' \subseteq Unseen(c)
      BY <2>2, <2>3 DEF Unseen, Relaxes
    <2>5. Cardinality(Unseen(c)') \in Nat /\ Cardinality(Unseen(c)) \in Nat
          /\ Cardinality(Unseen(c)') <= Cardinality(Unseen(c))
      BY <2>4, Counted, PartCount
    <2>6. PICK h : h = signIn[c].id
      OBVIOUS
    <2>7. Cardinality(Before(s, h)') \in Nat /\ Cardinality(Before(s, h)) \in Nat
          /\ Cardinality(Before(s, h)') <= Cardinality(Before(s, h))
      BY <1>1, Counted, PartCount
    <2>8. Cardinality(Unseen(c)) + Cardinality(Before(s, h)) <= Cardinality(Logins) - 1
      BY <1>3, <2>3, <2>6 DEF UnseenBounded
    <2>9. Cardinality(Unseen(c)') + Cardinality(Before(s, h)') <= Cardinality(Logins) - 1
      <3>1. Cardinality(Logins) \in Nat
        BY Counted
      <3>2. QED
        BY <2>5, <2>7, <2>8, <3>1
    <2>10. QED
      BY <1>3, <2>2, <2>6, <2>9 DEF UnseenBounded
  <1>4. QED
    BY <1>2, <1>3 DEF UnseenBounded

\* Where no account gains anything, all keep their bounds.
LEMMA AllRelax ==
  ASSUME TenancyInv, \A s : Relaxes(s), Used \subseteq Used'
  PROVE  /\ \A c \in Logins : UnseenBounded(c)'
         /\ \A s \in Names : \E h \in Used' \cup {0} : Excess(s, h)'
  <1>1. ASSUME NEW c \in Logins PROVE UnseenBounded(c)'
    BY RelaxesKeeps DEF TenancyInv
  <1>2. ASSUME NEW s \in Names PROVE \E h \in Used' \cup {0} : Excess(s, h)'
    BY RelaxesKeeps DEF TenancyInv
  <1>3. QED
    BY <1>1, <1>2

\* Where a login's row stays, so do the row of its session and its list.
LEMMA SignInStays ==
  ASSUME TenancyInv, NEW c \in Logins, signIn'[c] = signIn[c],
         signIn[c].at = "listed" => /\ webSession'[signIn[c].id] = webSession[signIn[c].id]
                                    /\ \A w \in signIn[c].listed :
                                         webSession'[w].state \in {webSession[w].state, "revoked"}
  PROVE  /\ signIn'[c].at # "none" => signIn'[c].user \in Names
         /\ signIn'[c].at # "listed" => signIn'[c].id = 0
         /\ signIn'[c].at = "listed" =>
              /\ signIn'[c].id \in WebSessions
              /\ webSession'[signIn'[c].id].state = "issuing"
              /\ webSession'[signIn'[c].id].user = signIn'[c].user
              /\ \A w \in signIn'[c].listed : webSession'[w].state \in {"live", "revoked"}
  BY DEF TenancyInv, SignInsOK

\* A login that lists takes the oldest row that is left, and sees all there is.
LEMMA ListKeeps ==
  ASSUME TenancyInv, NEW c \in Logins, NEW w \in WebSessions, listActive(c, w)
  PROVE  TenancyInv'
  <1>1. PICK u : u = signIn[c].user
    OBVIOUS
  <1>2. /\ signIn[c].at = "issue" /\ webSession[w].state = "none"
        /\ \A v \in WebSessions : v < w => v \in Used
        /\ UNCHANGED <<tenantId, registration, apiCredential, enabled>>
    BY DEF listActive, Used
  <1>3. WebSessions \subseteq Nat \ {0}
    BY TenancyConstants
  <1>4. u \in Names /\ signIn[c].id = 0
    BY <1>1, <1>2 DEF TenancyInv, SignInsOK
  <1>5. /\ signIn' = [signIn EXCEPT ![c] = [at |-> "listed", user |-> u, id |-> w,
                                            listed |-> Active(u)]]
        /\ signIn'[c] = [at |-> "listed", user |-> u, id |-> w, listed |-> Active(u)]
        /\ \A d \in Logins \ {c} : signIn'[d] = signIn[d]
    <2>1. PICK q : q = signIn[c]
      OBVIOUS
    <2>2. q \in [at : {"none", "issue", "listed"}, user : Names \cup {NoSlug},
                id : WebSessions \cup {0}, listed : SUBSET WebSessions]
      BY <2>1 DEF TenancyInv, TenancyTypeOK
    <2>3. PICK x : x = [q EXCEPT !.at = "listed", !.id = w, !.listed = Active(u)]
      OBVIOUS
    <2>4. x = [at |-> "listed", user |-> u, id |-> w, listed |-> Active(u)]
      BY <1>1, <2>1, <2>2, <2>3
    <2>5. signIn' = [signIn EXCEPT ![c] = x]
      BY <1>1, <2>1, <2>3 DEF listActive, TenancyInv, TenancyTypeOK
    <2>6. DOMAIN signIn = Logins
      BY DEF TenancyInv, TenancyTypeOK
    <2>7. QED
      BY <2>4, <2>5, <2>6
  <1>6. /\ webSession' = [webSession EXCEPT ![w] = [state |-> "issuing", user |-> u]]
        /\ webSession'[w] = [state |-> "issuing", user |-> u]
        /\ \A v \in WebSessions \ {w} : webSession'[v] = webSession[v]
    BY <1>1 DEF listActive, TenancyInv, TenancyTypeOK
  <1>7. \A s : Active(s)' = Active(s)
    BY <1>2, <1>6 DEF Active
  <1>8. Used' = Used \cup {w} /\ w \notin Used
    BY <1>2, <1>6 DEF Used
  <1>9. \A v \in Used : v < w
    <2>1. ASSUME NEW v \in Used, ~(v < w) PROVE FALSE
      BY <1>8, <1>3, <2>1 DEF Used, TenancyInv, UsedInOrder
    <2>2. QED
      BY <2>1
  <1>10. \A d \in Logins \ {c} : signIn[d].at = "listed" => signIn[d].id \in Used
    BY DEF TenancyInv, SignInsOK, Used
  <1>11. TenancyTypeOK'
    BY <1>4, <1>5, <1>6, <1>2 DEF Active, TenancyInv, TenancyTypeOK
  <1>12. NamesKept'
    BY <1>2 DEF TenancyInv, NamesKept, OneOwnerPerName, Present
  <1>13. SignInsOK'
    <2>1. ASSUME NEW d \in Logins \ {c}
          PROVE  /\ signIn'[d].at # "none" => signIn'[d].user \in Names
                 /\ signIn'[d].at # "listed" => signIn'[d].id = 0
                 /\ signIn'[d].at = "listed" =>
                      /\ signIn'[d].id \in WebSessions
                      /\ webSession'[signIn'[d].id].state = "issuing"
                      /\ webSession'[signIn'[d].id].user = signIn'[d].user
                      /\ \A v \in signIn'[d].listed : webSession'[v].state \in {"live", "revoked"}
      <3>1. signIn[d].at = "listed" =>
              /\ webSession'[signIn[d].id] = webSession[signIn[d].id]
              /\ \A v \in signIn[d].listed : webSession'[v].state \in {webSession[v].state, "revoked"}
        BY <1>8, <1>10, <1>2, <1>6 DEF Used, TenancyInv, TenancyTypeOK, SignInsOK
      <3>2. d \in Logins /\ signIn'[d] = signIn[d]
        BY <1>5
      <3>3. QED
        BY <3>1, <3>2, SignInStays
    <2>2. \A v \in Active(u) : webSession'[v].state = "live"
      BY <1>2, <1>6 DEF Active
    <2>3. \A d \in Logins \ {c} : signIn'[d].at = "listed" => signIn'[d].id # w
      BY <1>5, <1>8, <1>10
    <2>4. \A d, e \in Logins \ {c} :
            d # e /\ signIn'[d].at = "listed" /\ signIn'[e].at = "listed"
              => signIn'[d].id # signIn'[e].id
      BY <1>5 DEF TenancyInv, SignInsOK
    <2>5. QED
      BY <1>4, <1>5, <1>6, <2>1, <2>2, <2>3, <2>4 DEF SignInsOK
  <1>14. UsedInOrder'
    <2>1. ASSUME NEW v \in Used', NEW x \in WebSessions, x < v PROVE x \in Used'
      BY <1>2, <1>8, <2>1 DEF TenancyInv, UsedInOrder
    <2>2. QED
      BY <2>1 DEF UsedInOrder
  <1>15. \A s, h : h \in Used \cup {0} => Before(s, h)' = Before(s, h)
    <2>1. ASSUME NEW s, NEW h, h \in Used \cup {0} PROVE Before(s, h)' = Before(s, h)
      <3>1. ~(w < h)
        <4>1. CASE h = 0
          BY <1>3, <4>1
        <4>2. CASE h \in Used
          BY <1>3, <1>9, <4>2 DEF Used
        <4>3. QED
          BY <2>1, <4>1, <4>2
      <3>2. c \notin Before(s, h)' /\ c \notin Before(s, h)
        BY <1>2, <1>5, <3>1 DEF Before, Pending
      <3>3. \A d \in Logins \ {c} : d \in Before(s, h)' <=> d \in Before(s, h)
        BY <1>5 DEF Before, Pending
      <3>4. Before(s, h) \subseteq Logins /\ Before(s, h)' \subseteq Logins
        BY DEF Before, Pending
      <3>5. QED
        BY <3>2, <3>3, <3>4
    <2>2. QED
      BY <2>1
  <1>16. ASSUME NEW s \in Names PROVE \E h \in Used' \cup {0} : Excess(s, h)'
    BY <1>7, <1>15, <1>8 DEF TenancyInv, Excess
  <1>17. ASSUME NEW d \in Logins, signIn'[d].at = "listed" PROVE UnseenBounded(d)'
    <2>1. CASE d = c
      <3>1. Unseen(c)' = {}
        BY <1>5, <1>7 DEF Unseen
      <3>2. Before(u, w)' \subseteq Logins \ {c}
        BY <1>3, <1>5 DEF Before, Pending
      <3>3. Cardinality(Before(u, w)') \in Nat /\ Cardinality(Logins) \in Nat
            /\ Cardinality(Before(u, w)') <= Cardinality(Logins) - 1
        BY TenancyConstants, <3>2, OneLess
      <3>4. Cardinality(Unseen(c)') + Cardinality(Before(u, w)') <= Cardinality(Logins) - 1
        BY <3>1, FS_EmptySet, <3>3
      <3>5. QED
        BY <1>5, <2>1, <3>4 DEF UnseenBounded
    <2>2. CASE d # c
      BY <1>5, <1>10, <1>17, <2>2, <1>7, <1>15 DEF TenancyInv, Unseen, UnseenBounded
    <2>3. QED
      BY <2>1, <2>2
  <1>18. \A d \in Logins : UnseenBounded(d)'
    BY <1>17 DEF UnseenBounded
  <1>19. QED
    BY <1>11, <1>12, <1>13, <1>14, <1>16, <1>18 DEF TenancyInv

\* What a commit leaves of its list is one less than the maximum.
LEMMA ListedLeft ==
  ASSUME NEW L, L \subseteq WebSessions
  PROVE  /\ IsFiniteSet(L \ surplus(L)) /\ Cardinality(L \ surplus(L)) \in Nat
         /\ Cardinality(L \ surplus(L)) <= MaximumActiveSessions - 1
  <1>1. /\ IsFiniteSet(WebSessions) /\ WebSessions \subseteq Nat /\ MaximumActiveSessions \in Nat \ {0}
    BY TenancyConstants
  <1>2. IsFiniteSet(L) /\ L \subseteq Nat
    BY <1>1, PartCount
  <1>3. PICK K \in Nat : K = MaximumActiveSessions - 1
    BY <1>1
  <1> DEFINE newest == {w \in L : Cardinality({v \in L : v > w}) < K}
  <1>4. IsFiniteSet(newest) /\ Cardinality(newest) \in Nat /\ Cardinality(newest) <= K
    BY <1>2, NewestCount
  <1>5. \A w : Cardinality({v \in L : v > w}) \in Nat
    <2>1. ASSUME NEW w PROVE Cardinality({v \in L : v > w}) \in Nat
      BY <1>2, PartCount
    <2>2. QED
      BY <2>1
  <1>6. L \ surplus(L) = newest
    <2>1. ASSUME NEW w \in L PROVE w \notin surplus(L) <=> w \in newest
      <3>1. PICK n \in Nat : n = Cardinality({v \in L : v > w})
        BY <1>5
      <3>2. w \in newest <=> n < K
        BY <3>1
      <3>3. w \in surplus(L) <=> n >= K
        BY <1>3, <3>1 DEF surplus
      <3>4. QED
        BY <3>2, <3>3
    <2>2. QED
      BY <2>1
  <1>7. QED
    BY <1>3, <1>4, <1>6

\* A commit keeps the bound of its account: its own session takes the place it
\* had among the logins under way, or is the newest, and then all that is older
\* was in its list or is counted by what it did not see.
LEMMA IssueExcess ==
  ASSUME TenancyInv, NEW c \in Logins, NEW u \in Names, NEW w \in WebSessions,
         signIn[c].at = "listed", signIn[c].user = u, signIn[c].id = w,
         webSession[w].state = "issuing",
         Active(u)' \subseteq (Active(u) \ surplus(signIn[c].listed)) \cup {w},
         \A h : Before(u, h)' = Before(u, h) \ {c},
         w \in Used', Used \subseteq Used'
  PROVE  \E h \in Used' \cup {0} : Excess(u, h)'
  <1>1. /\ WebSessions \subseteq Nat \ {0} /\ Cardinality(Logins) \in Nat
        /\ MaximumActiveSessions \in Nat \ {0}
    BY TenancyConstants, Counted
  <1>2. PICK h \in Used \cup {0} : Excess(u, h)
    BY DEF TenancyInv
  <1>3. h \in Nat
    BY <1>1, <1>2 DEF Used
  <1>4. CASE w < h
    <2>1. c \in Before(u, h)
      BY <1>4 DEF Before, Pending
    <2>2. /\ Cardinality(Before(u, h)') \in Nat /\ Cardinality(Before(u, h)) \in Nat
          /\ Cardinality(Before(u, h)') <= Cardinality(Before(u, h)) - 1
      BY Counted, <2>1, OneLess
    <2>3. /\ Cardinality(Active(u)') \in Nat /\ Cardinality(Active(u)) \in Nat
          /\ Cardinality(Active(u)') <= Cardinality(Active(u)) + 1
      BY Counted, OneMore
    <2>4. Cardinality(Active(u)) + Cardinality(Before(u, h))
            <= MaximumActiveSessions + Cardinality(Logins) - 1
      BY <1>2 DEF Excess
    <2>5. Cardinality(Active(u)') + Cardinality(Before(u, h)')
            <= MaximumActiveSessions + Cardinality(Logins) - 1
      BY <1>1, <2>2, <2>3, <2>4
    <2>6. \A v \in Active(u)' : v <= h
      BY <1>2, <1>1, <1>3, <1>4 DEF Excess
    <2>7. Excess(u, h)'
      BY <2>5, <2>6 DEF Excess
    <2>8. QED
      BY <1>2, <2>7
  <1>5. CASE ~(w < h)
    <2>1. h <= w /\ w \in Nat
      BY <1>1, <1>3, <1>5
    <2>2. \A v \in Active(u) : v < w
      <3>1. ASSUME NEW v \in Active(u) PROVE v < w
        BY <1>1, <1>2, <1>3, <2>1 DEF Active, Excess
      <3>2. QED
        BY <3>1
    <2>3. PICK L : L = signIn[c].listed
      OBVIOUS
    <2>4. L \subseteq WebSessions
      BY <2>3 DEF TenancyInv, TenancyTypeOK
    <2>5. Active(u)' \subseteq ((L \ surplus(L)) \cup Unseen(c)) \cup {w}
      BY <2>2, <2>3 DEF Unseen
    <2>6. PICK kept : kept = L \ surplus(L)
      OBVIOUS
    <2>7. /\ IsFiniteSet(kept) /\ Cardinality(kept) \in Nat
          /\ Cardinality(kept) <= MaximumActiveSessions - 1
      BY <2>4, <2>6, ListedLeft
    <2>8. PICK unseen : unseen = Unseen(c)
      OBVIOUS
    <2>9. IsFiniteSet(unseen) /\ Cardinality(unseen) \in Nat
      BY <2>8, Counted
    <2>10. PICK both : both = kept \cup unseen
      OBVIOUS
    <2>11. IsFiniteSet(both)
      BY <2>7, <2>9, <2>10, FS_Union
    <2>12. Cardinality(both) \in Nat /\ Cardinality(both) <= Cardinality(kept) + Cardinality(unseen)
      BY <2>7, <2>9, <2>10, TogetherCount
    <2>13. Active(u)' \subseteq both \cup {w}
      BY <2>5, <2>6, <2>8, <2>10
    <2>14. Cardinality(Active(u)') \in Nat /\ Cardinality(Active(u)') <= Cardinality(both) + 1
      BY <2>11, <2>13, OneMore
    <2>15. PICK before : before = Before(u, w)
      OBVIOUS
    <2>16. IsFiniteSet(before) /\ Before(u, w)' \subseteq before
      BY <2>15, Counted
    <2>17. /\ Cardinality(Before(u, w)') \in Nat /\ Cardinality(before) \in Nat
           /\ Cardinality(Before(u, w)') <= Cardinality(before)
      BY <2>16, PartCount
    <2>18. Cardinality(unseen) + Cardinality(before) <= Cardinality(Logins) - 1
      BY <2>8, <2>15 DEF TenancyInv, UnseenBounded
    <2>19. Cardinality(Active(u)') + Cardinality(Before(u, w)')
             <= MaximumActiveSessions + Cardinality(Logins) - 1
      BY <1>1, <2>7, <2>9, <2>12, <2>14, <2>17, <2>18
    <2>20. \A v \in Active(u)' : v <= w
      <3>1. ASSUME NEW v \in Active(u) PROVE v <= w
        BY <1>1, <2>2, <2>1 DEF Active
      <3>2. QED
        BY <2>1, <3>1
    <2>21. Excess(u, w)'
      BY <2>19, <2>20 DEF Excess
    <2>22. QED
      BY <2>21
  <1>6. QED
    BY <1>4, <1>5

\* What another login of the account does not see grows by the session that is
\* committed, and the logins under way lose the one that committed it.
LEMMA IssueUnseen ==
  ASSUME TenancyInv, NEW c \in Logins, NEW u \in Names, NEW w \in WebSessions,
         signIn[c].at = "listed", signIn[c].user = u, signIn[c].id = w,
         Active(u)' \subseteq Active(u) \cup {w},
         \A h : Before(u, h)' = Before(u, h) \ {c},
         NEW d \in Logins \ {c}, signIn'[d] = signIn[d],
         signIn[d].at = "listed", signIn[d].user = u
  PROVE  UnseenBounded(d)'
  <1>1. WebSessions \subseteq Nat \ {0} /\ Cardinality(Logins) \in Nat
    BY TenancyConstants, Counted
  <1>2. PICK h \in WebSessions : h = signIn[d].id
    BY DEF TenancyInv, SignInsOK
  <1>3. PICK unseen, before : unseen = Unseen(d) /\ before = Before(u, h)
    OBVIOUS
  <1>4. /\ IsFiniteSet(unseen) /\ Cardinality(unseen) \in Nat
        /\ IsFiniteSet(before) /\ Cardinality(before) \in Nat
    BY <1>3, Counted
  <1>5. Cardinality(unseen) + Cardinality(before) <= Cardinality(Logins) - 1
    BY <1>2, <1>3 DEF TenancyInv, UnseenBounded
  <1>6. \A v \in Unseen(d)' : v \in unseen \/ (v = w /\ w < h)
    BY <1>2, <1>3 DEF Unseen
  <1>7. Cardinality(Unseen(d)') + Cardinality(Before(u, h)') <= Cardinality(Logins) - 1
    <2>1. CASE w < h
      <3>1. c \in before
        BY <1>3, <2>1 DEF Before, Pending
      <3>2. Before(u, h)' \subseteq before \ {c}
        BY <1>3
      <3>3. Cardinality(Before(u, h)') \in Nat /\ Cardinality(Before(u, h)') <= Cardinality(before) - 1
        BY <1>4, <3>1, <3>2, OneLess
      <3>4. Unseen(d)' \subseteq unseen \cup {w}
        BY <1>6
      <3>5. Cardinality(Unseen(d)') \in Nat /\ Cardinality(Unseen(d)') <= Cardinality(unseen) + 1
        BY <1>4, <3>4, OneMore
      <3>6. QED
        BY <1>1, <1>4, <1>5, <3>3, <3>5
    <2>2. CASE ~(w < h)
      BY <1>3, <1>6, <2>2, <1>4, PartCount, <1>1, <1>5
    <2>3. QED
      BY <2>1, <2>2
  <1>8. QED
    BY <1>2, <1>7 DEF UnseenBounded

\* Rows are committed or end, and logins end.
LEMMA SessionsStep ==
  ASSUME TenancyInv,
         webSession' \in [WebSessions -> [state : {"none", "issuing", "live", "revoked"},
                                          user : Names \cup {NoSlug}]],
         signIn' \in [Logins -> [at : {"none", "issue", "listed"},
                                 user : Names \cup {NoSlug}, id : WebSessions \cup {0},
                                 listed : SUBSET WebSessions]],
         UNCHANGED <<tenantId, registration, apiCredential, enabled>>,
         \A v \in WebSessions : webSession'[v].state = "none" <=> webSession[v].state = "none",
         \A v \in WebSessions : webSession[v].state \in {"live", "revoked"} =>
                                  webSession'[v].state \in {webSession[v].state, "revoked"},
         \A d \in Logins :
           \/ signIn'[d].at = "none" /\ signIn'[d].id = 0
           \/ /\ signIn'[d] = signIn[d]
              /\ signIn[d].at = "listed" => webSession'[signIn[d].id] = webSession[signIn[d].id]
  PROVE  TenancyTypeOK' /\ NamesKept' /\ SignInsOK' /\ UsedInOrder' /\ Used' = Used
  <1>1. TenancyTypeOK'
    BY DEF TenancyInv, TenancyTypeOK
  <1>2. NamesKept'
    BY DEF TenancyInv, NamesKept, OneOwnerPerName, Present
  <1>3. Used' = Used
    BY DEF Used
  <1>4. UsedInOrder'
    BY <1>3 DEF TenancyInv, UsedInOrder
  <1>5. ASSUME NEW d \in Logins, signIn'[d].at # "none"
        PROVE  /\ signIn'[d] = signIn[d] /\ signIn'[d].user \in Names
               /\ signIn'[d].at # "listed" => signIn'[d].id = 0
               /\ signIn'[d].at = "listed" =>
                    /\ signIn'[d].id \in WebSessions
                    /\ webSession'[signIn'[d].id].state = "issuing"
                    /\ webSession'[signIn'[d].id].user = signIn'[d].user
                    /\ \A v \in signIn'[d].listed : webSession'[v].state \in {"live", "revoked"}
    <2>1. /\ signIn'[d] = signIn[d]
          /\ signIn[d].at = "listed" => webSession'[signIn[d].id] = webSession[signIn[d].id]
      BY <1>5
    <2>2. signIn[d].at = "listed" =>
            \A v \in signIn[d].listed : webSession'[v].state \in {webSession[v].state, "revoked"}
      <3>1. ASSUME signIn[d].at = "listed", NEW v \in signIn[d].listed
            PROVE  webSession'[v].state \in {webSession[v].state, "revoked"}
        BY <3>1 DEF TenancyInv, TenancyTypeOK, SignInsOK
      <3>2. QED
        BY <3>1
    <2>3. /\ signIn'[d].at # "none" => signIn'[d].user \in Names
          /\ signIn'[d].at # "listed" => signIn'[d].id = 0
          /\ signIn'[d].at = "listed" =>
               /\ signIn'[d].id \in WebSessions
               /\ webSession'[signIn'[d].id].state = "issuing"
               /\ webSession'[signIn'[d].id].user = signIn'[d].user
               /\ \A v \in signIn'[d].listed : webSession'[v].state \in {"live", "revoked"}
      BY <2>1, <2>2, SignInStays
    <2>4. QED
      BY <1>5, <2>1, <2>3
  <1>6. \A d, e \in Logins :
          d # e /\ signIn'[d].at = "listed" /\ signIn'[e].at = "listed"
            => signIn'[d].id # signIn'[e].id
    <2>1. ASSUME NEW d \in Logins, NEW e \in Logins, d # e,
                 signIn'[d].at = "listed", signIn'[e].at = "listed"
          PROVE  signIn'[d].id # signIn'[e].id
      BY <1>5, <2>1 DEF TenancyInv, SignInsOK
    <2>2. QED
      BY <2>1
  <1>7. \A d \in Logins : signIn'[d].at = "none" => signIn'[d].id = 0
    BY DEF TenancyInv, SignInsOK
  <1>8. SignInsOK'
    BY <1>5, <1>6, <1>7 DEF SignInsOK
  <1>9. QED
    BY <1>1, <1>2, <1>3, <1>4, <1>8

\* A login is over.
LEMMA NoSignInFields ==
  /\ NoSignIn.at = "none" /\ NoSignIn.id = 0
  /\ NoSignIn \in [at : {"none", "issue", "listed"}, user : Names \cup {NoSlug},
                   id : WebSessions \cup {0}, listed : SUBSET WebSessions]
  BY DEF NoSignIn

\* The commit of a login.
LEMMA IssueKeeps ==
  ASSUME TenancyInv, NEW c \in Logins, issueSession(c)
  PROVE  TenancyInv'
  <1>1. PICK u, w, L : u = signIn[c].user /\ w = signIn[c].id /\ L = signIn[c].listed
    OBVIOUS
  <1>2. /\ signIn[c].at = "listed"
        /\ UNCHANGED <<tenantId, registration, apiCredential, enabled>>
    BY DEF issueSession
  <1>3. /\ u \in Names /\ w \in WebSessions /\ L \subseteq WebSessions
        /\ webSession[w].state = "issuing" /\ webSession[w].user = u
        /\ \A v \in L : webSession[v].state \in {"live", "revoked"}
        /\ \A d \in Logins \ {c} : signIn[d].at = "listed" => signIn[d].id # w
    BY <1>1, <1>2 DEF TenancyInv, TenancyTypeOK, SignInsOK
  <1>4. PICK S : S = surplus(L)
    OBVIOUS
  <1>5. S \subseteq L /\ w \notin S
    BY <1>3, <1>4 DEF surplus
  <1>6. webSession' = [v \in WebSessions |->
          IF v = w THEN [webSession[v] EXCEPT !.state = "live"]
          ELSE IF v \in S THEN [webSession[v] EXCEPT !.state = "revoked"] ELSE webSession[v]]
    BY <1>1, <1>4 DEF issueSession
  <1>7. webSession \in [WebSessions -> [state : {"none", "issuing", "live", "revoked"},
                                        user : Names \cup {NoSlug}]]
    BY DEF TenancyInv, TenancyTypeOK
  <1>8. ASSUME NEW v \in WebSessions, NEW st \in {"live", "revoked"}
        PROVE  /\ [webSession[v] EXCEPT !.state = st]
                    \in [state : {"none", "issuing", "live", "revoked"}, user : Names \cup {NoSlug}]
               /\ [webSession[v] EXCEPT !.state = st].state = st
               /\ [webSession[v] EXCEPT !.state = st].user = webSession[v].user
    BY <1>7
  <1>9. webSession' \in [WebSessions -> [state : {"none", "issuing", "live", "revoked"},
                                         user : Names \cup {NoSlug}]]
    BY <1>6, <1>7, <1>8
  <1>10. /\ webSession'[w].state = "live" /\ webSession'[w].user = u
         /\ \A v \in S : webSession'[v].state = "revoked"
         /\ \A v \in WebSessions : v # w /\ v \notin S => webSession'[v] = webSession[v]
    BY <1>3, <1>5, <1>6, <1>8
  <1>11. signIn' = [signIn EXCEPT ![c] = NoSignIn]
    BY DEF issueSession
  <1>12. /\ signIn' \in [Logins -> [at : {"none", "issue", "listed"},
                                   user : Names \cup {NoSlug}, id : WebSessions \cup {0},
                                   listed : SUBSET WebSessions]]
         /\ signIn'[c].at = "none" /\ signIn'[c].id = 0
         /\ \A d \in Logins \ {c} : signIn'[d] = signIn[d]
    BY <1>11, NoSignInFields DEF TenancyInv, TenancyTypeOK
  <1>13. \A v \in WebSessions : webSession'[v].state = "none" <=> webSession[v].state = "none"
    <2>1. ASSUME NEW v \in WebSessions
          PROVE  webSession'[v].state = "none" <=> webSession[v].state = "none"
      <3>1. CASE v = w
        BY <1>3, <1>10, <3>1
      <3>2. CASE v \in S
        BY <1>3, <1>5, <3>2, <1>10
      <3>3. CASE v # w /\ v \notin S
        BY <1>10, <3>3
      <3>4. QED
        BY <3>1, <3>2, <3>3
    <2>2. QED
      BY <2>1
  <1>14. \A v \in WebSessions : webSession[v].state \in {"live", "revoked"} =>
                                  webSession'[v].state \in {webSession[v].state, "revoked"}
    <2>1. ASSUME NEW v \in WebSessions, webSession[v].state \in {"live", "revoked"}
          PROVE  webSession'[v].state \in {webSession[v].state, "revoked"}
      BY <1>3, <2>1, <1>10
    <2>2. QED
      BY <2>1
  <1>15. \A d \in Logins :
           \/ signIn'[d].at = "none" /\ signIn'[d].id = 0
           \/ /\ signIn'[d] = signIn[d]
              /\ signIn[d].at = "listed" => webSession'[signIn[d].id] = webSession[signIn[d].id]
    <2>1. ASSUME NEW d \in Logins \ {c}, signIn[d].at = "listed"
          PROVE  webSession'[signIn[d].id] = webSession[signIn[d].id]
      BY <2>1, <1>3, <1>5, <1>10 DEF TenancyInv, SignInsOK
    <2>2. QED
      BY <1>12, <2>1
  <1>16. TenancyTypeOK' /\ NamesKept' /\ SignInsOK' /\ UsedInOrder' /\ Used' = Used
    BY <1>2, <1>9, <1>12, <1>13, <1>14, <1>15, SessionsStep
  <1>17. Active(u)' \subseteq (Active(u) \ S) \cup {w}
    BY <1>10 DEF Active
  <1>18. \A h : Before(u, h)' = Before(u, h) \ {c}
    BY <1>12 DEF Before, Pending
  <1>19. ASSUME NEW t, t # u PROVE Relaxes(t)
    BY <1>10, <1>19, <1>12 DEF Active, Pending, Relaxes
  <1>20. w \in Used'
    BY <1>3, <1>10 DEF Used
  <1>21. ASSUME NEW s \in Names PROVE \E h \in Used' \cup {0} : Excess(s, h)'
    <2>1. CASE s = u
      BY <1>1, <1>4, <1>17, <1>2, <1>3, <1>16, <1>18, <1>20, IssueExcess, <2>1
    <2>2. CASE s # u
      BY <1>19, <2>2, RelaxesKeeps, <1>16 DEF TenancyInv
    <2>3. QED
      BY <2>1, <2>2
  <1>22. ASSUME NEW d \in Logins, signIn'[d].at = "listed" PROVE UnseenBounded(d)'
    <2>1. d # c /\ signIn'[d] = signIn[d] /\ signIn[d].at = "listed"
      BY <1>12, <1>22
    <2>2. CASE signIn[d].user = u
      BY <1>17, <2>1, <1>1, <1>2, <1>3, <1>18, <2>2, IssueUnseen
    <2>3. CASE signIn[d].user # u
      BY <1>19, <2>1, <2>3, RelaxesKeeps DEF TenancyInv
    <2>4. QED
      BY <2>2, <2>3
  <1>23. \A d \in Logins : UnseenBounded(d)'
    BY <1>22 DEF UnseenBounded
  <1>24. QED
    BY <1>16, <1>21, <1>23 DEF TenancyInv

\* A Control Plane that stops takes its login with it.
LEMMA LostKeeps ==
  ASSUME TenancyInv, NEW c \in Logins, IssueLost(c)
  PROVE  TenancyInv'
  <1>1. PICK w : w = signIn[c].id
    OBVIOUS
  <1>2. /\ signIn[c].at # "none" /\ signIn' = [signIn EXCEPT ![c] = NoSignIn]
        /\ UNCHANGED <<tenantId, registration, apiCredential, enabled>>
        /\ webSession' = [v \in WebSessions |->
             IF v = w THEN [webSession[v] EXCEPT !.state = "revoked"] ELSE webSession[v]]
    BY <1>1 DEF IssueLost
  <1>3. /\ webSession \in [WebSessions -> [state : {"none", "issuing", "live", "revoked"},
                                           user : Names \cup {NoSlug}]]
        /\ w \in WebSessions => webSession[w].state = "issuing"
    <2>1. w \in WebSessions => signIn[c].at = "listed"
      BY TenancyConstants, <1>1 DEF TenancyInv, SignInsOK
    <2>2. QED
      BY <1>1, <2>1 DEF TenancyInv, TenancyTypeOK, SignInsOK
  <1>4. ASSUME NEW v \in WebSessions
        PROVE  /\ [webSession[v] EXCEPT !.state = "revoked"]
                    \in [state : {"none", "issuing", "live", "revoked"}, user : Names \cup {NoSlug}]
               /\ [webSession[v] EXCEPT !.state = "revoked"].state = "revoked"
    BY <1>3
  <1>5. /\ webSession' \in [WebSessions -> [state : {"none", "issuing", "live", "revoked"},
                                           user : Names \cup {NoSlug}]]
        /\ w \in WebSessions => webSession'[w].state = "revoked"
        /\ \A v \in WebSessions : v # w => webSession'[v] = webSession[v]
    BY <1>2, <1>3, <1>4
  <1>6. /\ signIn' \in [Logins -> [at : {"none", "issue", "listed"},
                                   user : Names \cup {NoSlug}, id : WebSessions \cup {0},
                                   listed : SUBSET WebSessions]]
        /\ signIn'[c].at = "none" /\ signIn'[c].id = 0
        /\ \A d \in Logins \ {c} : signIn'[d] = signIn[d]
    BY <1>2, NoSignInFields DEF TenancyInv, TenancyTypeOK
  <1>7. \A v \in WebSessions : webSession'[v].state = "none" <=> webSession[v].state = "none"
    BY <1>3, <1>5
  <1>8. \A v \in WebSessions : webSession[v].state \in {"live", "revoked"} =>
                                 webSession'[v].state \in {webSession[v].state, "revoked"}
    BY <1>3, <1>5
  <1>9. \A d \in Logins :
          \/ signIn'[d].at = "none" /\ signIn'[d].id = 0
          \/ /\ signIn'[d] = signIn[d]
             /\ signIn[d].at = "listed" => webSession'[signIn[d].id] = webSession[signIn[d].id]
    <2>1. ASSUME NEW d \in Logins \ {c}, signIn[d].at = "listed"
          PROVE  webSession'[signIn[d].id] = webSession[signIn[d].id]
      BY <2>1, <1>1, TenancyConstants, <1>5 DEF TenancyInv, SignInsOK
    <2>2. QED
      BY <1>6, <2>1
  <1>10. TenancyTypeOK' /\ NamesKept' /\ SignInsOK' /\ UsedInOrder' /\ Used' = Used
    BY <1>2, <1>5, <1>6, <1>7, <1>8, <1>9, SessionsStep
  <1>11. ASSUME NEW s PROVE Relaxes(s)
    BY <1>5, <1>6 DEF Active, Pending, Relaxes
  <1>12. Used \subseteq Used'
    BY <1>10
  <1>13. QED
    BY <1>10, <1>11, <1>12, AllRelax DEF TenancyInv

\* A session ends.
LEMMA LogoutKeeps ==
  ASSUME TenancyInv, NEW w \in WebSessions, logout(w)
  PROVE  TenancyInv'
  <1>1. /\ webSession[w].state = "live"
        /\ UNCHANGED <<tenantId, registration, signIn, apiCredential, enabled>>
        /\ webSession' = [webSession EXCEPT ![w].state = "revoked"]
    BY DEF logout
  <1>2. /\ webSession' \in [WebSessions -> [state : {"none", "issuing", "live", "revoked"},
                                           user : Names \cup {NoSlug}]]
        /\ webSession'[w].state = "revoked"
        /\ \A v \in WebSessions : v # w => webSession'[v] = webSession[v]
    BY <1>1 DEF TenancyInv, TenancyTypeOK
  <1>3. signIn' \in [Logins -> [at : {"none", "issue", "listed"},
                                user : Names \cup {NoSlug}, id : WebSessions \cup {0},
                                listed : SUBSET WebSessions]]
    BY <1>1 DEF TenancyInv, TenancyTypeOK
  <1>4. \A v \in WebSessions : webSession'[v].state = "none" <=> webSession[v].state = "none"
    BY <1>1, <1>2
  <1>5. \A v \in WebSessions : webSession[v].state \in {"live", "revoked"} =>
                                 webSession'[v].state \in {webSession[v].state, "revoked"}
    BY <1>1, <1>2
  <1>6. \A d \in Logins :
          \/ signIn'[d].at = "none" /\ signIn'[d].id = 0
          \/ /\ signIn'[d] = signIn[d]
             /\ signIn[d].at = "listed" => webSession'[signIn[d].id] = webSession[signIn[d].id]
    <2>1. ASSUME NEW d \in Logins, signIn[d].at = "listed"
          PROVE  webSession'[signIn[d].id] = webSession[signIn[d].id]
      BY <1>1, <2>1, <1>2 DEF TenancyInv, SignInsOK
    <2>2. QED
      BY <1>1, <2>1
  <1>7. TenancyTypeOK' /\ NamesKept' /\ SignInsOK' /\ UsedInOrder' /\ Used' = Used
    BY <1>1, <1>2, <1>3, <1>4, <1>5, <1>6, SessionsStep
  <1>8. ASSUME NEW s PROVE Relaxes(s)
    BY <1>1, <1>2 DEF Relaxes, Active, Pending
  <1>9. Used \subseteq Used'
    BY <1>7
  <1>10. QED
    BY <1>7, <1>8, <1>9, AllRelax DEF TenancyInv

\* A login that begins has no row yet.
LEMMA LoginKeeps ==
  ASSUME TenancyInv, NEW c \in Logins, NEW s \in Slugs, login(c, s)
  PROVE  TenancyInv'
  <1>1. /\ signIn[c].at = "none"
        /\ UNCHANGED <<tenantId, registration, webSession, apiCredential, enabled>>
    BY DEF login
  <1>2. PICK x : x = [NoSignIn EXCEPT !.at = "issue", !.user = s]
    OBVIOUS
  <1>3. x = [at |-> "issue", user |-> s, id |-> 0, listed |-> {}]
    BY <1>2 DEF NoSignIn
  <1>4. signIn' = [signIn EXCEPT ![c] = x]
    BY <1>2 DEF login
  <1>5. /\ x \in [at : {"none", "issue", "listed"}, user : Names \cup {NoSlug},
                  id : WebSessions \cup {0}, listed : SUBSET WebSessions]
        /\ x.at = "issue" /\ x.user = s /\ x.id = 0 /\ s \in Names
    BY <1>3 DEF Names
  <1>6. /\ TenancyTypeOK'
        /\ signIn'[c] = x /\ \A d \in Logins \ {c} : signIn'[d] = signIn[d]
    BY <1>1, <1>4, <1>5 DEF TenancyInv, TenancyTypeOK
  <1>7. NamesKept'
    BY <1>1 DEF TenancyInv, NamesKept, OneOwnerPerName, Present
  <1>8. UsedInOrder' /\ Used' = Used
    BY <1>1 DEF TenancyInv, UsedInOrder, Used
  <1>9. SignInsOK'
    BY <1>1, <1>5, <1>6 DEF TenancyInv, SignInsOK
  <1>10. ASSUME NEW t PROVE Relaxes(t)
    BY <1>1, <1>5, <1>6 DEF Active, Pending, Relaxes
  <1>11. Used \subseteq Used'
    BY <1>8
  <1>12. QED
    BY <1>6, <1>7, <1>8, <1>9, <1>10, <1>11, AllRelax DEF TenancyInv

\* A step that is about no session.
LEMMA AccountsStay ==
  ASSUME TenancyInv, UNCHANGED <<signIn, webSession>>, TenancyTypeOK', NamesKept'
  PROVE  TenancyInv'
  BY AllRelax DEF TenancyInv, UsedInOrder, Used, SignInsOK, Relaxes, Active, Pending

-----------------------------------------------------------------------------
(* Registrations, the bootstrap and credentials.                           *)

Requests ==
  [at : {"none", "begin", "anchor", "locked", "insert", "done"},
   slug : Slugs \cup {NoSlug}, limited : BOOLEAN,
   anchor : TenantIds \cup {0}, created : BOOLEAN]

\* A request that goes on without making a tenant.
LEMMA RequestMoves ==
  ASSUME TenancyInv, NEW r \in Registrations, NEW x \in Requests,
         x.slug \in Slugs, ~x.created, registration' = [registration EXCEPT ![r] = x],
         UNCHANGED <<tenantId, signIn, webSession, apiCredential, enabled>>
  PROVE  TenancyInv'
  <1>1. registration \in [Registrations -> Requests]
    BY DEF TenancyInv, TenancyTypeOK, Requests
  <1>2. /\ registration' \in [Registrations -> Requests]
        /\ registration'[r] = x
        /\ \A q \in Registrations \ {r} : registration'[q] = registration[q]
    BY <1>1
  <1>3. TenancyTypeOK'
    BY <1>2 DEF TenancyInv, TenancyTypeOK, Requests
  <1>4. OneOwnerPerName'
    <2>1. ASSUME NEW p \in Registrations, NEW q \in Registrations,
                 registration'[p].created, registration'[q].created, p # q
          PROVE  registration'[p].slug # registration'[q].slug
      BY <1>2, <2>1 DEF TenancyInv, NamesKept, OneOwnerPerName
    <2>2. QED
      BY <2>1 DEF OneOwnerPerName
  <1>5. NamesKept'
    BY <1>2, <1>4 DEF TenancyInv, NamesKept, Present
  <1>6. QED
    BY <1>3, <1>5, AccountsStay

\* A request is accepted, or finds its name taken.
LEMMA CreateKeeps ==
  ASSUME TenancyInv, NEW r \in Registrations, NEW s \in Slugs, NEW limited \in BOOLEAN,
         createPrivateTenant(r, s, limited)
  PROVE  TenancyInv'
  <1>1. PICK at \in {"begin", "done"} : at = IF s \in Present THEN "done" ELSE "begin"
    OBVIOUS
  <1>1a. PICK x : x = [NoRegistration EXCEPT !.at = at, !.slug = s, !.limited = limited]
    OBVIOUS
  <1>2. x = [at |-> at, slug |-> s, limited |-> limited, anchor |-> 0, created |-> FALSE]
    BY <1>1a DEF NoRegistration
  <1>3. x \in Requests /\ x.slug \in Slugs /\ ~x.created
    BY <1>1, <1>2 DEF Requests
  <1>4. x = [NoRegistration EXCEPT !.at = IF s \in Present THEN "done" ELSE "begin",
                                   !.slug = s, !.limited = limited]
    BY <1>1, <1>1a
  <1>5. registration' = [registration EXCEPT ![r] = x]
    BY <1>4 DEF createPrivateTenant
  <1>6. UNCHANGED <<tenantId, signIn, webSession, apiCredential, enabled>>
    BY DEF createPrivateTenant
  <1>7. QED
    BY <1>3, <1>5, <1>6, RequestMoves

\* What a request that is under way has become.
LEMMA RequestFields ==
  ASSUME TenancyInv, NEW r \in Registrations, registration[r].at \notin {"none", "done"},
         NEW at \in {"anchor", "locked", "insert", "done"}, NEW i \in TenantIds \cup {0}
  PROVE  LET x == [registration[r] EXCEPT !.at = at]
             y == [registration[r] EXCEPT !.anchor = i, !.at = at]
             z == [registration[r] EXCEPT !.at = at, !.anchor = i]
         IN  /\ x \in Requests /\ x.slug \in Slugs /\ ~x.created
             /\ y \in Requests /\ y.slug \in Slugs /\ ~y.created
             /\ z \in Requests /\ z.slug \in Slugs /\ ~z.created
  <1>1. PICK q \in Requests : q = registration[r]
    BY DEF TenancyInv, TenancyTypeOK, Requests
  <1>2. q.slug \in Slugs /\ ~q.created
    BY <1>1 DEF TenancyInv, NamesKept
  <1>3. PICK x : x = [q EXCEPT !.at = at]
    OBVIOUS
  <1>4. x \in Requests /\ x.slug \in Slugs /\ ~x.created
    BY <1>2, <1>3 DEF Requests
  <1>5. PICK y : y = [x EXCEPT !.anchor = i]
    OBVIOUS
  <1>6. y \in Requests /\ y.slug \in Slugs /\ ~y.created
    BY <1>4, <1>5 DEF Requests
  <1>7. y = [q EXCEPT !.at = at, !.anchor = i] /\ y = [q EXCEPT !.anchor = i, !.at = at]
    BY <1>3, <1>5 DEF Requests
  <1>8. QED
    BY <1>1, <1>3, <1>4, <1>6, <1>7

\* The lock of the admission is the row of the first tenant.
LEMMA AnchorKeeps ==
  ASSUME TenancyInv, NEW r \in Registrations, admissionAnchor(r)
  PROVE  TenancyInv'
  <1>1. /\ registration[r].at = "begin" /\ registration[r].at \notin {"none", "done"}
        /\ UNCHANGED <<tenantId, signIn, webSession, apiCredential, enabled>>
    BY DEF admissionAnchor
  <1>2. registration \in [Registrations -> Requests]
    BY DEF TenancyInv, TenancyTypeOK, Requests
  <1>3. CASE ~registration[r].limited
    BY <1>2, <1>3, <1>1, RequestFields, RequestMoves DEF admissionAnchor
  <1>4. CASE registration[r].limited /\ Present = {}
    BY <1>2, <1>4, <1>1, RequestFields, RequestMoves DEF admissionAnchor
  <1>5. CASE registration[r].limited /\ Present # {}
    <2>1. PICK i : i = Min(UsedIds)
      OBVIOUS
    <2>2. i \in TenantIds \cup {0}
      <3>1. UsedIds \subseteq TenantIds /\ UsedIds \subseteq Nat /\ UsedIds # {}
        <4>1. \A s \in Present : tenantId[s] \in TenantIds
          BY DEF Present, TenancyInv, TenancyTypeOK
        <4>2. PICK s \in Present : TRUE
          BY <1>5
        <4>3. tenantId[s] \in UsedIds
          BY <4>2 DEF UsedIds
        <4>4. UsedIds \subseteq TenantIds
          BY <4>1 DEF UsedIds
        <4>5. QED
          BY <4>3, <4>4, TenancyConstants
      <3>2. \E j \in UsedIds : \A k \in UsedIds : j <= k
        BY <3>1, LeastNat
      <3>3. QED
        BY <2>1, <3>1, <3>2 DEF Min
    <2>3. registration' = [registration EXCEPT ![r] =
                             [registration[r] EXCEPT !.at = "anchor", !.anchor = i]]
      BY <1>2, <1>5, <2>1 DEF admissionAnchor
    <2>4. PICK x \in Requests : /\ x = [registration[r] EXCEPT !.at = "anchor", !.anchor = i]
                                /\ x.slug \in Slugs /\ ~x.created
      BY <1>1, <2>2, RequestFields
    <2>5. registration' = [registration EXCEPT ![r] = x]
      BY <2>3, <2>4
    <2>6. QED
      BY <1>1, <2>4, <2>5, RequestMoves
  <1>6. QED
    BY <1>3, <1>4, <1>5

\* A request locks the row, and counts.
LEMMA AdmissionKeeps ==
  ASSUME TenancyInv, NEW r \in Registrations, lockAnchor(r) \/ tenantCount(r)
  PROVE  TenancyInv'
  <1>1. registration \in [Registrations -> Requests]
    BY DEF TenancyInv, TenancyTypeOK, Requests
  <1>2. CASE lockAnchor(r)
    BY <1>1, <1>2, RequestFields, RequestMoves DEF lockAnchor
  <1>3. CASE tenantCount(r)
    <2>1. PICK full : full = (Cardinality(Present) >= MaximumTenants)
      OBVIOUS
    <2>2. PICK at \in {"insert", "done"} : at = IF full THEN "done" ELSE "insert"
      OBVIOUS
    <2>3. PICK i \in TenantIds \cup {0} : i = IF full THEN 0 ELSE registration[r].anchor
      BY DEF TenancyInv, TenancyTypeOK
    <2>4. /\ registration[r].at \notin {"none", "done"}
          /\ registration' = [registration EXCEPT ![r].anchor = IF full THEN 0 ELSE @,
                                ![r].at = IF full THEN "done" ELSE "insert"]
          /\ UNCHANGED <<tenantId, signIn, webSession, apiCredential, enabled>>
      BY <1>3, <2>1 DEF tenantCount
    <2>5. registration' = [registration EXCEPT ![r] =
                             [registration[r] EXCEPT !.anchor = i, !.at = at]]
      BY <1>1, <2>2, <2>3, <2>4
    <2>6. PICK x \in Requests : /\ x = [registration[r] EXCEPT !.anchor = i, !.at = at]
                                /\ x.slug \in Slugs /\ ~x.created
      BY <2>4, RequestFields
    <2>7. registration' = [registration EXCEPT ![r] = x]
      BY <2>5, <2>6
    <2>8. QED
      BY <2>4, <2>6, <2>7, RequestMoves
  <1>4. QED
    BY <1>2, <1>3

ApiCredentialRows ==
  [state : {"none", "live", "revoked"}, of : Names \cup {NoSlug}]

\* The inserts and the commit of a registration: its name was free, so no other
\* registration made its tenant.
LEMMA InsertKeeps ==
  ASSUME TenancyInv, NEW r \in Registrations, NEW i \in TenantIds, NEW k \in ApiCredentials,
         insertTenant(r, i, k)
  PROVE  TenancyInv'
  <1>1. PICK s \in Slugs : s = registration[r].slug
    BY DEF insertTenant, TenancyInv, NamesKept
  <1>2. PICK made \in BOOLEAN : made = ~SlugTaken(s)
    <2>1. (~SlugTaken(s)) \in BOOLEAN
      OBVIOUS
    <2>2. QED
      BY <2>1
  <1>2a. PICK x : x = [NoRegistration EXCEPT !.at = "done", !.slug = s, !.created = made]
    OBVIOUS
  <1>3. x = [at |-> "done", slug |-> s, limited |-> FALSE, anchor |-> 0, created |-> made]
    BY <1>2a DEF NoRegistration
  <1>4. /\ x \in Requests /\ x.at = "done" /\ x.slug = s /\ x.created = made
        /\ made => s \notin Present
    BY <1>2, <1>3 DEF Requests, SlugTaken
  <1>5. x = [NoRegistration EXCEPT !.at = "done", !.slug = s, !.created = made]
    BY <1>2a
  <1>6. /\ registration' = [registration EXCEPT ![r] = x] /\ UNCHANGED <<signIn, webSession>>
        /\ \/ s \in Present /\ UNCHANGED <<tenantId, apiCredential, enabled>>
           \/ /\ s \notin Present
              /\ tenantId' = [tenantId EXCEPT ![s] = i]
              /\ apiCredential' = [apiCredential EXCEPT ![k] = [state |-> "live", of |-> s]]
              /\ enabled' = enabled \cup {s}
    BY <1>1, <1>2, <1>5 DEF insertTenant, SlugTaken
  <1>7. registration \in [Registrations -> Requests]
    BY DEF TenancyInv, TenancyTypeOK, Requests
  <1>8. /\ registration' \in [Registrations -> Requests] /\ registration'[r] = x
        /\ \A q \in Registrations \ {r} : registration'[q] = registration[q]
    BY <1>4, <1>6, <1>7
  <1>9. /\ tenantId' \in [Names -> TenantIds \cup {0}] /\ enabled' \subseteq Names
        /\ Present \subseteq Present' /\ s \in Present'
        /\ apiCredential' \in [ApiCredentials -> ApiCredentialRows]
    <2>1. /\ tenantId \in [Names -> TenantIds \cup {0}] /\ enabled \subseteq Names
          /\ apiCredential \in [ApiCredentials -> ApiCredentialRows] /\ s \in Names
      BY DEF TenancyInv, TenancyTypeOK, ApiCredentialRows, Names
    <2>2. CASE s \in Present
      BY <1>6, <2>2, <2>1 DEF Present
    <2>3. CASE s \notin Present
      BY <2>1, <1>6, <2>3, TenancyConstants DEF ApiCredentialRows, Present
    <2>4. QED
      BY <2>2, <2>3
  <1>10. TenancyTypeOK'
    BY <1>6, <1>8, <1>9 DEF TenancyInv, TenancyTypeOK, Requests, ApiCredentialRows
  <1>11. \A q \in Registrations \ {r} :
           registration[q].created /\ registration'[r].created => registration[q].slug # s
    BY <1>2, <1>4, <1>8 DEF TenancyInv, NamesKept
  <1>12. OneOwnerPerName'
    <2>1. ASSUME NEW p \in Registrations, NEW q \in Registrations,
                 registration'[p].created, registration'[q].created, p # q
          PROVE  registration'[p].slug # registration'[q].slug
      BY <1>4, <1>8, <1>11, <2>1 DEF TenancyInv, NamesKept, OneOwnerPerName
    <2>2. QED
      BY <2>1 DEF OneOwnerPerName
  <1>13. NamesKept'
    BY <1>4, <1>8, <1>9, <1>12 DEF TenancyInv, NamesKept
  <1>14. QED
    BY <1>6, <1>10, <1>13, AccountsStay

\* A rollout writes what is missing.
LEMMA BootstrapKeeps ==
  ASSUME TenancyInv, NEW i \in TenantIds, bootstrap(i)
  PROVE  TenancyInv'
  <1>1. /\ tenantId \in [Names -> TenantIds \cup {0}] /\ enabled \subseteq Names
        /\ apiCredential \in [ApiCredentials -> ApiCredentialRows] /\ Operator \in Names
    BY DEF TenancyInv, TenancyTypeOK, ApiCredentialRows, Names
  <1>2. UNCHANGED <<registration, signIn, webSession>>
    BY DEF bootstrap
  <1>3. /\ tenantId' \in [Names -> TenantIds \cup {0}] /\ enabled' \subseteq Names
        /\ Present \subseteq Present'
    BY <1>1 DEF Present, bootstrap
  <1>4. apiCredential' \in [ApiCredentials -> ApiCredentialRows]
    BY <1>1 DEF ApiCredentialRows, bootstrap, bootstrapCredential
  <1>5. TenancyTypeOK'
    BY <1>2, <1>3, <1>4 DEF TenancyInv, TenancyTypeOK, ApiCredentialRows
  <1>6. NamesKept'
    BY <1>2, <1>3 DEF TenancyInv, NamesKept, OneOwnerPerName
  <1>7. QED
    BY <1>2, <1>5, <1>6, AccountsStay

\* Credentials are issued and revoked.
LEMMA CredentialKeeps ==
  ASSUME TenancyInv, NEW k \in ApiCredentials,
         \/ revokeTenantApiCredential(k)
         \/ \E s \in Names : issuePrivateTenantCredential(k, s)
  PROVE  TenancyInv'
  <1>1. apiCredential \in [ApiCredentials -> ApiCredentialRows]
    BY DEF TenancyInv, TenancyTypeOK, ApiCredentialRows
  <1>2. /\ UNCHANGED <<tenantId, registration, signIn, webSession, enabled>>
        /\ \/ apiCredential' = [apiCredential EXCEPT ![k].state = "revoked"]
           \/ \E s \in Names : apiCredential' = [apiCredential EXCEPT ![k] = [state |-> "live", of |-> s]]
    BY DEF revokeTenantApiCredential, issuePrivateTenantCredential, issueTenantApiCredential
  <1>3. apiCredential' \in [ApiCredentials -> ApiCredentialRows]
    <2>1. CASE apiCredential' = [apiCredential EXCEPT ![k].state = "revoked"]
      BY <1>1, <2>1 DEF ApiCredentialRows
    <2>2. ASSUME NEW s \in Names,
                 apiCredential' = [apiCredential EXCEPT ![k] = [state |-> "live", of |-> s]]
          PROVE  apiCredential' \in [ApiCredentials -> ApiCredentialRows]
      BY <2>2, <1>1 DEF ApiCredentialRows
    <2>3. QED
      BY <1>2, <2>1, <2>2
  <1>4. TenancyTypeOK'
    BY <1>2, <1>3 DEF TenancyInv, TenancyTypeOK, ApiCredentialRows
  <1>5. NamesKept'
    BY <1>2 DEF TenancyInv, NamesKept, OneOwnerPerName, Present
  <1>6. QED
    BY <1>2, <1>4, <1>5, AccountsStay

-----------------------------------------------------------------------------
(* The theorems.                                                           *)

\* A deployment starts with nothing.
LEMMA TenancyStarts == TenancyInit => TenancyInv
  <1> SUFFICES ASSUME TenancyInit PROVE TenancyInv
    OBVIOUS
  <1>1. TenancyTypeOK
    BY DEF TenancyInit, TenancyTypeOK, NoRegistration, NoSignIn, NoSession, NoApiCredential
  <1>2. NamesKept
    BY DEF TenancyInit, NamesKept, OneOwnerPerName, NoRegistration
  <1>3. SignInsOK
    BY DEF TenancyInit, SignInsOK, NoSignIn
  <1>4. Used = {} /\ UsedInOrder
    BY DEF TenancyInit, Used, UsedInOrder, NoSession
  <1>5. \A c \in Logins : UnseenBounded(c)
    BY DEF TenancyInit, UnseenBounded, NoSignIn
  <1>6. ASSUME NEW s \in Names PROVE \E h \in Used \cup {0} : Excess(s, h)
    <2>1. Active(s) = {} /\ Before(s, 0) = {}
      BY DEF TenancyInit, Active, Before, Pending, NoSession, NoSignIn
    <2>2. /\ Cardinality(Active(s)) = 0 /\ Cardinality(Before(s, 0)) = 0
          /\ Cardinality(Logins) \in Nat /\ MaximumActiveSessions \in Nat \ {0}
      BY <2>1, FS_EmptySet, Counted
    <2>3. Excess(s, 0)
      BY <2>1, <2>2 DEF Excess
    <2>4. QED
      BY <2>3
  <1>7. QED
    BY <1>1, <1>2, <1>3, <1>4, <1>5, <1>6 DEF TenancyInv

\* Every step keeps the invariant.
LEMMA TenancyStep == TenancyInv /\ [TenancyNext]_tenancyVars => TenancyInv'
  <1> SUFFICES ASSUME TenancyInv, [TenancyNext]_tenancyVars PROVE TenancyInv'
    OBVIOUS
  <1>1. CASE UNCHANGED tenancyVars
    BY <1>1, AccountsStay DEF tenancyVars, TenancyInv, TenancyTypeOK, NamesKept, OneOwnerPerName,
       Present
  <1>2. CASE \E i \in TenantIds : bootstrap(i)
    BY <1>2, BootstrapKeeps
  <1>3. ASSUME NEW r \in Registrations, NEW s \in Slugs,
               registerAccount(r, s) \/ registerTenant(r, s) \/ tenantAdminCreate(r, s)
        PROVE  TenancyInv'
    BY <1>3, CreateKeeps DEF registerAccount, registerTenant, tenantAdminCreate
  <1>4. ASSUME NEW r \in Registrations, admissionAnchor(r) \/ lockAnchor(r) \/ tenantCount(r)
        PROVE  TenancyInv'
    BY <1>4, AnchorKeeps, AdmissionKeeps
  <1>5. CASE \E r \in Registrations, i \in TenantIds, k \in ApiCredentials : insertTenant(r, i, k)
    BY <1>5, InsertKeeps
  <1>6. ASSUME NEW c \in Logins,
               \/ \E s \in Slugs : login(c, s)
               \/ \E w \in WebSessions : listActive(c, w)
               \/ issueSession(c) \/ IssueLost(c)
        PROVE  TenancyInv'
    BY <1>6, LoginKeeps, ListKeeps, IssueKeeps, LostKeeps
  <1>7. CASE \E w \in WebSessions : logout(w)
    BY <1>7, LogoutKeeps
  <1>8. ASSUME NEW k \in ApiCredentials,
               \/ revokeTenantApiCredential(k)
               \/ \E s \in Names : issuePrivateTenantCredential(k, s)
        PROVE  TenancyInv'
    BY <1>8, CredentialKeeps
  <1>9. QED
    BY <1>1, <1>2, <1>3, <1>4, <1>5, <1>6, <1>7, <1>8 DEF TenancyNext

\* Of the registrations of one name, one is told that it made the tenant, and an
\* account's active sessions exceed their maximum by no more than its logins that
\* overlap, however many come later (createPrivateTenant, #issue).
THEOREM TenantsAreSound == TenancySpec => []TenancySound
  <1>1. ASSUME TenancyInv PROVE TenancySound
    <2>1. TenancyTypeOK /\ OneOwnerPerName
      BY <1>1 DEF TenancyInv, NamesKept
    <2>2. ActiveSessionsBounded
      <3>1. ASSUME NEW s \in Slugs
            PROVE Cardinality(Active(s)) <= MaximumActiveSessions + Cardinality(Logins) - 1
        BY <1>1, Counted DEF Names, TenancyInv, Excess
      <3>2. QED
        BY <3>1 DEF ActiveSessionsBounded
    <2>3. QED
      BY <2>1, <2>2 DEF TenancySound
  <1>2. QED
    BY <1>1, TenancyStarts, TenancyStep, PTL DEF TenancySpec

\* No step gives a revoked session or credential back.
LEMMA RevokedStep ==
  ASSUME TenancyInv, [TenancyNext]_tenancyVars
  PROVE  /\ \A w \in WebSessions :
              webSession[w].state = "revoked" => webSession'[w].state = "revoked"
         /\ \A k \in ApiCredentials :
              apiCredential[k].state = "revoked" => apiCredential'[k].state = "revoked"
  <1>1. ASSUME NEW w \in WebSessions, webSession[w].state = "revoked"
        PROVE  webSession'[w].state = "revoked"
    <2>1. CASE UNCHANGED webSession
      BY <1>1, <2>1
    <2>2. ASSUME NEW c \in Logins, NEW v \in WebSessions, listActive(c, v)
          PROVE  webSession'[w].state = "revoked"
      BY <1>1, <2>2 DEF listActive, TenancyInv, TenancyTypeOK
    <2>3. ASSUME NEW c \in Logins, issueSession(c) PROVE webSession'[w].state = "revoked"
      BY <1>1, <2>3 DEF issueSession, TenancyInv, SignInsOK, TenancyTypeOK
    <2>4. ASSUME NEW c \in Logins, IssueLost(c) PROVE webSession'[w].state = "revoked"
      BY <2>4, <1>1 DEF IssueLost, TenancyInv, TenancyTypeOK
    <2>5. ASSUME NEW v \in WebSessions, logout(v) PROVE webSession'[w].state = "revoked"
      BY <1>1, <2>5 DEF logout, TenancyInv, TenancyTypeOK
    <2>6. UNCHANGED webSession
          \/ (\E c \in Logins : \/ \E v \in WebSessions : listActive(c, v)
                                \/ issueSession(c) \/ IssueLost(c))
          \/ (\E v \in WebSessions : logout(v))
      BY DEF TenancyNext, tenancyVars, bootstrap, registerAccount, registerTenant,
         tenantAdminCreate, createPrivateTenant, admissionAnchor, lockAnchor, tenantCount,
         insertTenant, login, revokeTenantApiCredential, issuePrivateTenantCredential,
         issueTenantApiCredential
    <2>7. QED
      BY <2>1, <2>2, <2>3, <2>4, <2>5, <2>6
  <1>2. ASSUME NEW k \in ApiCredentials, apiCredential[k].state = "revoked"
        PROVE  apiCredential'[k].state = "revoked"
    <2>1. apiCredential \in [ApiCredentials -> ApiCredentialRows]
      BY DEF TenancyInv, TenancyTypeOK, ApiCredentialRows
    <2>2. \/ UNCHANGED apiCredential
          \/ \E j \in ApiCredentials :
               \/ apiCredential[j].state = "none" /\ \E y : apiCredential' = [apiCredential EXCEPT ![j] = y]
               \/ apiCredential[j].state = "live"
                  /\ apiCredential' = [apiCredential EXCEPT ![j].state = "revoked"]
      <3>1. CASE \E i \in TenantIds : bootstrap(i)
        BY <3>1, TenancyConstants DEF bootstrap, bootstrapCredential
      <3>2. CASE \E r \in Registrations, i \in TenantIds, j \in ApiCredentials : insertTenant(r, i, j)
        BY <3>2 DEF insertTenant
      <3>3. CASE \E j \in ApiCredentials : revokeTenantApiCredential(j)
        BY <3>3 DEF revokeTenantApiCredential
      <3>4. CASE \E j \in ApiCredentials : \E s \in Names : issuePrivateTenantCredential(j, s)
        BY <3>4 DEF issuePrivateTenantCredential, issueTenantApiCredential
      <3>5. \/ UNCHANGED apiCredential
            \/ \E i \in TenantIds : bootstrap(i)
            \/ \E r \in Registrations, i \in TenantIds, j \in ApiCredentials : insertTenant(r, i, j)
            \/ \E j \in ApiCredentials : revokeTenantApiCredential(j)
            \/ \E j \in ApiCredentials : \E s \in Names : issuePrivateTenantCredential(j, s)
        BY DEF TenancyNext, tenancyVars, registerAccount, registerTenant, tenantAdminCreate,
           createPrivateTenant, admissionAnchor, lockAnchor, tenantCount, login, listActive,
           issueSession, IssueLost, logout
      <3>6. QED
        BY <3>1, <3>2, <3>3, <3>4, <3>5
    <2>3. QED
      BY <1>2, <2>1, <2>2
  <1>3. QED
    BY <1>1, <1>2

\* What was revoked or logged out stays so, through logins that overlap and
\* rollouts that bootstrap the operator's credential again.
THEOREM RevocationsLast == TenancySpec => RevokedStaysRevoked
  <1> DEFINE Stays ==
        /\ \A w \in WebSessions : webSession[w].state = "revoked" => ~authenticate(w)'
        /\ \A k \in ApiCredentials : apiCredential[k].state = "revoked" => ~authenticateToken(k)'
  <1>1. TenancyInv /\ [TenancyNext]_tenancyVars => [Stays]_tenancyVars
    BY RevokedStep DEF authenticate, authenticateToken
  <1>2. QED
    BY <1>1, TenancyStarts, TenancyStep, PTL DEF TenancySpec, RevokedStaysRevoked

-----------------------------------------------------------------------------
(* Sums over sets of model requests.                                       *)

\* Of some finite sets one has no other of them as a part.
LEMMA SmallestPart ==
  ASSUME NEW S, IsFiniteSet(S), NEW T, T \subseteq SUBSET S, T # {}
  PROVE  \E s \in T : \A t \in T : t \subseteq s => t = s
  <1>1. IsWellFoundedOn(StrictSubsetOrdering(S), FiniteSubsetsOf(S))
    BY FS_StrictSubsetOrderingWellFounded
  <1>2. T \subseteq FiniteSubsetsOf(S)
    BY FS_Subset DEF FiniteSubsetsOf
  <1>3. PICK s \in T : \A t \in T : ~(<<t, s>> \in StrictSubsetOrdering(S))
    BY <1>1, <1>2, WFMin
  <1>4. SUFFICES ASSUME NEW t \in T, t \subseteq s, t # s PROVE FALSE
    OBVIOUS
  <1>5. <<t, s>> \in (SUBSET S) \X (SUBSET S) /\ <<t, s>>[1] \subseteq <<t, s>>[2]
        /\ <<t, s>>[1] # <<t, s>>[2]
    BY <1>4
  <1>6. QED
    BY <1>3, <1>5 DEF StrictSubsetOrdering

\* g adds f up over every part of S, as MapThenSumSet does.
Sums(g, f, S) ==
  g = [s \in SUBSET S |-> IF s = {} THEN 0
                          ELSE f[CHOOSE x \in s : TRUE] + g[s \ {CHOOSE x \in s : TRUE}]]

\* The same for parts of n elements at most.
SumsUpTo(g, f, S, n) ==
  g = [s \in {t \in SUBSET S : Cardinality(t) <= n} |->
         IF s = {} THEN 0 ELSE f[CHOOSE x \in s : TRUE] + g[s \ {CHOOSE x \in s : TRUE}]]

LEMMA SumsExistUpTo ==
  ASSUME NEW S, IsFiniteSet(S), NEW f, NEW n \in Nat
  PROVE  \E g : SumsUpTo(g, f, S, n)
  <1> DEFINE T == {m \in Nat : ~ \E g : SumsUpTo(g, f, S, m)}
             D(m) == {t \in SUBSET S : Cardinality(t) <= m}
             any(s) == CHOOSE x \in s : TRUE
  <1>0. \A t \in SUBSET S : IsFiniteSet(t) /\ Cardinality(t) \in Nat
    BY FS_Subset, FS_CardinalityType
  <1>1. SUFFICES ASSUME T # {} PROVE FALSE
    OBVIOUS
  <1>2. PICK m \in T : \A k \in T : m <= k
    BY <1>1, LeastNat
  <1>3. m \in Nat /\ ~ \E g : SumsUpTo(g, f, S, m)
    OBVIOUS
  <1>4. ASSUME NEW s \in SUBSET S, s # {}
        PROVE  /\ s \ {any(s)} \in SUBSET S /\ Cardinality(s \ {any(s)}) = Cardinality(s) - 1
    BY <1>4, <1>0, FS_RemoveElement
  <1>5. m # 0
    <2>1. SUFFICES ASSUME m = 0 PROVE FALSE
      OBVIOUS
    <2>2. \A s \in D(0) : s = {}
      BY <1>0, FS_EmptySet
    <2>3. SumsUpTo([s \in D(0) |-> 0], f, S, 0)
      BY <2>2 DEF SumsUpTo
    <2>4. QED
      BY <2>1, <2>3, <1>3
  <1>6. PICK u : SumsUpTo(u, f, S, m - 1)
    BY <1>3, <1>5, <1>2
  <1> DEFINE v == [s \in D(m) |-> IF s = {} THEN 0 ELSE f[any(s)] + u[s \ {any(s)}]]
  <1>7. \A s \in D(m - 1) : v[s] = u[s] /\ s \in D(m)
    <2>1. SUFFICES ASSUME NEW s \in D(m - 1) PROVE v[s] = u[s] /\ s \in D(m)
      OBVIOUS
    <2>2. s \in D(m)
      BY <1>0, <1>3
    <2>3. u[s] = IF s = {} THEN 0 ELSE f[any(s)] + u[s \ {any(s)}]
      BY <1>6 DEF SumsUpTo
    <2>4. QED
      BY <2>2, <2>3
  <1>8. ASSUME NEW s \in D(m)
        PROVE  v[s] = IF s = {} THEN 0 ELSE f[any(s)] + v[s \ {any(s)}]
    <2>1. CASE s = {}
      BY <2>1
    <2>2. CASE s # {}
      <3>1. s \ {any(s)} \in D(m - 1)
        BY <1>4, <2>2, <1>0, <1>3
      <3>2. v[s \ {any(s)}] = u[s \ {any(s)}]
        BY <3>1, <1>7
      <3>3. v[s] = f[any(s)] + u[s \ {any(s)}]
        BY <2>2
      <3>4. QED
        BY <2>2, <3>2, <3>3
    <2>3. QED
      BY <2>1, <2>2
  <1>9. v = [s \in D(m) |-> v[s]]
    OBVIOUS
  <1>10. SumsUpTo(v, f, S, m)
    <2> HIDE DEF v
    <2>1. QED
      BY <1>8, <1>9 DEF SumsUpTo
  <1>11. QED
    BY <1>10, <1>3

\* The sums exist.
LEMMA SumsExist ==
  ASSUME NEW S, IsFiniteSet(S), NEW f
  PROVE  \E g : Sums(g, f, S)
  <1>1. Cardinality(S) \in Nat
    BY FS_CardinalityType
  <1>2. \A t \in SUBSET S : Cardinality(t) <= Cardinality(S)
    BY FS_Subset
  <1>3. {t \in SUBSET S : Cardinality(t) <= Cardinality(S)} = SUBSET S
    BY <1>2
  <1>4. PICK g : SumsUpTo(g, f, S, Cardinality(S))
    BY <1>1, SumsExistUpTo
  <1>5. Sums(g, f, S)
    BY <1>3, <1>4 DEF Sums, SumsUpTo
  <1>6. QED
    BY <1>5

\* A sum is a number, and takes its terms in any order.
Adds(g, f, S) ==
  /\ g[{}] = 0
  /\ \A s \in SUBSET S : g[s] \in Nat /\ \A x \in s : g[s] = f[x] + g[s \ {x}]

LEMMA SumsAdd ==
  ASSUME NEW S, IsFiniteSet(S), NEW f, \A x \in S : f[x] \in Nat, NEW g, Sums(g, f, S)
  PROVE  Adds(g, f, S)
  <1> DEFINE any(s) == CHOOSE x \in s : TRUE
             At(s) == g[s] \in Nat /\ \A x \in s : g[s] = f[x] + g[s \ {x}]
             T == {s \in SUBSET S : ~At(s)}
  <1>1. \A s \in SUBSET S : g[s] = IF s = {} THEN 0 ELSE f[any(s)] + g[s \ {any(s)}]
    BY DEF Sums
  <1>2. g[{}] = 0
    BY <1>1
  <1>15. At({})
    BY <1>2
  <1>14. T \subseteq SUBSET S /\ (\A s \in T : ~At(s)) /\ (\A s \in SUBSET S : s \in T \/ At(s))
    OBVIOUS
  <1>3. SUFFICES ASSUME T # {} PROVE FALSE
    BY <1>3, <1>2 DEF Adds
  <1> HIDE DEF T, At
  <1>4. PICK s \in T : \A t \in T : t \subseteq s => t = s
    BY <1>14, <1>3, SmallestPart
  <1>5. \A t \in SUBSET s : t # s => At(t)
    BY <1>4, <1>14
  <1>6. s \in SUBSET S /\ s # {}
    BY <1>4, <1>14, <1>15
  <1>7. PICK y \in s : y = any(s)
    BY <1>6
  <1>8. g[s] = f[y] + g[s \ {y}]
    BY <1>1, <1>6, <1>7
  <1>9. At(s \ {y})
    BY <1>5
  <1>10. g[s] \in Nat
    BY <1>6, <1>8, <1>9 DEF At
  <1>11. ASSUME NEW x \in s PROVE g[s] = f[x] + g[s \ {x}]
    <2>1. CASE x = y
      BY <2>1, <1>8
    <2>2. CASE x # y
      <3>1. At(s \ {x})
        BY <1>5
      <3>2. g[s \ {y}] = f[x] + g[(s \ {y}) \ {x}]
        BY <1>9, <2>2 DEF At
      <3>3. g[s \ {x}] = f[y] + g[(s \ {x}) \ {y}]
        BY <3>1, <2>2 DEF At
      <3>4. (s \ {y}) \ {x} = (s \ {x}) \ {y}
        OBVIOUS
      <3>5. (s \ {y}) \ {x} \in SUBSET s /\ (s \ {y}) \ {x} # s
        OBVIOUS
      <3>6. g[(s \ {y}) \ {x}] \in Nat
        BY <3>5, <1>5 DEF At
      <3>7. f[x] \in Nat /\ f[y] \in Nat
        BY <1>6
      <3>8. PICK a \in Nat, b \in Nat, c \in Nat :
              a = f[x] /\ b = f[y] /\ c = g[(s \ {y}) \ {x}]
        BY <3>6, <3>7
      <3>9. g[s \ {y}] = a + c /\ g[s \ {x}] = b + c
        BY <3>2, <3>3, <3>4, <3>8
      <3>10. g[s] = b + (a + c)
        BY <1>8, <3>8, <3>9
      <3>11. b + (a + c) = a + (b + c)
        OBVIOUS
      <3>12. QED
        BY <3>8, <3>9, <3>10, <3>11
    <2>3. QED
      BY <2>1, <2>2
  <1>12. ~At(s)
    BY <1>4, <1>14
  <1>13. QED
    BY <1>10, <1>11, <1>12 DEF At

\* A sum of smaller terms is smaller, with no account of terms that are zero.
LEMMA SumsBound ==
  ASSUME NEW S, IsFiniteSet(S), NEW f, \A x \in S : f[x] \in Nat, NEW g, Sums(g, f, S),
         NEW R, IsFiniteSet(R), NEW e, \A x \in R : e[x] \in Nat, NEW h, Sums(h, e, R),
         NEW U \in SUBSET R, NEW V \in SUBSET S,
         \A x \in V : f[x] = 0 \/ (x \in U /\ f[x] <= e[x])
  PROVE  g[V] <= h[V \cap U]
  <1> DEFINE T == {s \in SUBSET V : ~(g[s] <= h[s \cap U])}
  <1>0. Adds(g, f, S) /\ Adds(h, e, R)
    BY SumsAdd
  <1>1. SUFFICES ASSUME T # {} PROVE FALSE
    OBVIOUS
  <1>13. /\ T \subseteq SUBSET S /\ \A s \in T : s \in SUBSET V /\ ~(g[s] <= h[s \cap U])
         /\ \A s \in SUBSET V : s \in T \/ g[s] <= h[s \cap U]
    OBVIOUS
  <1> HIDE DEF T
  <1>2. PICK s \in T : \A t \in T : t \subseteq s => t = s
    BY <1>1, <1>13, SmallestPart
  <1>3. s \in SUBSET V /\ s \in SUBSET S /\ ~(g[s] <= h[s \cap U])
    BY <1>2, <1>13
  <1>4. \A t \in SUBSET s : t # s => g[t] <= h[t \cap U]
    BY <1>2, <1>3, <1>13
  <1>5. s # {}
    <2>1. SUFFICES ASSUME s = {} PROVE FALSE
      OBVIOUS
    <2>2. s \cap U = {}
      BY <2>1
    <2>3. g[{}] = 0 /\ h[{}] = 0
      BY <1>0 DEF Adds
    <2>4. QED
      BY <1>3, <2>1, <2>2, <2>3
  <1>6. PICK x : x \in s
    BY <1>5
  <1>7. g[s] = f[x] + g[s \ {x}] /\ g[s \ {x}] \in Nat /\ f[x] \in Nat
    BY <1>3, <1>0, <1>6 DEF Adds
  <1>8. g[s \ {x}] <= h[(s \ {x}) \cap U]
    BY <1>4, <1>6
  <1>9. \A t \in SUBSET R : h[t] \in Nat /\ \A y \in t : h[t] = e[y] + h[t \ {y}]
    BY <1>0 DEF Adds
  <1>10. CASE x \in U
    <2>1. s \cap U \in SUBSET R /\ x \in s \cap U /\ (s \cap U) \ {x} = (s \ {x}) \cap U
      BY <1>6, <1>10
    <2>2. h[s \cap U] = e[x] + h[(s \ {x}) \cap U]
      BY <1>9, <2>1
    <2>3. f[x] <= e[x] /\ e[x] \in Nat
      BY <1>3, <1>6, <1>10
    <2>4. h[(s \ {x}) \cap U] \in Nat
      BY <1>9, <2>1
    <2>5. QED
      BY <1>3, <1>7, <1>8, <2>2, <2>3, <2>4
  <1>11. CASE x \notin U
    <2>1. (s \ {x}) \cap U = s \cap U
      BY <1>11
    <2>2. f[x] = 0
      BY <1>3, <1>6, <1>11
    <2>3. g[s] = g[s \ {x}]
      BY <1>7, <2>2
    <2>4. QED
      BY <1>3, <1>8, <2>1, <2>3
  <1>12. QED
    BY <1>10, <1>11

SumOf(f, S) == (CHOOSE g : Sums(g, f, S))[S]

LEMMA SumUnique ==
  ASSUME NEW S, IsFiniteSet(S), NEW f, \A x \in S : f[x] \in Nat,
         NEW g, Sums(g, f, S)
  PROVE  SumOf(f, S) = g[S] /\ g[S] \in Nat
  <1>1. PICK h : h = CHOOSE u : Sums(u, f, S)
    OBVIOUS
  <1>2. Sums(h, f, S)
    BY <1>1
  <1>3. g[S] <= h[S \cap S] /\ h[S] <= g[S \cap S]
    <2>1. S \in SUBSET S /\ \A x \in S : f[x] = 0 \/ (x \in S /\ f[x] <= f[x])
      OBVIOUS
    <2>2. g[S] <= h[S \cap S]
      BY <1>2, <2>1, SumsBound
    <2>3. h[S] <= g[S \cap S]
      BY <1>2, <2>1, SumsBound
    <2>4. QED
      BY <2>2, <2>3
  <1>4. g[S] \in Nat /\ h[S] \in Nat
    BY <1>2, SumsAdd DEF Adds
  <1>5. S \cap S = S
    OBVIOUS
  <1>6. g[S] = h[S]
    BY <1>3, <1>4, <1>5
  <1>7. QED
    BY <1>1, <1>4, <1>6 DEF SumOf

LEMMA SumType ==
  ASSUME NEW S, IsFiniteSet(S), NEW f, \A x \in S : f[x] \in Nat
  PROVE  SumOf(f, S) \in Nat
  BY SumsExist, SumUnique

\* Fewer and smaller terms, but for terms that are zero, have a smaller sum.
LEMMA SumLess ==
  ASSUME NEW S, IsFiniteSet(S), NEW f, \A x \in S : f[x] \in Nat,
         NEW R \in SUBSET S, NEW e, \A x \in R : e[x] \in Nat,
         \A x \in S : f[x] = 0 \/ (x \in R /\ f[x] <= e[x])
  PROVE  SumOf(f, S) <= SumOf(e, R)
  <1>1. IsFiniteSet(R)
    BY FS_Subset
  <1>2. PICK g : Sums(g, f, S)
    BY SumsExist
  <1>3. PICK h : Sums(h, e, R)
    BY <1>1, SumsExist
  <1>4. SumOf(f, S) = g[S]
    BY <1>2, SumUnique
  <1>5. SumOf(e, R) = h[R]
    BY <1>1, <1>3, SumUnique
  <1>6. R \in SUBSET R /\ S \in SUBSET S
    OBVIOUS
  <1>7. g[S] <= h[S \cap R]
    BY <1>1, <1>2, <1>3, <1>6, SumsBound
  <1>8. S \cap R = R
    OBVIOUS
  <1>9. QED
    BY <1>4, <1>5, <1>7, <1>8

\* One term may be taken out.
LEMMA SumTakes ==
  ASSUME NEW S, IsFiniteSet(S), NEW f, \A x \in S : f[x] \in Nat, NEW x \in S
  PROVE  SumOf(f, S) = f[x] + SumOf(f, S \ {x}) /\ SumOf(f, S \ {x}) \in Nat
  <1>1. IsFiniteSet(S \ {x})
    BY FS_RemoveElement
  <1>2. PICK g : Sums(g, f, S)
    BY SumsExist
  <1>3. PICK h : Sums(h, f, S \ {x})
    BY <1>1, SumsExist
  <1>4. SumOf(f, S) = g[S]
    BY <1>2, SumUnique
  <1>5. SumOf(f, S \ {x}) = h[S \ {x}] /\ h[S \ {x}] \in Nat
    BY <1>1, <1>3, SumUnique
  <1>6. Adds(g, f, S)
    BY <1>2, SumsAdd
  <1>7. g[S] = f[x] + g[S \ {x}] /\ g[S \ {x}] \in Nat
    BY <1>6 DEF Adds
  <1>8. g[S \ {x}] = h[S \ {x}]
    <2>1. PICK R : R = S \ {x}
      OBVIOUS
    <2>2. /\ R \in SUBSET S /\ R \in SUBSET R /\ R \cap R = R /\ R \cap S = R
          /\ IsFiniteSet(R) /\ Sums(h, f, R) /\ \A y \in R : f[y] \in Nat
          /\ \A y \in R : f[y] = 0 \/ (y \in R /\ f[y] <= f[y])
      BY <1>1, <1>3, <2>1
    <2>3. g[R] <= h[R \cap R]
      BY <1>2, <2>2, SumsBound
    <2>4. h[R] <= g[R \cap R]
      BY <1>2, <2>2, SumsBound
    <2>5. g[R] \in Nat /\ h[R] \in Nat /\ g[R] <= h[R] /\ h[R] <= g[R]
      BY <1>5, <1>7, <2>1, <2>2, <2>3, <2>4
    <2>6. g[R] = h[R]
      BY <2>5
    <2>7. QED
      BY <2>1, <2>6
  <1>9. QED
    BY <1>4, <1>5, <1>7, <1>8

LEMMA ClaimedSums ==
  ASSUME NEW S \in SUBSET ModelRequests, NEW f,
         \A r \in ModelRequests : f[r] = Claimed(r) /\ f[r] \in Nat
  PROVE  MapThenSumSet(Claimed, S) = SumOf(f, S)
  <1> DEFINE iter[s \in SUBSET S] ==
        IF s = {} THEN 0 ELSE Claimed(CHOOSE x \in s : TRUE) + iter[s \ {CHOOSE x \in s : TRUE}]
  <1>1. IsFiniteSet(S)
    BY GatewayConstants, FS_Subset
  <1>2. MapThenSumSet(Claimed, S) = iter[S]
    BY Zenon DEF MapThenSumSet, MapThenFoldSet
  <1>3. \A s \in SUBSET S : s # {} => Claimed(CHOOSE x \in s : TRUE) = f[CHOOSE x \in s : TRUE]
    OBVIOUS
  <1>4. PICK g : Sums(g, f, S)
    BY <1>1, SumsExist
  <1>5. g = [s \in SUBSET S |-> IF s = {} THEN 0
               ELSE Claimed(CHOOSE x \in s : TRUE) + g[s \ {CHOOSE x \in s : TRUE}]]
    BY <1>3, <1>4 DEF Sums
  <1>6. \E u : u = [s \in SUBSET S |-> IF s = {} THEN 0
               ELSE Claimed(CHOOSE x \in s : TRUE) + u[s \ {CHOOSE x \in s : TRUE}]]
    BY <1>5
  <1>7. iter = [s \in SUBSET S |-> IF s = {} THEN 0
               ELSE Claimed(CHOOSE x \in s : TRUE) + iter[s \ {CHOOSE x \in s : TRUE}]]
    BY <1>6, Zenon
  <1> HIDE DEF iter
  <1>8. Sums(iter, f, S)
    BY <1>3, <1>7 DEF Sums
  <1>9. QED
    BY <1>1, <1>2, <1>8, SumUnique

LEMMA CostSums ==
  ASSUME NEW S \in SUBSET ModelRequests, NEW f,
         \A r \in ModelRequests : f[r] = Cost(r) /\ f[r] \in Nat
  PROVE  MapThenSumSet(Cost, S) = SumOf(f, S)
  <1> DEFINE iter[s \in SUBSET S] ==
        IF s = {} THEN 0 ELSE Cost(CHOOSE x \in s : TRUE) + iter[s \ {CHOOSE x \in s : TRUE}]
  <1>1. IsFiniteSet(S)
    BY GatewayConstants, FS_Subset
  <1>2. MapThenSumSet(Cost, S) = iter[S]
    BY Zenon DEF MapThenSumSet, MapThenFoldSet
  <1>3. \A s \in SUBSET S : s # {} => Cost(CHOOSE x \in s : TRUE) = f[CHOOSE x \in s : TRUE]
    OBVIOUS
  <1>4. PICK g : Sums(g, f, S)
    BY <1>1, SumsExist
  <1>5. g = [s \in SUBSET S |-> IF s = {} THEN 0
               ELSE Cost(CHOOSE x \in s : TRUE) + g[s \ {CHOOSE x \in s : TRUE}]]
    BY <1>3, <1>4 DEF Sums
  <1>6. \E u : u = [s \in SUBSET S |-> IF s = {} THEN 0
               ELSE Cost(CHOOSE x \in s : TRUE) + u[s \ {CHOOSE x \in s : TRUE}]]
    BY <1>5
  <1>7. iter = [s \in SUBSET S |-> IF s = {} THEN 0
               ELSE Cost(CHOOSE x \in s : TRUE) + iter[s \ {CHOOSE x \in s : TRUE}]]
    BY <1>6, Zenon
  <1> HIDE DEF iter
  <1>8. Sums(iter, f, S)
    BY <1>3, <1>7 DEF Sums
  <1>9. QED
    BY <1>1, <1>2, <1>8, SumUnique

LEMMA TokensSums ==
  ASSUME NEW S \in SUBSET ModelRequests, NEW f,
         \A r \in ModelRequests : f[r] = Tokens(r) /\ f[r] \in Nat
  PROVE  MapThenSumSet(Tokens, S) = SumOf(f, S)
  <1> DEFINE iter[s \in SUBSET S] ==
        IF s = {} THEN 0 ELSE Tokens(CHOOSE x \in s : TRUE) + iter[s \ {CHOOSE x \in s : TRUE}]
  <1>1. IsFiniteSet(S)
    BY GatewayConstants, FS_Subset
  <1>2. MapThenSumSet(Tokens, S) = iter[S]
    BY Zenon DEF MapThenSumSet, MapThenFoldSet
  <1>3. \A s \in SUBSET S : s # {} => Tokens(CHOOSE x \in s : TRUE) = f[CHOOSE x \in s : TRUE]
    OBVIOUS
  <1>4. PICK g : Sums(g, f, S)
    BY <1>1, SumsExist
  <1>5. g = [s \in SUBSET S |-> IF s = {} THEN 0
               ELSE Tokens(CHOOSE x \in s : TRUE) + g[s \ {CHOOSE x \in s : TRUE}]]
    BY <1>3, <1>4 DEF Sums
  <1>6. \E u : u = [s \in SUBSET S |-> IF s = {} THEN 0
               ELSE Tokens(CHOOSE x \in s : TRUE) + u[s \ {CHOOSE x \in s : TRUE}]]
    BY <1>5
  <1>7. iter = [s \in SUBSET S |-> IF s = {} THEN 0
               ELSE Tokens(CHOOSE x \in s : TRUE) + iter[s \ {CHOOSE x \in s : TRUE}]]
    BY <1>6, Zenon
  <1> HIDE DEF iter
  <1>8. Sums(iter, f, S)
    BY <1>3, <1>7 DEF Sums
  <1>9. QED
    BY <1>1, <1>2, <1>8, SumUnique

\* Of finitely many numbers one is the largest.
LEMMA LargestIs ==
  ASSUME NEW S, IsFiniteSet(S), NEW f, \A x \in S : f[x] \in Nat
  PROVE  /\ Max({0} \cup {f[x] : x \in S}) \in Nat
         /\ \A y \in S : f[y] <= Max({0} \cup {f[x] : x \in S})
  <1> DEFINE V(s) == {0} \cup {f[x] : x \in s}
             Has(s) == \E m \in V(s) : \A n \in V(s) : m >= n
             T == {s \in SUBSET S : ~Has(s)}
  <1>1. \A s \in SUBSET S : V(s) \subseteq Nat
    OBVIOUS
  <1>2. Has({})
    OBVIOUS
  <1>3. \A s \in SUBSET S : Has(s)
    <2>1. SUFFICES ASSUME T # {} PROVE FALSE
      OBVIOUS
    <2>2. T \subseteq SUBSET S /\ (\A s \in T : ~Has(s)) /\ \A s \in SUBSET S : s \in T \/ Has(s)
      OBVIOUS
    <2> HIDE DEF T, Has
    <2>3. PICK s \in T : \A t \in T : t \subseteq s => t = s
      BY <2>1, <2>2, SmallestPart
    <2>4. s \in SUBSET S /\ ~Has(s)
      BY <2>2, <2>3
    <2>5. PICK x : x \in s
      BY <2>4, <1>2
    <2>6. Has(s \ {x})
      BY <2>2, <2>3, <2>4, <2>5
    <2>7. PICK m \in V(s \ {x}) : \A n \in V(s \ {x}) : m >= n
      BY <2>6 DEF Has
    <2>8. V(s) = V(s \ {x}) \cup {f[x]} /\ V(s) \subseteq Nat
      BY <2>4, <2>5, <1>1
    <2> HIDE DEF V
    <2>9. f[x] \in Nat /\ m \in Nat /\ V(s \ {x}) \subseteq Nat
      BY <2>7, <2>8
    <2>10. CASE f[x] >= m
      BY <2>7, <2>8, <2>9, <2>10, <2>4 DEF Has
    <2>11. CASE ~(f[x] >= m)
      BY <2>7, <2>8, <2>9, <2>11, <2>4 DEF Has
    <2>12. QED
      BY <2>10, <2>11
  <1>4. PICK m \in V(S) : \A n \in V(S) : m >= n
    BY <1>3
  <1>5. PICK k : k = Max(V(S))
    OBVIOUS
  <1>6. k \in V(S) /\ \A n \in V(S) : k >= n
    BY <1>4, <1>5 DEF Max
  <1>7. \A n \in V(S) : n <= k
    BY <1>1, <1>6
  <1>8. QED
    BY <1>1, <1>5, <1>6, <1>7

-----------------------------------------------------------------------------
(* The inductive invariant.                                                *)

Totals == [count : Nat, run : Nat, tokens : Nat, tenant : Nat, sequence : Nat]

HandledRequests ==
  [at : {"none", "body", "locked", "send", "upstream", "settle", "done"},
   of : Attempts \cup {0}, model : Models, first : BOOLEAN, used : 0..2, cut : BOOLEAN,
   key : Secrets \cup {NoSecret}, live : BOOLEAN, totals : Totals, expiring : SUBSET ModelRequests]

ModelRequestRows ==
  [state : ModelRequestStates, of : Attempts \cup {0}, sequence : Nat, reserved : Nat,
   actual : Nat, tokens : Nat, day : Nat, lapsed : BOOLEAN]

GatewayTypes ==
  /\ GatewayTypeOK /\ day \in Nat
  /\ request \in [ModelRequests -> HandledRequests]
  /\ modelRequest \in [ModelRequests -> ModelRequestRows]

\* A request has no row before its reservation; while that is under way it has
\* the policy row, and nobody settles the rows that it will abort.
RequestsFollow ==
  \A r \in ModelRequests :
    /\ request[r].at \in {"none", "body", "locked"} => modelRequest[r].state = "none"
    /\ request[r].at \notin {"none", "done"} => request[r].of \in Attempts
    /\ request[r].at = "locked" => policyHolder = r
    /\ request[r].at # "locked" => request[r].expiring = {}
    /\ \A q \in request[r].expiring : modelRequest[q].state = "reserved"
    /\ modelRequest[r].state = "none" <=> modelRequest[r].of = 0
    /\ usageLedger[r] = IF modelRequest[r].state = "completed" THEN 1 ELSE 0

\* k is the key of the version that the Run of a was accepted with.
IsKey(a, k) ==
  binding[RunOf[a]].version > 0 /\ credential[binding[RunOf[a]].version].secret = k

\* A capability that has a key is live, and so was that of a request that has one.
KeysFollow ==
  /\ profile.version <= Len(credential)
  /\ \A x \in Runs : /\ binding[x].version <= Len(credential)
                     /\ attempt[x] # 0 => binding[x].version > 0
  /\ \A a \in Attempts :
       capability[a].secret # NoSecret =>
         capability[a].state = "live" /\ IsKey(a, capability[a].secret)
  /\ \A r \in ModelRequests :
       request[r].key # NoSecret =>
         /\ request[r].at # "none" /\ request[r].live /\ request[r].of \in Attempts
         /\ IsKey(request[r].of, request[r].key)

\* The number that a reservation read is the last one still.
NumbersFollow ==
  /\ SequencesUnique
  /\ \A r \in ModelRequests :
       request[r].at = "locked" =>
         \A q \in ModelRequests : modelRequest[q].of = request[r].of =>
           modelRequest[q].sequence <= request[r].totals.sequence

\* Claimed(r) of a row.
ClaimOf(row) ==
  CASE row.state = "completed" -> Min({row.actual, row.reserved})
    [] row.state = "reserved" -> row.reserved
    [] OTHER -> 0

Claims == [q \in ModelRequests |-> ClaimOf(modelRequest[q])]

\* What will be claimed when the lapsed rows that r has found are aborted.
Firm(r) == [q \in ModelRequests |-> IF q \in request[r].expiring THEN 0 ELSE ClaimOf(modelRequest[q])]

\* The totals that a reservation read bound what is claimed until it commits.
BudgetsFollow ==
  /\ \A x \in Runs : SumOf(Claims, OfRun(x)) <= RunCostLimit
  /\ SumOf(Claims, ModelRequests) <= TenantCostLimit
  /\ \A r \in ModelRequests :
       request[r].at = "locked" =>
         /\ SumOf(Firm(r), OfRun(RunOf[request[r].of])) <= request[r].totals.run
         /\ SumOf(Firm(r), ModelRequests) <= request[r].totals.tenant

GatewayInv ==
  GatewayTypes /\ RequestsFollow /\ KeysFollow /\ NumbersFollow /\ BudgetsFollow

-----------------------------------------------------------------------------
(* What is claimed.                                                        *)

LEMMA Smaller ==
  ASSUME NEW a \in Nat, NEW b \in Nat
  PROVE  Min({a, b}) \in Nat /\ Min({a, b}) <= a /\ Min({a, b}) <= b
  <1>1. \E x \in {a, b} : \A y \in {a, b} : x =< y
    OBVIOUS
  <1>2. PICK m : m = Min({a, b})
    OBVIOUS
  <1>3. m \in {a, b} /\ \A y \in {a, b} : m =< y
    BY <1>1, <1>2 DEF Min
  <1>4. QED
    BY <1>2, <1>3

LEMMA ClaimType ==
  ASSUME NEW row \in ModelRequestRows
  PROVE  /\ ClaimOf(row) \in Nat
         /\ row.state \notin {"completed", "reserved"} => ClaimOf(row) = 0
         /\ row.state = "reserved" => ClaimOf(row) = row.reserved
         /\ row.state = "completed" => ClaimOf(row) <= row.actual /\ ClaimOf(row) <= row.reserved
  <1>1. row.actual \in Nat /\ row.reserved \in Nat
    BY DEF ModelRequestRows
  <1>2. CASE row.state = "completed"
    BY <1>1, Smaller, <1>2 DEF ClaimOf
  <1>3. CASE row.state = "reserved"
    BY <1>1, <1>3 DEF ClaimOf
  <1>4. CASE row.state \notin {"completed", "reserved"}
    BY <1>1, <1>4 DEF ClaimOf
  <1>5. QED
    BY <1>2, <1>3, <1>4

\* The budgets are kept where the invariant holds.
LEMMA InvariantBudgets ==
  ASSUME GatewayInv
  PROVE  BudgetsHold
  <1>1. \A q \in ModelRequests : Claims[q] = Claimed(q) /\ Claims[q] \in Nat
    BY ClaimType DEF GatewayInv, GatewayTypes, Claimed, ClaimOf, Claims
  <1>2. \A S \in SUBSET ModelRequests : MapThenSumSet(Claimed, S) = SumOf(Claims, S)
    BY <1>1, ClaimedSums
  <1>3. \A x \in Runs : OfRun(x) \in SUBSET ModelRequests
    BY DEF OfRun
  <1>4. \A x \in Runs : MapThenSumSet(Claimed, OfRun(x)) = SumOf(Claims, OfRun(x))
    BY <1>2, <1>3
  <1>5. MapThenSumSet(Claimed, ModelRequests) = SumOf(Claims, ModelRequests)
    BY <1>2
  <1>6. QED
    BY <1>4, <1>5 DEF BudgetsHold, GatewayInv, BudgetsFollow

-----------------------------------------------------------------------------
(* Steps that reserve nothing.                                             *)

\* A request that does not come to the reservation.
Goes(r) ==
  /\ request'[r].at = "locked" =>
       /\ request[r].at = "locked" /\ policyHolder' = r /\ request'[r].of = request[r].of
       /\ request'[r].totals = request[r].totals /\ request'[r].expiring = request[r].expiring
  /\ request'[r].at \in {"none", "body"} => request[r].at \in {"none", "body"}
  /\ request'[r].at \notin {"none", "done"} => request'[r].of \in Attempts
  /\ request'[r].at # "locked" => request'[r].expiring = {}

\* A row that claims no more than it did.
Relieves(q) ==
  /\ modelRequest'[q].of = modelRequest[q].of
  /\ modelRequest'[q].sequence = modelRequest[q].sequence
  /\ ClaimOf(modelRequest'[q]) <= ClaimOf(modelRequest[q])
  /\ modelRequest'[q].state = "none" <=> modelRequest[q].state = "none"
  /\ \/ modelRequest'[q].state = modelRequest[q].state
     \/ \A r \in ModelRequests : q \notin request[r].expiring
  /\ usageLedger'[q] = IF modelRequest'[q].state = "completed" THEN 1 ELSE 0

LEMMA FiniteRequests ==
  ASSUME NEW S \in SUBSET ModelRequests
  PROVE  IsFiniteSet(S)
  BY GatewayConstants, FS_Subset

LEMMA ClaimsTyped ==
  ASSUME NEW rows \in [ModelRequests -> ModelRequestRows], NEW S
  PROVE  \A q \in ModelRequests :
           /\ [p \in ModelRequests |-> ClaimOf(rows[p])][q] = ClaimOf(rows[q])
           /\ [p \in ModelRequests |-> IF p \in S THEN 0 ELSE ClaimOf(rows[p])][q]
                = IF q \in S THEN 0 ELSE ClaimOf(rows[q])
           /\ ClaimOf(rows[q]) \in Nat
  BY ClaimType

LEMMA RelievesKeeps ==
  ASSUME GatewayInv, GatewayTypes', \A r \in ModelRequests : Goes(r),
         \A q \in ModelRequests : Relieves(q)
  PROVE  RequestsFollow' /\ NumbersFollow' /\ BudgetsFollow'
  <1>1. RequestsFollow'
    <2>1. SUFFICES ASSUME NEW r \in ModelRequests
          PROVE  /\ request'[r].at \in {"none", "body", "locked"} => modelRequest'[r].state = "none"
                 /\ request'[r].at \notin {"none", "done"} => request'[r].of \in Attempts
                 /\ request'[r].at = "locked" => policyHolder' = r
                 /\ request'[r].at # "locked" => request'[r].expiring = {}
                 /\ \A q \in request'[r].expiring : modelRequest'[q].state = "reserved"
                 /\ modelRequest'[r].state = "none" <=> modelRequest'[r].of = 0
                 /\ usageLedger'[r] = IF modelRequest'[r].state = "completed" THEN 1 ELSE 0
      BY DEF RequestsFollow
    <2>2. Goes(r) /\ Relieves(r)
      OBVIOUS
    <2>3. \A q \in request'[r].expiring : modelRequest'[q].state = "reserved"
      <3>1. SUFFICES ASSUME NEW q \in request'[r].expiring PROVE modelRequest'[q].state = "reserved"
        OBVIOUS
      <3>2. request'[r].at = "locked" /\ q \in request[r].expiring
        BY <2>2, <3>1 DEF Goes
      <3>3. request[r].expiring \subseteq ModelRequests
        BY DEF GatewayInv, GatewayTypes, HandledRequests
      <3>4. Relieves(q) /\ modelRequest[q].state = "reserved"
        BY <3>2, <3>3 DEF GatewayInv, RequestsFollow
      <3>5. QED
        BY <3>2, <3>4 DEF Relieves
    <2>4. /\ request[r].at \in {"none", "body", "locked"} => modelRequest[r].state = "none"
          /\ modelRequest[r].state = "none" <=> modelRequest[r].of = 0
      BY DEF GatewayInv, RequestsFollow
    <2>5. QED
      BY <2>2, <2>3, <2>4 DEF Goes, Relieves
  <1>2. NumbersFollow'
    BY DEF GatewayInv, NumbersFollow, SequencesUnique, Goes, Relieves
  <1>3. /\ modelRequest \in [ModelRequests -> ModelRequestRows]
        /\ modelRequest' \in [ModelRequests -> ModelRequestRows]
    BY DEF GatewayInv, GatewayTypes
  <1>4. \A q \in ModelRequests :
          /\ Claims[q] \in Nat /\ Claims'[q] \in Nat /\ Claims'[q] <= Claims[q]
    BY <1>3, ClaimsTyped DEF Claims, Relieves
  <1>5. ASSUME NEW S \in SUBSET ModelRequests
        PROVE  SumOf(Claims', S) <= SumOf(Claims, S)
    BY FiniteRequests, <1>4, SumLess
  <1>6. \A x \in Runs : OfRun(x) \in SUBSET ModelRequests /\ OfRun(x)' = OfRun(x)
    BY DEF OfRun, Relieves
  <1>7. \A S \in SUBSET ModelRequests : SumOf(Claims, S) \in Nat /\ SumOf(Claims', S) \in Nat
    BY <1>4, FiniteRequests, SumType
  <1>8. \A x \in Runs : SumOf(Claims', OfRun(x)') <= RunCostLimit
    BY GatewayConstants, <1>5, <1>6, <1>7 DEF GatewayInv, BudgetsFollow
  <1>9. SumOf(Claims', ModelRequests) <= TenantCostLimit
    BY GatewayConstants, <1>5, <1>7 DEF GatewayInv, BudgetsFollow
  <1>10. ASSUME NEW r \in ModelRequests, request'[r].at = "locked"
         PROVE  /\ \A x \in Runs : x = RunOf[request'[r].of] =>
                     SumOf(Firm(r)', OfRun(x)') <= request'[r].totals.run
                /\ SumOf(Firm(r)', ModelRequests) <= request'[r].totals.tenant
                /\ RunOf[request'[r].of] \in Runs
    <2>1. /\ request[r].at = "locked" /\ request'[r].of = request[r].of
          /\ request'[r].totals = request[r].totals /\ request'[r].expiring = request[r].expiring
          /\ request[r].of \in Attempts
      BY <1>10 DEF Goes, GatewayInv, RequestsFollow
    <2>2. \A q \in ModelRequests :
            Firm(r)[q] \in Nat /\ Firm(r)'[q] \in Nat /\ Firm(r)'[q] <= Firm(r)[q]
      BY <1>3, <2>1, ClaimsTyped DEF Firm, Relieves
    <2>3. ASSUME NEW S \in SUBSET ModelRequests
          PROVE  /\ SumOf(Firm(r)', S) <= SumOf(Firm(r), S)
                 /\ SumOf(Firm(r)', S) \in Nat /\ SumOf(Firm(r), S) \in Nat
      BY FiniteRequests, <2>2, SumLess, SumType
    <2>4. PICK x \in Runs : x = RunOf[request[r].of]
      BY <2>1, GatewayConstants
    <2>5. /\ SumOf(Firm(r), OfRun(x)) <= request[r].totals.run
          /\ SumOf(Firm(r), ModelRequests) <= request[r].totals.tenant
          /\ request[r].totals.run \in Nat /\ request[r].totals.tenant \in Nat
      BY <2>1, <2>4 DEF GatewayInv, GatewayTypes, HandledRequests, BudgetsFollow, Totals
    <2>6. OfRun(x)' = OfRun(x) /\ OfRun(x) \in SUBSET ModelRequests
      BY <1>6
    <2>7. QED
      BY <2>1, <2>3, <2>4, <2>5, <2>6
  <1>11. BudgetsFollow'
    BY <1>8, <1>9, <1>10 DEF BudgetsFollow
  <1>12. QED
    BY <1>1, <1>2, <1>11

-----------------------------------------------------------------------------
(* Reservations.                                                           *)

LEMMA RowTypes ==
  ASSUME GatewayInv, NEW q \in ModelRequests
  PROVE  /\ modelRequest[q] \in ModelRequestRows
         /\ modelRequest[q].state \in ModelRequestStates
         /\ modelRequest[q].of \in Attempts \cup {0} /\ modelRequest[q].sequence \in Nat
         /\ modelRequest[q].reserved \in Nat /\ modelRequest[q].actual \in Nat
         /\ modelRequest[q].tokens \in Nat /\ modelRequest[q].day \in Nat
         /\ modelRequest[q].lapsed \in BOOLEAN
  BY DEF GatewayInv, GatewayTypes, ModelRequestRows

\* What a reservation reads bounds what is claimed but for the lapsed rows.
LEMMA AggregateBounds ==
  ASSUME GatewayInv, NEW a \in Attempts, NEW E, NEW firm,
         E = {q \in ModelRequests : modelRequest[q].state = "reserved" /\ modelRequest[q].lapsed},
         firm = [q \in ModelRequests |-> IF q \in E THEN 0 ELSE ClaimOf(modelRequest[q])]
  PROVE  /\ aggregate(a) \in Totals
         /\ SumOf(firm, OfRun(RunOf[a])) <= aggregate(a).run
         /\ SumOf(firm, ModelRequests) <= aggregate(a).tenant
         /\ \A q \in ModelRequests : modelRequest[q].of = a =>
              modelRequest[q].sequence <= aggregate(a).sequence
  <1>1. PICK x \in Runs : x = RunOf[a]
    BY GatewayConstants
  <1>2. PICK cost : cost = [q \in ModelRequests |-> Cost(q)]
    OBVIOUS
  <1>3. PICK used : used = [q \in ModelRequests |-> Tokens(q)]
    OBVIOUS
  <1>4. ASSUME NEW q \in ModelRequests
        PROVE  /\ cost[q] = Cost(q) /\ cost[q] \in Nat /\ used[q] = Tokens(q) /\ used[q] \in Nat
               /\ firm[q] \in Nat
               /\ firm[q] = 0 \/ (modelRequest[q].of # 0 /\ firm[q] <= cost[q])
    <2>1. /\ modelRequest[q] \in ModelRequestRows
          /\ modelRequest[q].reserved \in Nat /\ modelRequest[q].actual \in Nat
          /\ modelRequest[q].tokens \in Nat
      BY RowTypes
    <2>2. cost[q] = Cost(q) /\ cost[q] \in Nat /\ used[q] = Tokens(q) /\ used[q] \in Nat
      BY <1>2, <1>3, <2>1 DEF Cost, Tokens
    <2>3. PICK c : c = ClaimOf(modelRequest[q])
      OBVIOUS
    <2>4. /\ c \in Nat
          /\ modelRequest[q].state \notin {"completed", "reserved"} => c = 0
          /\ modelRequest[q].state = "reserved" => c = modelRequest[q].reserved
          /\ modelRequest[q].state = "completed" => c <= modelRequest[q].actual
      BY <2>1, <2>3, ClaimType
    <2>5. firm[q] = IF q \in E THEN 0 ELSE c
      BY <2>3
    <2>6. modelRequest[q].of = 0 => modelRequest[q].state = "none"
      BY DEF GatewayInv, RequestsFollow
    <2>7. firm[q] = 0 \/ (modelRequest[q].of # 0 /\ firm[q] <= cost[q])
      BY <2>5, <2>1, <2>2, <2>4, <2>6 DEF Cost, HoldsReservation
    <2>8. QED
      BY <2>2, <2>4, <2>5, <2>7
  <1>5. PICK all : all = {q \in ModelRequests : modelRequest[q].of # 0}
    OBVIOUS
  <1>6. PICK today : today = {q \in ModelRequests : modelRequest[q].of # 0 /\ modelRequest[q].day = day}
    OBVIOUS
  <1>7. PICK mine : mine = {q \in ModelRequests : modelRequest[q].of = a}
    OBVIOUS
  <1>8. PICK counted : counted = {q \in OfRun(x) : modelRequest[q].state # "budget_denied"}
    OBVIOUS
  <1>9. /\ all \in SUBSET ModelRequests /\ today \in SUBSET ModelRequests
        /\ mine \in SUBSET ModelRequests /\ counted \in SUBSET ModelRequests
        /\ OfRun(x) \in SUBSET ModelRequests /\ ModelRequests \in SUBSET ModelRequests
    BY <1>5, <1>6, <1>7, <1>8 DEF OfRun
  <1>10. \A S \in SUBSET ModelRequests :
           /\ IsFiniteSet(S) /\ Cardinality(S) \in Nat
           /\ MapThenSumSet(Cost, S) = SumOf(cost, S) /\ SumOf(cost, S) \in Nat
           /\ MapThenSumSet(Tokens, S) = SumOf(used, S) /\ SumOf(used, S) \in Nat
    BY FiniteRequests, FS_CardinalityType, <1>4, CostSums, TokensSums, SumType
  <1>11. PICK numbers : numbers = [q \in ModelRequests |-> modelRequest[q].sequence]
    OBVIOUS
  <1>12. \A q \in ModelRequests : numbers[q] = modelRequest[q].sequence /\ numbers[q] \in Nat
    BY <1>11, RowTypes
  <1>13. {numbers[q] : q \in mine} = {modelRequest[q].sequence : q \in mine}
    BY <1>9, <1>12
  <1>14. PICK last : last = Max({0} \cup {modelRequest[q].sequence : q \in mine})
    OBVIOUS
  <1>15. last \in Nat /\ \A q \in mine : numbers[q] <= last
    <2>1. IsFiniteSet(mine) /\ \A q \in mine : numbers[q] \in Nat
      BY <1>9, <1>10, <1>12
    <2>2. /\ Max({0} \cup {numbers[q] : q \in mine}) \in Nat
          /\ \A p \in mine : numbers[p] <= Max({0} \cup {numbers[q] : q \in mine})
      BY <2>1, LargestIs
    <2>3. QED
      BY <2>2, <1>13, <1>14
  <1>16. aggregate(a) = [count |-> Cardinality(counted), run |-> MapThenSumSet(Cost, OfRun(x)),
                         tokens |-> MapThenSumSet(Tokens, today),
                         tenant |-> MapThenSumSet(Cost, all), sequence |-> last]
    BY <1>1, <1>5, <1>6, <1>7, <1>8, <1>14 DEF aggregate
  <1>17. aggregate(a) = [count |-> Cardinality(counted), run |-> SumOf(cost, OfRun(x)),
                         tokens |-> SumOf(used, today), tenant |-> SumOf(cost, all),
                         sequence |-> last]
    BY <1>9, <1>10, <1>16
  <1>18. /\ Cardinality(counted) \in Nat /\ SumOf(cost, OfRun(x)) \in Nat
         /\ SumOf(used, today) \in Nat /\ SumOf(cost, all) \in Nat
    BY <1>9, <1>10
  <1>19. SumOf(firm, OfRun(x)) <= SumOf(cost, OfRun(x))
    BY <1>9, <1>10, <1>4, SumLess
  <1>20. SumOf(firm, ModelRequests) <= SumOf(cost, all)
    BY <1>4, <1>5, <1>9, <1>10, SumLess
  <1>21. \A q \in ModelRequests : modelRequest[q].of = a => modelRequest[q].sequence <= last
    BY <1>7, <1>12, <1>15
  <1>22. aggregate(a) \in Totals
    BY <1>15, <1>17, <1>18 DEF Totals
  <1>23. /\ aggregate(a).run = SumOf(cost, OfRun(x)) /\ aggregate(a).tenant = SumOf(cost, all)
         /\ aggregate(a).sequence = last
    BY <1>17
  <1>24. QED
    BY <1>1, <1>19, <1>20, <1>21, <1>22, <1>23

-----------------------------------------------------------------------------
(* What becomes of a request.                                              *)

\* The fields of a request that a step does not name stay.
LEMMA CutRequest ==
  ASSUME NEW y \in HandledRequests, NEW x, x = [y EXCEPT !.cut = TRUE]
  PROVE  /\ x \in HandledRequests /\ x.at = y.at /\ x.of = y.of
         /\ x.totals = y.totals /\ x.expiring = y.expiring /\ x.key = y.key /\ x.live = y.live
  BY DEF HandledRequests

LEMMA NewRequestOK ==
  /\ NewRequest \in HandledRequests /\ NewRequest.at = "none" /\ NewRequest.of = 0
  /\ NewRequest.expiring = {} /\ NewRequest.key = NoSecret /\ NewRequest.live = FALSE
  /\ NoTotals \in Totals
  BY DEF NoTotals, Totals, NewRequest, HandledRequests, Models

LEMMA AnsweredRequest ==
  /\ Answered \in HandledRequests /\ Answered.at = "done" /\ Answered.of = 0
  /\ Answered.expiring = {} /\ Answered.key = NoSecret
  BY NewRequestOK DEF HandledRequests, Answered

-----------------------------------------------------------------------------
(* The reservation and its commit.                                         *)

\* Only r reads the totals, and it reads those that there are.
LEMMA LockedKeeps ==
  ASSUME GatewayInv, GatewayTypes', NEW r \in ModelRequests, NEW E,
         E = {q \in ModelRequests : modelRequest[q].state = "reserved" /\ modelRequest[q].lapsed},
         request[r].at = "body", policyHolder = NoRequest, policyHolder' = r,
         NEW x, request' = [request EXCEPT ![r] = x], x.at = "locked",
         x.of = request[r].of, x.totals = aggregate(x.of), x.expiring = E,
         UNCHANGED <<modelRequest, usageLedger>>
  PROVE  RequestsFollow' /\ NumbersFollow' /\ BudgetsFollow'
  <1>1. /\ request'[r] = x /\ \A q \in ModelRequests \ {r} : request'[q] = request[q]
        /\ modelRequest' = modelRequest /\ usageLedger' = usageLedger
    BY DEF GatewayInv, GatewayTypes
  <1>2. \A q \in ModelRequests : request[q].at # "locked"
    BY GatewayConstants DEF GatewayInv, RequestsFollow
  <1>3. x.of \in Attempts /\ modelRequest[r].state = "none"
    BY DEF GatewayInv, RequestsFollow
  <1>4. RequestsFollow'
    BY <1>1, <1>2, <1>3 DEF GatewayInv, RequestsFollow
  <1>5. PICK a \in Attempts : a = x.of
    BY <1>3
  <1>6. PICK firm : firm = [q \in ModelRequests |-> IF q \in E THEN 0 ELSE ClaimOf(modelRequest[q])]
    OBVIOUS
  <1>7. /\ aggregate(a) \in Totals
        /\ SumOf(firm, OfRun(RunOf[a])) <= aggregate(a).run
        /\ SumOf(firm, ModelRequests) <= aggregate(a).tenant
        /\ \A q \in ModelRequests : modelRequest[q].of = a =>
             modelRequest[q].sequence <= aggregate(a).sequence
    BY <1>6, AggregateBounds
  <1>8. PICK t : t = aggregate(a)
    OBVIOUS
  <1>9. t = x.totals
    BY <1>5, <1>8
  <1>10. NumbersFollow'
    BY <1>1, <1>2, <1>5, <1>7, <1>8, <1>9 DEF GatewayInv, NumbersFollow, SequencesUnique
  <1>11. Firm(r)' = firm /\ Claims' = Claims /\ \A y \in Runs : OfRun(y)' = OfRun(y)
    BY <1>1, <1>6 DEF Firm, Claims, OfRun
  <1>12. OfRun(RunOf[a])' = OfRun(RunOf[a])
    BY <1>1 DEF OfRun
  <1>13. BudgetsFollow'
    BY <1>1, <1>2, <1>7, <1>8, <1>9, <1>11, <1>12, <1>5 DEF GatewayInv, BudgetsFollow
  <1>14. QED
    BY <1>4, <1>10, <1>13

\* The commit writes the row of r, and aborts what r has found lapsed.
LEMMA CommitKeeps ==
  ASSUME GatewayInv, GatewayTypes', NEW r \in ModelRequests, request[r].at = "locked",
         NEW row \in ModelRequestRows, NEW denied \in BOOLEAN,
         row.state = IF denied THEN "budget_denied" ELSE "reserved",
         row.of = request[r].of, row.sequence = request[r].totals.sequence + 1,
         ~denied => /\ request[r].totals.run + row.reserved <= RunCostLimit
                    /\ request[r].totals.tenant + row.reserved <= TenantCostLimit,
         \A q \in ModelRequests :
           IF q = r THEN modelRequest'[q] = row
           ELSE IF q \in request[r].expiring
                THEN /\ modelRequest'[q].state = "aborted" /\ modelRequest'[q].of = modelRequest[q].of
                     /\ modelRequest'[q].sequence = modelRequest[q].sequence
           ELSE modelRequest'[q] = modelRequest[q],
         NEW x, request' = [request EXCEPT ![r] = x], x.at \in {"send", "done"},
         x.at = "send" => x.of = request[r].of, x.expiring = {},
         UNCHANGED usageLedger
  PROVE  RequestsFollow' /\ NumbersFollow' /\ BudgetsFollow'
  <1>1. /\ request'[r] = x /\ \A q \in ModelRequests \ {r} : request'[q] = request[q]
        /\ usageLedger' = usageLedger
    BY DEF GatewayInv, GatewayTypes
  <1>2. /\ \A q \in ModelRequests \ {r} : request[q].at # "locked" /\ request[q].expiring = {}
        /\ policyHolder = r
    BY DEF GatewayInv, RequestsFollow
  <1>3. /\ row.of \in Attempts /\ row.of # 0 /\ modelRequest[r].state = "none"
        /\ modelRequest[r].of = 0 /\ r \notin request[r].expiring /\ usageLedger[r] = 0
        /\ \A q \in request[r].expiring :
             q \in ModelRequests /\ modelRequest[q].state = "reserved" /\ modelRequest[q].of # 0
    BY GatewayConstants DEF GatewayInv, GatewayTypes, HandledRequests, RequestsFollow
  <1>4. RequestsFollow'
    BY <1>1, <1>3, <1>2 DEF RequestsFollow, GatewayInv
  <1>5. request[r].totals \in Totals
    BY DEF GatewayInv, GatewayTypes, HandledRequests
  <1>6. NumbersFollow'
    BY <1>5, RowTypes, <1>1, <1>2 DEF GatewayInv, NumbersFollow, Totals, SequencesUnique
  <1>7. /\ modelRequest \in [ModelRequests -> ModelRequestRows]
        /\ modelRequest' \in [ModelRequests -> ModelRequestRows]
    BY DEF GatewayInv, GatewayTypes
  <1>8. PICK paid \in Nat : paid = IF denied THEN 0 ELSE row.reserved
    BY DEF ModelRequestRows
  <1>9. /\ \A q \in ModelRequests : Claims[q] \in Nat /\ Claims'[q] \in Nat /\ Firm(r)[q] \in Nat
        /\ Claims'[r] = paid /\ Claims[r] = 0 /\ Firm(r)[r] = 0
        /\ \A q \in ModelRequests \ {r} : Claims'[q] <= Firm(r)[q] /\ Claims'[q] <= Claims[q]
    <2>1. \A q \in ModelRequests : /\ Claims[q] \in Nat /\ Claims'[q] \in Nat /\ Firm(r)[q] \in Nat
                                   /\ Claims[q] = ClaimOf(modelRequest[q])
                                   /\ Claims'[q] = ClaimOf(modelRequest'[q])
                                   /\ Firm(r)[q] = IF q \in request[r].expiring THEN 0 ELSE Claims[q]
      BY <1>7, ClaimsTyped DEF Claims, Firm
    <2>2. ClaimOf(row) = paid
      BY <1>8, ClaimType
    <2>3. ClaimOf(modelRequest[r]) = 0
      BY <1>3, <1>7, ClaimType
    <2>4. ASSUME NEW q \in ModelRequests \ {r}
          PROVE  Claims'[q] <= Firm(r)[q] /\ Claims'[q] <= Claims[q]
      <3>1. CASE q \in request[r].expiring
        BY <1>7, <3>1, ClaimType, <2>1
      <3>2. CASE q \notin request[r].expiring
        BY <3>2, <2>1
      <3>3. QED
        BY <3>1, <3>2
    <2>5. QED
      BY <1>3, <2>1, <2>2, <2>3, <2>4
  <1>10. PICK x0 \in Runs : x0 = RunOf[row.of]
    BY <1>3, GatewayConstants
  <1>11. /\ \A y \in Runs : OfRun(y) \in SUBSET ModelRequests /\ r \notin OfRun(y)
         /\ \A y \in Runs : y # x0 => OfRun(y)' = OfRun(y)
         /\ OfRun(x0)' = OfRun(x0) \cup {r}
    BY <1>3, <1>10 DEF OfRun
  <1>12. PICK sum \in Nat : sum = SumOf(Claims', ModelRequests)
    BY <1>9, FiniteRequests, SumType
  \* A part of the rows without r, with it, and with its claim.
  <1>13. ASSUME NEW S \in SUBSET ModelRequests, r \notin S
         PROVE  /\ SumOf(Claims', S) <= SumOf(Claims, S) /\ SumOf(Claims', S) <= SumOf(Firm(r), S)
                /\ SumOf(Claims', S) \in Nat /\ SumOf(Claims, S) \in Nat /\ SumOf(Firm(r), S) \in Nat
                /\ SumOf(Claims', S \cup {r}) = paid + SumOf(Claims', S)
                /\ SumOf(Firm(r), S \cup {r}) = SumOf(Firm(r), S)
                /\ SumOf(Claims, S \cup {r}) = SumOf(Claims, S)
    <2>1. /\ IsFiniteSet(S) /\ S \in SUBSET S /\ IsFiniteSet(S \cup {r})
          /\ S \cup {r} \in SUBSET ModelRequests /\ (S \cup {r}) \ {r} = S
      BY <1>13, FiniteRequests
    <2>2. \A q \in S : /\ Claims[q] \in Nat /\ Claims'[q] \in Nat /\ Firm(r)[q] \in Nat
                       /\ Claims'[q] <= Firm(r)[q] /\ Claims'[q] <= Claims[q]
      BY <1>9, <1>13
    <2>3. SumOf(Claims', S) <= SumOf(Claims, S)
      BY <2>1, <2>2, SumLess
    <2>4. SumOf(Claims', S) <= SumOf(Firm(r), S)
      BY <2>1, <2>2, SumLess
    <2>5. SumOf(Claims', S) \in Nat /\ SumOf(Claims, S) \in Nat /\ SumOf(Firm(r), S) \in Nat
      BY <2>1, <2>2, SumType
    <2>6. r \in S \cup {r} /\ \A q \in S \cup {r} :
            Claims[q] \in Nat /\ Claims'[q] \in Nat /\ Firm(r)[q] \in Nat
      BY <1>9, <2>1
    <2>7. SumOf(Claims', S \cup {r}) = Claims'[r] + SumOf(Claims', (S \cup {r}) \ {r})
      BY <2>1, <2>6, SumTakes
    <2>8. SumOf(Claims, S \cup {r}) = Claims[r] + SumOf(Claims, (S \cup {r}) \ {r})
      BY <2>1, <2>6, SumTakes
    <2>9. SumOf(Firm(r), S \cup {r}) = Firm(r)[r] + SumOf(Firm(r), (S \cup {r}) \ {r})
      BY <2>1, <2>6, SumTakes
    <2>10. SumOf(Claims', S \cup {r}) = paid + SumOf(Claims', S)
      BY <1>9, <2>1, <2>7
    <2>11. SumOf(Firm(r), S \cup {r}) = SumOf(Firm(r), S)
      <3>1. PICK e \in Nat : e = SumOf(Firm(r), S)
        BY <2>5
      <3>2. SumOf(Firm(r), S \cup {r}) = 0 + e
        BY <1>9, <2>1, <2>9, <3>1
      <3>3. QED
        BY <3>1, <3>2
    <2>12. SumOf(Claims, S \cup {r}) = SumOf(Claims, S)
      <3>1. PICK d \in Nat : d = SumOf(Claims, S)
        BY <2>5
      <3>2. SumOf(Claims, S \cup {r}) = 0 + d
        BY <1>9, <2>1, <2>8, <3>1
      <3>3. QED
        BY <3>1, <3>2
    <2>13. QED
      BY <2>3, <2>4, <2>5, <2>10, <2>11, <2>12
  <1>14. /\ \A y \in Runs : SumOf(Claims, OfRun(y)) <= RunCostLimit
         /\ SumOf(Claims, ModelRequests) <= TenantCostLimit
         /\ SumOf(Firm(r), OfRun(x0)) <= request[r].totals.run
         /\ SumOf(Firm(r), ModelRequests) <= request[r].totals.tenant
         /\ request[r].totals.run \in Nat /\ request[r].totals.tenant \in Nat
         /\ RunCostLimit \in Nat /\ TenantCostLimit \in Nat
    BY <1>5, <1>10, GatewayConstants DEF GatewayInv, BudgetsFollow, Totals
  <1>15. ASSUME NEW y \in Runs PROVE SumOf(Claims', OfRun(y)') <= RunCostLimit
    <2>1. OfRun(y) \in SUBSET ModelRequests /\ r \notin OfRun(y)
      BY <1>11
    <2>2. PICK c \in Nat, d \in Nat, e \in Nat :
            /\ c = SumOf(Claims', OfRun(y)) /\ d = SumOf(Claims, OfRun(y)) /\ e = SumOf(Firm(r), OfRun(y))
            /\ c <= d /\ c <= e /\ SumOf(Claims', OfRun(y) \cup {r}) = paid + c
      BY <1>13, <2>1
    <2>3. CASE y # x0
      BY <1>11, <1>14, <2>2, <2>3
    <2>4. CASE y = x0 /\ denied
      <3>1. SumOf(Claims', OfRun(y)') = paid + c
        BY <1>11, <2>2, <2>4
      <3>2. d <= RunCostLimit /\ paid = 0
        BY <1>8, <1>14, <2>2, <2>4
      <3>3. QED
        BY <1>14, <2>2, <3>1, <3>2
    <2>5. CASE y = x0 /\ ~denied
      <3>1. PICK t \in Nat : t = request[r].totals.run
        BY <1>14
      <3>2. SumOf(Claims', OfRun(y)') = paid + c /\ e <= t /\ t + paid <= RunCostLimit
        BY <1>8, <1>11, <1>14, <2>2, <2>5, <3>1
      <3>3. QED
        BY <1>14, <2>2, <3>1, <3>2
    <2>6. QED
      BY <2>3, <2>4, <2>5
  <1>16. SumOf(Claims', ModelRequests) <= TenantCostLimit
    <2>1. PICK S : S = ModelRequests \ {r}
      OBVIOUS
    <2>2. S \in SUBSET ModelRequests /\ r \notin S /\ S \cup {r} = ModelRequests
      BY <2>1
    <2>3. PICK c \in Nat, d \in Nat, e \in Nat :
            /\ c = SumOf(Claims', S) /\ d = SumOf(Claims, S) /\ e = SumOf(Firm(r), S)
            /\ c <= d /\ c <= e /\ SumOf(Claims', S \cup {r}) = paid + c
            /\ SumOf(Claims, S \cup {r}) = d /\ SumOf(Firm(r), S \cup {r}) = e
      BY <1>13, <2>2
    <2>4. /\ SumOf(Claims', ModelRequests) = paid + c /\ d <= TenantCostLimit
          /\ e <= request[r].totals.tenant
      BY <1>14, <2>2, <2>3
    <2>5. CASE denied
      BY <1>8, <1>14, <2>3, <2>4, <2>5
    <2>6. CASE ~denied
      BY <1>14, <1>8, <2>4, <2>6, <2>3
    <2>7. QED
      BY <2>5, <2>6
  <1>17. \A q \in ModelRequests : request'[q].at # "locked"
    BY <1>1, <1>2
  <1>18. BudgetsFollow'
    BY <1>15, <1>16, <1>17 DEF BudgetsFollow
  <1>19. QED
    BY <1>4, <1>6, <1>18

-----------------------------------------------------------------------------
(* What each step leaves as it is.                                         *)

Credentials == [secret : Secrets, readable : BOOLEAN]

Capabilities ==
  [state : {"none", "live", "revoked"}, secret : Secrets \cup {NoSecret}, lapsed : BOOLEAN]

LEMMA TypesFollow ==
  ASSUME profile' \in [model : Models, version : 1..MaxCredentialVersions],
         credential' \in Seq(Credentials),
         binding' \in [Runs -> [model : Models, version : 0..MaxCredentialVersions]],
         attempt' \in [Runs -> Attempts \cup {0}], capability' \in [Attempts -> Capabilities],
         route' \in BOOLEAN, day' \in Nat, usageLedger' \in [ModelRequests -> 0..2],
         policyHolder' \in ModelRequests \cup {NoRequest},
         request' \in [ModelRequests -> HandledRequests],
         modelRequest' \in [ModelRequests -> ModelRequestRows]
  PROVE  GatewayTypes'
  BY DEF HandledRequests, ModelRequestRows, GatewayTypes, GatewayTypeOK, Credentials, Capabilities

LEMMA TypesAre ==
  ASSUME GatewayInv
  PROVE  /\ profile \in [model : Models, version : 1..MaxCredentialVersions]
         /\ credential \in Seq(Credentials)
         /\ binding \in [Runs -> [model : Models, version : 0..MaxCredentialVersions]]
         /\ attempt \in [Runs -> Attempts \cup {0}] /\ capability \in [Attempts -> Capabilities]
         /\ route \in BOOLEAN /\ day \in Nat /\ usageLedger \in [ModelRequests -> 0..2]
         /\ policyHolder \in ModelRequests \cup {NoRequest}
         /\ request \in [ModelRequests -> HandledRequests]
         /\ modelRequest \in [ModelRequests -> ModelRequestRows]
  BY DEF GatewayInv, GatewayTypes, GatewayTypeOK, Credentials, Capabilities

\* Requests and the policy row as they were.
LEMMA StayGoes ==
  ASSUME GatewayInv, UNCHANGED <<request, policyHolder>>
  PROVE  \A r \in ModelRequests : Goes(r)
  BY DEF GatewayInv, RequestsFollow, Goes

\* Rows as they were.
LEMMA StayRelieves ==
  ASSUME GatewayInv, UNCHANGED <<modelRequest, usageLedger>>
  PROVE  \A q \in ModelRequests : Relieves(q)
  BY RowTypes, ClaimType DEF Relieves, GatewayInv, RequestsFollow

\* One request goes on, past its reservation or not yet at it.
LEMMA StepGoes ==
  ASSUME GatewayInv, UNCHANGED policyHolder, NEW r \in ModelRequests, NEW x \in HandledRequests,
         request' = [request EXCEPT ![r] = x], x.at \notin {"none", "locked"},
         x.at = "body" => request[r].at \in {"none", "body"},
         x.at # "done" => x.of \in Attempts, x.expiring = {}
  PROVE  /\ \A q \in ModelRequests : Goes(q)
         /\ request' \in [ModelRequests -> HandledRequests]
         /\ request'[r] = x /\ \A q \in ModelRequests \ {r} : request'[q] = request[q]
  <1>1. /\ request' \in [ModelRequests -> HandledRequests]
        /\ request'[r] = x /\ \A q \in ModelRequests \ {r} : request'[q] = request[q]
    BY TypesAre
  <1>2. ASSUME NEW q \in ModelRequests PROVE Goes(q)
    BY <1>1 DEF Goes, GatewayInv, RequestsFollow
  <1>3. QED
    BY <1>1, <1>2

\* Keys as they were, or gone.
LEMMA KeysStay ==
  ASSUME GatewayInv, UNCHANGED <<profile, credential, binding>>,
         \A x \in Runs : attempt'[x] # 0 => attempt[x] # 0,
         \A a \in Attempts : capability'[a].secret # NoSecret =>
            capability'[a].secret = capability[a].secret /\ capability'[a].state = "live",
         \A r \in ModelRequests : request'[r].key # NoSecret =>
            /\ request'[r].key = request[r].key /\ request'[r].live = request[r].live
            /\ request'[r].of = request[r].of /\ (request'[r].at = "none" => request[r].at = "none")
  PROVE  KeysFollow'
  BY DEF GatewayInv, KeysFollow, IsKey

\* Steps of the configuration and of the Runs.
LEMMA OtherKeeps ==
  ASSUME GatewayInv, UNCHANGED <<route, request, modelRequest, usageLedger, policyHolder>>,
         profile' \in [model : Models, version : 1..MaxCredentialVersions],
         credential' \in Seq(Credentials),
         binding' \in [Runs -> [model : Models, version : 0..MaxCredentialVersions]],
         attempt' \in [Runs -> Attempts \cup {0}], capability' \in [Attempts -> Capabilities],
         day' \in Nat, KeysFollow'
  PROVE  GatewayInv'
  BY TypesAre, TypesFollow, StayGoes, StayRelieves, RelievesKeeps DEF GatewayInv

-----------------------------------------------------------------------------
(* The steps of the configuration and of the Runs.                         *)

LEMMA ReplaceKeeps ==
  ASSUME GatewayInv, NEW s \in Secrets, NEW m \in ConfiguredModels, replaceForTenant(s, m)
  PROVE  GatewayInv'
  <1>1. m \in Models /\ MaxCredentialVersions \in Nat
    BY GatewayConstants DEF Models
  <1>2. UNCHANGED <<binding, attempt, capability, route, request, modelRequest, usageLedger,
                    policyHolder, day>>
    BY DEF replaceForTenant
  <1>3. CASE profile' = [profile EXCEPT !.model = m] /\ UNCHANGED credential
    BY <1>1, <1>3, TypesAre, <1>2, OtherKeeps DEF GatewayInv, KeysFollow, IsKey
  <1>4. CASE ReplaceSealed(s, m)
    <2>1. credential \in Seq(Credentials) /\ seal(s) \in Credentials
      BY TypesAre DEF Credentials, seal
    <2>2. PICK n \in Nat : n = Len(credential)
      BY <2>1
    <2>3. /\ credential' \in Seq(Credentials) /\ Len(credential') = n + 1
          /\ \A v \in 1..n : credential'[v] = credential[v]
          /\ profile' = [model |-> m, version |-> n + 1] /\ n + 1 <= MaxCredentialVersions
      BY <1>4, <2>1, <2>2 DEF ReplaceSealed, nextVersion
    <2>4. profile' \in [model : Models, version : 1..MaxCredentialVersions]
      BY <1>1, <2>3
    <2>5. \A x \in Runs : /\ binding[x].version \in Nat /\ binding[x].version <= n
                          /\ attempt[x] # 0 => binding[x].version > 0
      BY <1>1, <2>2, TypesAre DEF GatewayInv, KeysFollow
    <2>6. \A x \in Runs : binding[x].version > 0 =>
            credential'[binding[x].version] = credential[binding[x].version]
      BY <2>3, <2>5
    <2>7. \A a \in Attempts : RunOf[a] \in Runs
      BY GatewayConstants
    <2>8. KeysFollow'
      BY <1>2, <2>2, <2>3, <2>5, <2>6, <2>7 DEF GatewayInv, KeysFollow, IsKey
    <2>9. QED
      BY <1>2, <2>3, <2>4, <2>8, TypesAre, OtherKeeps
  <1>5. QED
    BY <1>3, <1>4 DEF replaceForTenant

LEMMA RotateKeeps ==
  ASSUME GatewayInv, RotateMasterKey
  PROVE  GatewayInv'
  <1>1. UNCHANGED <<profile, binding, attempt, capability, route, request, modelRequest,
                    usageLedger, policyHolder, day>>
    BY DEF RotateMasterKey
  <1>2. credential \in Seq(Credentials)
    BY TypesAre
  <1>3. credential' = [v \in 1..Len(credential) |-> [credential[v] EXCEPT !.readable = FALSE]]
    BY <1>2 DEF RotateMasterKey
  <1>4. ASSUME NEW v \in 1..Len(credential)
        PROVE  /\ [credential[v] EXCEPT !.readable = FALSE] \in Credentials
               /\ credential'[v].secret = credential[v].secret
    <2>1. PICK c \in Credentials : c = credential[v]
      BY <1>2
    <2>2. PICK d : d = [c EXCEPT !.readable = FALSE]
      OBVIOUS
    <2>3. d \in Credentials /\ d.secret = c.secret
      BY <2>2 DEF Credentials
    <2>4. QED
      BY <1>3, <2>1, <2>2, <2>3
  <1>5. credential' \in Seq(Credentials) /\ Len(credential') = Len(credential)
    BY <1>2, <1>3, <1>4
  <1>6. \A x \in Runs : binding[x].version \in Nat /\ binding[x].version <= Len(credential)
    BY TypesAre, GatewayConstants DEF GatewayInv, KeysFollow
  <1>7. \A x \in Runs : binding[x].version > 0 =>
          credential'[binding[x].version].secret = credential[binding[x].version].secret
    <2>1. \A v \in 1..Len(credential) : credential'[v].secret = credential[v].secret
      BY <1>4
    <2>2. PICK n \in Nat : n = Len(credential)
      BY <1>2
    <2>3. QED
      BY <1>6, <2>1, <2>2
  <1>8. \A a \in Attempts : RunOf[a] \in Runs
    BY GatewayConstants
  <1>9. KeysFollow'
    BY <1>1, <1>5, <1>7, <1>8 DEF GatewayInv, KeysFollow, IsKey
  <1>10. QED
    BY <1>1, <1>5, <1>9, TypesAre, OtherKeeps

LEMMA AcceptKeeps ==
  ASSUME GatewayInv, NEW x \in Runs, AcceptWithProfile(x)
  PROVE  GatewayInv'
  <1>1. /\ binding[x].version = 0 /\ binding' = [binding EXCEPT ![x] = profile]
        /\ UNCHANGED <<profile, credential, attempt, capability, route, request, modelRequest,
                       usageLedger, policyHolder, day>>
    BY DEF AcceptWithProfile
  <1>2. profile \in [model : Models, version : 0..MaxCredentialVersions] /\ profile.version > 0
    BY TypesAre, GatewayConstants
  <1>3. /\ binding' \in [Runs -> [model : Models, version : 0..MaxCredentialVersions]]
        /\ binding'[x] = profile /\ \A y \in Runs \ {x} : binding'[y] = binding[y]
    BY <1>1, <1>2, TypesAre
  <1>4. \A a \in Attempts : RunOf[a] \in Runs
    BY GatewayConstants
  <1>5. \A a \in Attempts : binding[RunOf[a]].version > 0 => binding'[RunOf[a]] = binding[RunOf[a]]
    BY <1>1, <1>3, <1>4
  <1>6. KeysFollow'
    BY <1>1, <1>2, <1>3, <1>5 DEF GatewayInv, KeysFollow, IsKey
  <1>7. QED
    BY <1>1, <1>3, <1>6, TypesAre, OtherKeeps

LEMMA StartKeeps ==
  ASSUME GatewayInv, NEW a \in Attempts, StartAttempt(a)
  PROVE  GatewayInv'
  BY GatewayConstants, TypesAre, OtherKeeps DEF StartAttempt, GatewayInv, KeysFollow, IsKey

LEMMA SettleRunKeeps ==
  ASSUME GatewayInv, NEW x \in Runs, SettleRun(x)
  PROVE  GatewayInv'
  BY TypesAre, OtherKeeps DEF SettleRun, GatewayInv, KeysFollow, IsKey

LEMMA CapabilityIssued ==
  ASSUME GatewayInv, NEW a \in Attempts, issue(a)
  PROVE  GatewayInv'
  <1>1. /\ attempt[RunOf[a]] = a /\ capability[a].state = "none"
        /\ UNCHANGED <<profile, credential, binding, route, request, modelRequest,
                       usageLedger, policyHolder, day>>
    BY DEF issue
  <1>2. PICK x \in Runs : x = RunOf[a]
    BY GatewayConstants
  <1>3. CASE resolve(x) # NoSecret
    <2>1. PICK k : k = resolve(x)
      OBVIOUS
    <2>2. PICK c : c = [state |-> "live", secret |-> k, lapsed |-> FALSE]
      OBVIOUS
    <2>3. capability' = [capability EXCEPT ![a] = c] /\ UNCHANGED attempt
      BY <1>2, <1>3, <2>1, <2>2 DEF issue
    <2>4. /\ a # 0 /\ binding[x].version > 0 /\ binding[x].version <= Len(credential)
          /\ binding[x].version \in Nat /\ credential \in Seq(Credentials)
      BY <1>1, <1>2, TypesAre, GatewayConstants DEF GatewayInv, KeysFollow
    <2>5. credential[binding[x].version] \in Credentials
      BY <2>4
    <2>6. k = credential[binding[x].version].secret /\ k \in Secrets
      BY <1>3, <2>1, <2>5 DEF resolve, resolvedVersion, open, Credentials
    <2>7. IsKey(a, k)
      BY <1>2, <2>4, <2>6 DEF IsKey
    <2>8. c \in Capabilities /\ c.secret = k /\ c.state = "live"
      BY <2>2, <2>6 DEF Capabilities
    <2>9. /\ capability' \in [Attempts -> Capabilities] /\ capability'[a] = c
          /\ \A b \in Attempts \ {a} : capability'[b] = capability[b]
      BY <2>3, <2>8, TypesAre
    <2>10. KeysFollow'
      BY <1>1, <2>3, <2>7, <2>8, <2>9 DEF GatewayInv, KeysFollow, IsKey
    <2>11. QED
      BY <1>1, <2>3, <2>9, <2>10, TypesAre, OtherKeeps
  <1>4. CASE ~(resolve(x) # NoSecret)
    <2>1. /\ capability' = [capability EXCEPT ![a].state = "revoked"]
          /\ attempt' = [attempt EXCEPT ![x] = 0]
      BY <1>2, <1>4 DEF issue
    <2>2. capability[a] \in Capabilities /\ capability[a].secret = NoSecret
      BY <1>1, TypesAre DEF GatewayInv, KeysFollow
    <2>3. /\ [capability[a] EXCEPT !.state = "revoked"] \in Capabilities
          /\ [capability[a] EXCEPT !.state = "revoked"].secret = NoSecret
      BY <2>2 DEF Capabilities
    <2>4. /\ capability' \in [Attempts -> Capabilities] /\ capability'[a].secret = NoSecret
          /\ \A b \in Attempts \ {a} : capability'[b] = capability[b]
      BY <2>1, <2>3, TypesAre
    <2>5. /\ attempt' \in [Runs -> Attempts \cup {0}]
          /\ \A y \in Runs : attempt'[y] # 0 => attempt[y] # 0
      BY <2>1, TypesAre
    <2>6. KeysFollow'
      BY <1>1, <2>4, <2>5 DEF GatewayInv, KeysFollow, IsKey
    <2>7. QED
      BY <1>1, <2>4, <2>5, <2>6, TypesAre, OtherKeeps
  <1>5. QED
    BY <1>3, <1>4

LEMMA CapabilityKeeps ==
  ASSUME GatewayInv, NEW a \in Attempts, CapabilityLapses(a)
  PROVE  GatewayInv'
  <1>1. /\ capability' = [capability EXCEPT ![a].lapsed = TRUE]
        /\ UNCHANGED <<profile, credential, binding, attempt, route, request, modelRequest,
                       usageLedger, policyHolder, day>>
    BY DEF CapabilityLapses
  <1>2. PICK c : c = [capability[a] EXCEPT !.lapsed = TRUE]
    OBVIOUS
  <1>3. c \in Capabilities /\ c.secret = capability[a].secret /\ c.state = capability[a].state
    BY <1>2, TypesAre DEF Capabilities
  <1>4. /\ capability' \in [Attempts -> Capabilities] /\ capability'[a] = c
        /\ \A b \in Attempts \ {a} : capability'[b] = capability[b]
    BY <1>1, <1>2, <1>3, TypesAre
  <1>5. KeysFollow'
    BY <1>1, <1>3, <1>4 DEF GatewayInv, KeysFollow, IsKey
  <1>6. QED
    BY <1>1, <1>4, <1>5, TypesAre, OtherKeeps

LEMMA DayKeeps ==
  ASSUME GatewayInv, NextDay
  PROVE  GatewayInv'
  BY TypesAre, OtherKeeps DEF NextDay, GatewayInv, KeysFollow, IsKey

-----------------------------------------------------------------------------
(* The steps of a request.                                                 *)

\* Steps that reserve nothing and leave the rows and the configuration.
LEMMA RequestKeeps ==
  ASSUME GatewayInv, UNCHANGED <<profile, credential, binding, attempt, route, modelRequest,
                                 usageLedger, day>>,
         request' \in [ModelRequests -> HandledRequests], capability' \in [Attempts -> Capabilities],
         policyHolder' \in ModelRequests \cup {NoRequest}, \A r \in ModelRequests : Goes(r), KeysFollow'
  PROVE  GatewayInv'
  BY TypesAre, TypesFollow, StayRelieves, RelievesKeeps DEF GatewayInv

\* A revoked capability has no key.
LEMMA RevokedCapability ==
  ASSUME GatewayInv, NEW a \in Attempts, capability' = [capability EXCEPT ![a] = Revoked(@)]
  PROVE  /\ capability' \in [Attempts -> Capabilities]
         /\ \A b \in Attempts : capability'[b].secret # NoSecret =>
              capability'[b].secret = capability[b].secret /\ capability'[b].state = "live"
  BY TypesAre DEF Capabilities, Revoked, GatewayInv, KeysFollow

LEMMA RevokeKeeps ==
  ASSUME GatewayInv, NEW a \in Attempts, revoke(a),
         UNCHANGED <<profile, credential, binding, attempt, route, modelRequest, usageLedger,
                     policyHolder, day>>
  PROVE  GatewayInv'
  <1>1. /\ capability' \in [Attempts -> Capabilities]
        /\ \A b \in Attempts : capability'[b].secret # NoSecret =>
             capability'[b].secret = capability[b].secret /\ capability'[b].state = "live"
    BY RevokedCapability DEF revoke
  <1>2. request' = [r \in ModelRequests |->
                     IF request[r].of = a /\ request[r].at = "upstream"
                       THEN [request[r] EXCEPT !.cut = TRUE] ELSE request[r]]
    BY DEF revoke
  <1>3. ASSUME NEW r \in ModelRequests
        PROVE  /\ request'[r] \in HandledRequests /\ request'[r].at = request[r].at
               /\ request'[r].of = request[r].of /\ request'[r].totals = request[r].totals
               /\ request'[r].expiring = request[r].expiring /\ request'[r].key = request[r].key
               /\ request'[r].live = request[r].live
    BY TypesAre, CutRequest, <1>2
  <1>4. request' \in [ModelRequests -> HandledRequests]
    BY <1>2, <1>3
  <1>5. \A r \in ModelRequests : Goes(r)
    BY <1>3 DEF Goes, GatewayInv, RequestsFollow
  <1>6. KeysFollow'
    BY <1>1, <1>3, KeysStay
  <1>7. QED
    BY <1>1, <1>4, <1>5, <1>6, TypesAre, RequestKeeps

LEMMA ReleaseKeeps ==
  ASSUME GatewayInv, NEW a \in Attempts, release(a)
  PROVE  GatewayInv'
  BY RevokeKeeps DEF release

LEMMA CrashKeeps ==
  ASSUME GatewayInv, NEW a \in Attempts, GatewayCrash(a)
  PROVE  GatewayInv'
  <1>1. /\ request' = [r \in ModelRequests |-> IF request[r].of = a THEN Answered ELSE request[r]]
        /\ policyHolder' = IF \E r \in ModelRequests : policyHolder = r /\ request[r].of = a
                             THEN NoRequest ELSE policyHolder
        /\ UNCHANGED <<profile, credential, binding, attempt, route, modelRequest, usageLedger, day>>
    BY DEF GatewayCrash
  <1>2. /\ capability' \in [Attempts -> Capabilities]
        /\ \A b \in Attempts : capability'[b].secret # NoSecret =>
             capability'[b].secret = capability[b].secret /\ capability'[b].state = "live"
    BY RevokedCapability DEF GatewayCrash
  <1>3. request' \in [ModelRequests -> HandledRequests]
    BY <1>1, AnsweredRequest, TypesAre
  <1>4. policyHolder' \in ModelRequests \cup {NoRequest}
    BY <1>1, TypesAre
  <1>5. ASSUME NEW r \in ModelRequests
        PROVE  /\ Goes(r)
               /\ request'[r].key # NoSecret =>
                    /\ request'[r].key = request[r].key /\ request'[r].live = request[r].live
                    /\ request'[r].of = request[r].of
                    /\ (request'[r].at = "none" => request[r].at = "none")
    <2>1. CASE request[r].of = a
      BY <1>1, <2>1, AnsweredRequest DEF Goes
    <2>2. CASE request[r].of # a
      BY <1>1, <2>2 DEF GatewayInv, RequestsFollow, Goes
    <2>3. QED
      BY <2>1, <2>2
  <1>6. KeysFollow'
    BY <1>1, <1>2, <1>5, KeysStay
  <1>7. QED
    BY <1>1, <1>2, <1>3, <1>4, <1>5, <1>6, RequestKeeps

\* One request goes on with the key that it has, or none.
LEMMA StepKeeps ==
  ASSUME GatewayInv, NEW r \in ModelRequests, NEW x \in HandledRequests,
         request' = [request EXCEPT ![r] = x], x.at \notin {"none", "locked"},
         x.at = "body" => request[r].at \in {"none", "body"},
         x.at # "done" => x.of \in Attempts, x.expiring = {},
         x.key # NoSecret => x.live /\ x.of \in Attempts /\ IsKey(x.of, x.key),
         UNCHANGED <<profile, credential, binding, attempt, capability, route, modelRequest,
                     usageLedger, policyHolder, day>>
  PROVE  GatewayInv'
  <1>1. /\ \A q \in ModelRequests : Goes(q)
        /\ request' \in [ModelRequests -> HandledRequests]
        /\ request'[r] = x /\ \A q \in ModelRequests \ {r} : request'[q] = request[q]
    BY StepGoes
  <1>2. KeysFollow'
    <2>1. ASSUME NEW q \in ModelRequests, request'[q].key # NoSecret
          PROVE  /\ request'[q].at # "none" /\ request'[q].live /\ request'[q].of \in Attempts
                 /\ binding[RunOf[request'[q].of]].version > 0
                 /\ credential[binding[RunOf[request'[q].of]].version].secret = request'[q].key
      BY <1>1, <2>1 DEF IsKey, GatewayInv, KeysFollow
    <2>2. QED
      BY <2>1 DEF GatewayInv, KeysFollow, IsKey
  <1>3. QED
    BY <1>1, <1>2, TypesAre, RequestKeeps

LEMMA ArrivesKeeps ==
  ASSUME GatewayInv, NEW r \in ModelRequests, NEW a \in Attempts, RequestArrives(r, a)
  PROVE  GatewayInv'
  <1>1. /\ request[r].at = "none"
        /\ UNCHANGED <<profile, credential, binding, attempt, route, modelRequest, usageLedger,
                       policyHolder, day>>
    BY DEF RequestArrives
  <1>2. PICK y \in HandledRequests : y = request[r]
    BY TypesAre
  <1>3. PICK m \in Models : m = binding[RunOf[a]].model
    BY GatewayConstants, TypesAre
  <1>4. PICK x : x = [y EXCEPT !.at = "body", !.of = a, !.model = m]
    OBVIOUS
  <1>5. CASE request' = [request EXCEPT ![r] = x] /\ UNCHANGED capability
    <2>1. /\ x \in HandledRequests /\ x.at = "body" /\ x.of = a
          /\ x.expiring = y.expiring /\ x.key = y.key /\ x.live = y.live
      BY <1>4 DEF HandledRequests
    <2>2. y.expiring = {}
      BY <1>1, <1>2 DEF GatewayInv, RequestsFollow
    <2>3. y.key = NoSecret
      BY <1>1, <1>2 DEF GatewayInv, KeysFollow
    <2>4. QED
      BY <1>1, <1>5, <2>1, <2>2, <2>3, StepKeeps
  <1>6. CASE revoke(a)
    BY <1>1, <1>6, RevokeKeeps
  <1>7. QED
    BY <1>2, <1>3, <1>4, <1>5, <1>6 DEF RequestArrives, Step

LEMMA ReserveKeeps ==
  ASSUME GatewayInv, NEW r \in ModelRequests, reserve(r)
  PROVE  GatewayInv'
  <1>1. /\ request[r].at = "body" /\ policyHolder = NoRequest
        /\ UNCHANGED <<profile, credential, binding, attempt, capability, route, modelRequest,
                       usageLedger, day>>
    BY DEF reserve, policyFree
  <1>2. PICK y \in HandledRequests : y = request[r]
    BY TypesAre
  <1>3. PICK a \in Attempts : a = y.of
    BY <1>1, <1>2 DEF GatewayInv, RequestsFollow
  <1>4. PICK E \in SUBSET ModelRequests :
          E = {q \in ModelRequests : modelRequest[q].state = "reserved" /\ modelRequest[q].lapsed}
    OBVIOUS
  <1>5. PICK t \in Totals : t = aggregate(a)
    BY <1>4, AggregateBounds
  <1>6. PICK x : x = [y EXCEPT !.at = "locked", !.totals = t, !.expiring = E]
    OBVIOUS
  <1>7. CASE /\ policyHolder' = r /\ request' = [request EXCEPT ![r] = x]
    BY <1>6, <1>7, TypesAre, <1>1, TypesFollow, <1>2, <1>3, <1>5, <1>4, LockedKeeps, KeysStay DEF
       HandledRequests, GatewayInv, KeysFollow
  <1>8. CASE request' = [request EXCEPT ![r] = Answered] /\ UNCHANGED policyHolder
    BY <1>1, <1>8, AnsweredRequest, StepKeeps
  <1>9. QED
    BY <1>2, <1>3, <1>4, <1>5, <1>6, <1>7, <1>8 DEF reserve, Step

\* Whatever is reserved is a number.
LEMMA ReservedIs ==
  ASSUME NEW m \in Models, route \in BOOLEAN
  PROVE  reservedCost(m) \in Nat
  <1>1. /\ estimatedCost("flash") = 1 /\ estimatedCost("pro") = 2
        /\ Models = {"flash", "pro"}
    BY DEF estimatedCost, rateFromRow, Models
  <1>2. {estimatedCost(n) : n \in Models} = {1, 2}
    BY <1>1
  <1>3. PICK k : k = Max({1, 2})
    OBVIOUS
  <1>4. k \in {1, 2}
    BY <1>3 DEF Max
  <1>5. estimatedCost(m) \in Nat
    BY <1>1
  <1>6. QED
    BY <1>2, <1>3, <1>4, <1>5 DEF reservedCost

LEMMA CommitReservationKeeps ==
  ASSUME GatewayInv, NEW r \in ModelRequests, commitReservation(r)
  PROVE  GatewayInv'
  <1>1. PICK y \in HandledRequests : y = request[r]
    BY TypesAre
  <1>2. /\ y.at = "locked" /\ policyHolder = r /\ y.of \in Attempts /\ y.model \in Models
        /\ y.totals \in Totals /\ y.expiring \in SUBSET ModelRequests
        /\ UNCHANGED <<profile, credential, binding, attempt, capability, route, usageLedger, day>>
    BY <1>1 DEF commitReservation, GatewayInv, RequestsFollow, HandledRequests
  <1>3. PICK cost \in Nat : cost = reservedCost(y.model)
    BY <1>2, TypesAre, ReservedIs
  <1>4. PICK denied \in BOOLEAN : denied = denial(y.totals, cost)
    BY DEF denial
  <1>5. PICK row : row = [state |-> IF denied THEN "budget_denied" ELSE "reserved",
                          of |-> y.of, sequence |-> y.totals.sequence + 1, reserved |-> cost,
                          actual |-> 0, tokens |-> 0, day |-> day, lapsed |-> FALSE]
    OBVIOUS
  <1>6. y.totals.sequence + 1 \in Nat /\ y.totals.run \in Nat /\ y.totals.tenant \in Nat
    BY <1>2 DEF Totals
  <1>7. /\ row \in ModelRequestRows /\ row.state = IF denied THEN "budget_denied" ELSE "reserved"
        /\ row.of = y.of /\ row.sequence = y.totals.sequence + 1 /\ row.reserved = cost
    BY TypesAre, <1>2, <1>5, <1>6 DEF ModelRequestRows, ModelRequestStates
  <1>8. modelRequest' = [q \in ModelRequests |->
              IF q = r THEN row
              ELSE IF q \in y.expiring THEN [modelRequest[q] EXCEPT !.state = "aborted"]
              ELSE modelRequest[q]]
    BY <1>1, <1>3, <1>4, <1>5 DEF commitReservation, Lapsing
  <1>9. ASSUME NEW q \in ModelRequests
        PROVE  /\ modelRequest'[q] \in ModelRequestRows
               /\ IF q = r THEN modelRequest'[q] = row
                  ELSE IF q \in request[r].expiring
                       THEN /\ modelRequest'[q].state = "aborted"
                            /\ modelRequest'[q].of = modelRequest[q].of
                            /\ modelRequest'[q].sequence = modelRequest[q].sequence
                  ELSE modelRequest'[q] = modelRequest[q]
    BY RowTypes, <1>8, <1>1, <1>7 DEF ModelRequestRows, ModelRequestStates
  <1>10. modelRequest' \in [ModelRequests -> ModelRequestRows]
    BY <1>8, <1>9
  <1>11. PICK z : z = [y EXCEPT !.at = "send", !.totals = NoTotals, !.expiring = {}]
    OBVIOUS
  <1>12. PICK x : x = IF denied THEN Answered ELSE z
    OBVIOUS
  <1>13. /\ z \in HandledRequests /\ z.at = "send" /\ z.of = y.of
         /\ z.expiring = {} /\ z.key = y.key /\ z.live = y.live
    BY NewRequestOK, <1>2, <1>11 DEF HandledRequests
  <1>14. /\ x \in HandledRequests /\ x.at \in {"send", "done"} /\ x.expiring = {}
         /\ x.at = "send" => x.of = request[r].of
         /\ x.key # NoSecret => x.key = y.key /\ x.live = y.live /\ x.of = y.of
    BY <1>1, <1>12, <1>13, AnsweredRequest
  <1>15. request' = [request EXCEPT ![r] = x]
    BY <1>1, <1>3, <1>4, <1>11, <1>12 DEF commitReservation, Step
  <1>16. /\ request' \in [ModelRequests -> HandledRequests] /\ request'[r] = x
         /\ \A q \in ModelRequests \ {r} : request'[q] = request[q]
    BY <1>14, <1>15, TypesAre
  <1>17. policyHolder' \in ModelRequests \cup {NoRequest}
    BY TypesAre DEF commitReservation
  <1>18. GatewayTypes'
    BY <1>2, <1>10, <1>16, <1>17, TypesAre, TypesFollow
  <1>19. ~denied => /\ request[r].totals.run + row.reserved <= RunCostLimit
                    /\ request[r].totals.tenant + row.reserved <= TenantCostLimit
    BY <1>6, GatewayConstants, <1>4, <1>1, <1>7 DEF denial
  <1>20. RequestsFollow' /\ NumbersFollow' /\ BudgetsFollow'
    BY <1>1, <1>2, <1>7, <1>9, <1>14, <1>15, <1>18, <1>19, CommitKeeps
  <1>21. KeysFollow'
    BY <1>1, <1>2, <1>14, <1>16, KeysStay DEF GatewayInv, KeysFollow
  <1>22. QED
    BY <1>18, <1>20, <1>21 DEF GatewayInv

LEMMA FetchKeeps ==
  ASSUME GatewayInv, NEW r \in ModelRequests, fetchAttempt(r)
  PROVE  GatewayInv'
  <1>1. /\ request[r].at = "send"
        /\ UNCHANGED <<profile, credential, binding, attempt, capability, route, modelRequest,
                       usageLedger, policyHolder, day>>
    BY DEF fetchAttempt
  <1>2. PICK y \in HandledRequests : y = request[r]
    BY TypesAre
  <1>3. /\ y.of \in Attempts /\ y.expiring = {}
    BY <1>1, <1>2 DEF GatewayInv, RequestsFollow
  <1>4. PICK c \in Capabilities : c = capability[y.of]
    BY <1>3, TypesAre
  <1>5. PICK k \in Secrets \cup {NoSecret} : k = c.secret
    BY DEF Capabilities
  <1>6. PICK l \in BOOLEAN : l = (c.state = "live")
    OBVIOUS
  <1>7. PICK x : x = [y EXCEPT !.at = "upstream", !.key = k, !.live = l]
    OBVIOUS
  <1>8. /\ x \in HandledRequests /\ x.at = "upstream" /\ x.of = y.of
        /\ x.expiring = y.expiring /\ x.key = k /\ x.live = l
    BY <1>7 DEF HandledRequests
  <1>9. k # NoSecret => l /\ IsKey(y.of, k)
    BY <1>3, <1>4, <1>5, <1>6 DEF GatewayInv, KeysFollow
  <1>10. request' = [request EXCEPT ![r] = x]
    BY <1>2, <1>4, <1>5, <1>6, <1>7 DEF fetchAttempt, Step
  <1>11. QED
    BY <1>1, <1>3, <1>8, <1>9, <1>10, StepKeeps

LEMMA FallbackKeeps ==
  ASSUME GatewayInv, NEW r \in ModelRequests, Fallback(r)
  PROVE  GatewayInv'
  <1>1. /\ request[r].at = "upstream"
        /\ UNCHANGED <<profile, credential, binding, attempt, capability, route, modelRequest,
                       usageLedger, policyHolder, day>>
    BY DEF Fallback
  <1>2. PICK y \in HandledRequests : y = request[r]
    BY TypesAre
  <1>3. y.of \in Attempts /\ y.expiring = {} /\ (y.key # NoSecret => y.live /\ IsKey(y.of, y.key))
    BY <1>1, <1>2 DEF GatewayInv, RequestsFollow, KeysFollow
  <1>4. PICK m : m = Other(y.model)
    OBVIOUS
  <1>5. m \in Models
    BY <1>4 DEF Models, Other
  <1>6. PICK x : x = [y EXCEPT !.at = "send", !.first = FALSE, !.model = m]
    OBVIOUS
  <1>7. /\ x \in HandledRequests /\ x.at = "send" /\ x.of = y.of
        /\ x.expiring = y.expiring /\ x.key = y.key /\ x.live = y.live
    BY <1>5, <1>6 DEF HandledRequests
  <1>8. request' = [request EXCEPT ![r] = x]
    BY <1>2, <1>4, <1>6 DEF Fallback, Step, HandledRequests
  <1>9. QED
    BY <1>1, <1>3, <1>7, <1>8, StepKeeps

LEMMA EndsKeeps ==
  ASSUME GatewayInv, NEW r \in ModelRequests, NEW u \in parseUsage, StreamEnds(r, u)
  PROVE  GatewayInv'
  <1>1. /\ request[r].at = "upstream" /\ u \in 0..2
        /\ UNCHANGED <<profile, credential, binding, attempt, capability, route, modelRequest,
                       usageLedger, policyHolder, day>>
    BY DEF StreamEnds, parseUsage
  <1>2. PICK y \in HandledRequests : y = request[r]
    BY TypesAre
  <1>3. y.of \in Attempts /\ y.expiring = {}
    BY <1>1, <1>2 DEF GatewayInv, RequestsFollow
  <1>4. PICK x : x = [y EXCEPT !.at = "settle", !.used = u, !.key = NoSecret, !.live = FALSE]
    OBVIOUS
  <1>5. /\ x \in HandledRequests /\ x.at = "settle" /\ x.of = y.of
        /\ x.expiring = y.expiring /\ x.key = NoSecret
    BY <1>1, <1>4 DEF HandledRequests
  <1>6. request' = [request EXCEPT ![r] = x]
    BY <1>2, <1>4 DEF StreamEnds, Step
  <1>7. QED
    BY <1>1, <1>3, <1>5, <1>6, StepKeeps

-----------------------------------------------------------------------------
(* Settlements.                                                            *)

\* The row of r changes, and claims no more.
LEMMA RowKeeps ==
  ASSUME GatewayInv, NEW r \in ModelRequests, NEW row \in ModelRequestRows,
         modelRequest' = [modelRequest EXCEPT ![r] = row],
         row.of = modelRequest[r].of, row.sequence = modelRequest[r].sequence,
         ClaimOf(row) <= ClaimOf(modelRequest[r]),
         row.state = "none" <=> modelRequest[r].state = "none",
         row.state = modelRequest[r].state \/ Unlocked(r),
         usageLedger' \in [ModelRequests -> 0..2],
         usageLedger'[r] = IF row.state = "completed" THEN 1 ELSE 0,
         \A q \in ModelRequests \ {r} : usageLedger'[q] = usageLedger[q],
         request' \in [ModelRequests -> HandledRequests], \A q \in ModelRequests : Goes(q),
         \A q \in ModelRequests : request'[q].key # NoSecret => request'[q] = request[q],
         UNCHANGED <<profile, credential, binding, attempt, capability, route, policyHolder, day>>
  PROVE  GatewayInv'
  <1>1. /\ modelRequest' \in [ModelRequests -> ModelRequestRows] /\ modelRequest'[r] = row
        /\ \A q \in ModelRequests \ {r} : modelRequest'[q] = modelRequest[q]
    BY TypesAre
  <1>2. GatewayTypes'
    BY <1>1, TypesAre, TypesFollow
  <1>3. ASSUME NEW q \in ModelRequests PROVE Relieves(q)
    <2>1. CASE q = r
      BY <1>1, <2>1 DEF Relieves, Unlocked
    <2>2. CASE q # r
      BY <1>1, <2>2, RowTypes, ClaimType DEF Relieves, GatewayInv, RequestsFollow
    <2>3. QED
      BY <2>1, <2>2
  <1>4. RequestsFollow' /\ NumbersFollow' /\ BudgetsFollow'
    BY <1>2, <1>3, RelievesKeeps
  <1>5. KeysFollow'
    BY KeysStay DEF GatewayInv, KeysFollow
  <1>6. QED
    BY <1>2, <1>4, <1>5 DEF GatewayInv

\* The answer of a request, and the row that it leaves.
LEMMA AnswerGoes ==
  ASSUME GatewayInv, UNCHANGED policyHolder, NEW r \in ModelRequests,
         request' = [request EXCEPT ![r] = Answered]
  PROVE  /\ \A q \in ModelRequests : Goes(q)
         /\ request' \in [ModelRequests -> HandledRequests]
         /\ \A q \in ModelRequests : request'[q].key # NoSecret => request'[q] = request[q]
  BY AnsweredRequest, StepGoes

\* A step that has answered r and leaves its row.
LEMMA AnswerKeeps ==
  ASSUME GatewayInv, NEW r \in ModelRequests, request' = [request EXCEPT ![r] = Answered],
         UNCHANGED <<profile, credential, binding, attempt, capability, route, modelRequest,
                     usageLedger, policyHolder, day>>
  PROVE  GatewayInv'
  BY AnsweredRequest, StepKeeps

LEMMA FailedKeeps ==
  ASSUME GatewayInv, NEW r \in ModelRequests, NEW s \in {"failed", "aborted"},
         failReservation(r, s), Unlocked(r), request' = [request EXCEPT ![r] = Answered],
         UNCHANGED <<profile, credential, binding, attempt, capability, route, usageLedger,
                     policyHolder, day>>
  PROVE  GatewayInv'
  <1>1. PICK z \in ModelRequestRows : z = modelRequest[r]
    BY RowTypes
  <1>2. CASE z.state = "reserved"
    <2>1. PICK w : w = [z EXCEPT !.state = s]
      OBVIOUS
    <2>2. w \in ModelRequestRows /\ w.state = s /\ w.of = z.of /\ w.sequence = z.sequence
      BY <2>1 DEF ModelRequestRows, ModelRequestStates
    <2>3. modelRequest' = [modelRequest EXCEPT ![r] = w]
      BY <1>1, <1>2, <2>1 DEF failReservation, Unsettled
    <2>4. ClaimOf(w) = 0 /\ ClaimOf(z) \in Nat
      BY <2>2, ClaimType
    <2>5. usageLedger'[r] = 0
      BY <1>1, <1>2 DEF GatewayInv, RequestsFollow
    <2>6. /\ \A q \in ModelRequests : Goes(q)
          /\ request' \in [ModelRequests -> HandledRequests]
          /\ \A q \in ModelRequests : request'[q].key # NoSecret => request'[q] = request[q]
      BY AnswerGoes
    <2>7. /\ w.of = modelRequest[r].of /\ w.sequence = modelRequest[r].sequence
          /\ ClaimOf(w) <= ClaimOf(modelRequest[r])
          /\ (w.state = "none" <=> modelRequest[r].state = "none")
          /\ usageLedger'[r] = IF w.state = "completed" THEN 1 ELSE 0
          /\ usageLedger' \in [ModelRequests -> 0..2]
          /\ \A q \in ModelRequests \ {r} : usageLedger'[q] = usageLedger[q]
      BY <1>1, <1>2, <2>2, <2>4, <2>5, TypesAre
    <2>8. QED
      BY <2>2, <2>3, <2>6, <2>7, RowKeeps
  <1>3. CASE z.state # "reserved"
    BY <1>1, <1>3, AnswerKeeps DEF failReservation, Unsettled
  <1>4. QED
    BY <1>2, <1>3

LEMMA FailsKeeps ==
  ASSUME GatewayInv, NEW r \in ModelRequests, RequestFails(r)
  PROVE  GatewayInv'
  BY FailedKeeps DEF RequestFails, Step

LEMMA SettleKeeps ==
  ASSUME GatewayInv, NEW r \in ModelRequests, SettleRequest(r)
  PROVE  GatewayInv'
  <1>1. /\ Unlocked(r) /\ request' = [request EXCEPT ![r] = Answered] /\ request[r].at = "settle"
        /\ UNCHANGED <<profile, credential, binding, attempt, capability, route, policyHolder, day>>
    BY DEF SettleRequest, Step
  <1>2. CASE failReservation(r, "failed") /\ UNCHANGED usageLedger
    BY <1>1, <1>2, FailedKeeps
  <1>3. CASE completeReservation(r)
    <2>1. CASE ~Unsettled(r)
      BY <1>1, <1>3, <2>1, AnswerKeeps DEF completeReservation
    <2>2. CASE Unsettled(r)
      <3>1. PICK z \in ModelRequestRows : z = modelRequest[r]
        BY RowTypes
      <3>2. PICK y \in HandledRequests : y = request[r]
        BY TypesAre
      <3>3. PICK u \in 0..2 : u = y.used
        BY DEF HandledRequests
      <3>4. PICK c \in Nat : c = actualCost(y.model, u)
        BY DEF HandledRequests, Models, rateFromRow, actualCost
      <3>5. PICK w : w = [z EXCEPT !.state = "completed", !.actual = c, !.tokens = u]
        OBVIOUS
      <3>6. /\ w \in ModelRequestRows /\ w.state = "completed" /\ w.of = z.of
            /\ w.sequence = z.sequence /\ w.reserved = z.reserved
        <4>1. u \in Nat
          OBVIOUS
        <4>2. QED
          BY <3>5, <4>1 DEF ModelRequestRows, ModelRequestStates
      <3>7. modelRequest' = [modelRequest EXCEPT ![r] = w]
        BY <1>3, <2>2, <3>2, <3>3, <3>4, TypesAre, <3>1, <3>5 DEF completeReservation
      <3>8. z.state = "reserved"
        BY <2>2, <3>1 DEF Unsettled
      <3>9. ClaimOf(w) <= ClaimOf(z)
        BY <3>6, <3>8, ClaimType
      <3>10. usageLedger[r] = 0 /\ usageLedger \in [ModelRequests -> 0..2]
        BY <3>1, <3>8, TypesAre DEF GatewayInv, RequestsFollow
      <3>11. usageLedger' = [usageLedger EXCEPT ![r] = @ + 1]
        BY <1>3, <2>2 DEF completeReservation
      <3>12. /\ usageLedger' \in [ModelRequests -> 0..2] /\ usageLedger'[r] = 1
             /\ \A q \in ModelRequests \ {r} : usageLedger'[q] = usageLedger[q]
        BY <3>10, <3>11
      <3>13. /\ \A q \in ModelRequests : Goes(q)
             /\ request' \in [ModelRequests -> HandledRequests]
             /\ \A q \in ModelRequests : request'[q].key # NoSecret => request'[q] = request[q]
        BY <1>1, AnswerGoes
      <3>14. /\ w.of = modelRequest[r].of /\ w.sequence = modelRequest[r].sequence
             /\ ClaimOf(w) <= ClaimOf(modelRequest[r])
             /\ (w.state = "none" <=> modelRequest[r].state = "none")
             /\ usageLedger'[r] = IF w.state = "completed" THEN 1 ELSE 0
        BY <3>1, <3>6, <3>8, <3>9, <3>12
      <3>15. QED
        BY <1>1, <3>6, <3>7, <3>12, <3>13, <3>14, RowKeeps
    <2>3. QED
      BY <2>1, <2>2
  <1>4. QED
    BY <1>2, <1>3 DEF SettleRequest

LEMMA LapseKeeps ==
  ASSUME GatewayInv, NEW r \in ModelRequests, ReservationLapses(r)
  PROVE  GatewayInv'
  <1>1. /\ modelRequest' = [modelRequest EXCEPT ![r].lapsed = TRUE]
        /\ modelRequest[r].state = "reserved"
        /\ UNCHANGED <<profile, credential, binding, attempt, capability, route, request,
                       usageLedger, policyHolder, day>>
    BY DEF ReservationLapses, HoldsReservation
  <1>2. PICK z \in ModelRequestRows : z = modelRequest[r]
    BY RowTypes
  <1>3. PICK w : w = [z EXCEPT !.lapsed = TRUE]
    OBVIOUS
  <1>4. /\ w \in ModelRequestRows /\ w.state = z.state /\ w.of = z.of
        /\ w.sequence = z.sequence /\ w.reserved = z.reserved
    BY <1>3 DEF ModelRequestRows
  <1>5. modelRequest' = [modelRequest EXCEPT ![r] = w]
    BY <1>1, <1>2, <1>3
  <1>6. ClaimOf(w) <= ClaimOf(z)
    BY <1>1, <1>2, <1>4, ClaimType DEF ModelRequestRows
  <1>7. \A q \in ModelRequests : Goes(q)
    BY <1>1, StayGoes
  <1>8. /\ w.of = modelRequest[r].of /\ w.sequence = modelRequest[r].sequence
        /\ ClaimOf(w) <= ClaimOf(modelRequest[r]) /\ w.state = modelRequest[r].state
        /\ (w.state = "none" <=> modelRequest[r].state = "none")
        /\ usageLedger'[r] = IF w.state = "completed" THEN 1 ELSE 0
        /\ usageLedger' \in [ModelRequests -> 0..2]
        /\ request' \in [ModelRequests -> HandledRequests]
        /\ \A q \in ModelRequests \ {r} : usageLedger'[q] = usageLedger[q]
        /\ \A q \in ModelRequests : request'[q].key # NoSecret => request'[q] = request[q]
    BY <1>1, <1>2, <1>4, <1>6, TypesAre DEF GatewayInv, RequestsFollow
  <1>9. QED
    BY <1>1, <1>4, <1>5, <1>7, <1>8, RowKeeps

-----------------------------------------------------------------------------
(* The theorems.                                                           *)

LEMMA GatewayStarts ==
  ASSUME GatewayInit
  PROVE  GatewayInv
  <1>1. \A r \in ModelRequests : request[r] = NewRequest /\ modelRequest[r] = NoModelRequest
                                 /\ usageLedger[r] = 0
    BY DEF GatewayInit
  <1>2. PICK s \in Secrets : credential = <<[secret |-> s, readable |-> TRUE]>>
    BY DEF GatewayInit
  <1>3. PICK none : none = NoModelRequest
    OBVIOUS
  <1>4. /\ none \in ModelRequestRows /\ none.state = "none" /\ none.of = 0 /\ none.sequence = 0
    BY <1>3 DEF NoModelRequest, ModelRequestRows, ModelRequestStates
  <1>5. credential \in Seq([secret : Secrets, readable : BOOLEAN]) /\ Len(credential) = 1
    BY <1>2
  <1>6. GatewayTypes
    BY <1>3, <1>4, NewRequestOK, GatewayConstants, <1>1, <1>5 DEF GatewayInit, Models,
       NoCapability, ModelRequestStates, GatewayTypes, GatewayTypeOK
  <1>7. RequestsFollow
    BY <1>1, <1>3, <1>4, NewRequestOK DEF RequestsFollow
  <1>8. KeysFollow
    BY <1>1, <1>5, NewRequestOK DEF GatewayInit, NoCapability, KeysFollow
  <1>9. NumbersFollow
    BY <1>1, <1>3, <1>4, NewRequestOK DEF NumbersFollow, SequencesUnique
  <1>10. BudgetsFollow
    <2>1. \A q \in ModelRequests : Claims[q] = 0
      BY <1>4, ClaimType, <1>1, <1>3 DEF Claims
    <2>2. ASSUME NEW S \in SUBSET ModelRequests PROVE SumOf(Claims, S) = 0
      <3>1. IsFiniteSet(S) /\ {} \in SUBSET S /\ IsFiniteSet({})
        BY FiniteRequests
      <3>2. \A q \in S : Claims[q] \in Nat /\ (Claims[q] = 0 \/ (q \in {} /\ Claims[q] <= Claims[q]))
        BY <2>1
      <3>3. SumOf(Claims, S) <= SumOf(Claims, {}) /\ SumOf(Claims, S) \in Nat
        BY <3>1, <3>2, SumLess, SumType
      <3>4. SumOf(Claims, {}) = 0
        BY <3>1, SumsExist, SumUnique, SumsAdd DEF Adds
      <3>5. QED
        BY <3>3, <3>4
    <2>3. (\A x \in Runs : OfRun(x) \in SUBSET ModelRequests) /\ ModelRequests \in SUBSET ModelRequests
      BY DEF OfRun
    <2>4. RunCostLimit \in Nat /\ TenantCostLimit \in Nat
      BY GatewayConstants
    <2>5. (\A x \in Runs : SumOf(Claims, OfRun(x)) = 0) /\ SumOf(Claims, ModelRequests) = 0
      BY <2>2, <2>3
    <2>6. \A r \in ModelRequests : request[r].at # "locked"
      BY <1>1, NewRequestOK
    <2>7. QED
      BY <2>4, <2>5, <2>6 DEF BudgetsFollow
  <1>11. QED
    BY <1>6, <1>7, <1>8, <1>9, <1>10 DEF GatewayInv

LEMMA GatewayStep ==
  ASSUME GatewayInv, GatewayNext
  PROVE  GatewayInv'
  <1>1. CASE \E s \in Secrets, m \in ConfiguredModels : replaceForTenant(s, m)
    BY <1>1, ReplaceKeeps
  <1>2. CASE RotateMasterKey \/ NextDay
    BY <1>2, RotateKeeps, DayKeeps
  <1>3. CASE \E x \in Runs : AcceptWithProfile(x) \/ SettleRun(x)
    BY <1>3, AcceptKeeps, SettleRunKeeps
  <1>4. ASSUME NEW a \in Attempts,
               \/ StartAttempt(a) \/ issue(a) \/ release(a) \/ CapabilityLapses(a)
               \/ GatewayCrash(a) \/ \E r \in ModelRequests : RequestArrives(r, a)
        PROVE  GatewayInv'
    BY <1>4, StartKeeps, CapabilityIssued, ReleaseKeeps, CapabilityKeeps, CrashKeeps, ArrivesKeeps
  <1>5. ASSUME NEW r \in ModelRequests,
               \/ reserve(r) \/ commitReservation(r) \/ fetchAttempt(r) \/ Fallback(r)
               \/ RequestFails(r) \/ (\E u \in parseUsage : StreamEnds(r, u)) \/ SettleRequest(r)
               \/ ReservationLapses(r)
        PROVE  GatewayInv'
    BY <1>5, ReserveKeeps, CommitReservationKeeps, FetchKeeps, FallbackKeeps, FailsKeeps,
       EndsKeeps, SettleKeeps, LapseKeeps
  <1>6. QED
    BY <1>1, <1>2, <1>3, <1>4, <1>5 DEF GatewayNext

LEMMA GatewayStutters ==
  ASSUME GatewayInv, UNCHANGED gatewayVars
  PROVE  GatewayInv'
  BY TypesAre, OtherKeeps DEF gatewayVars, GatewayInv, KeysFollow, IsKey

LEMMA GatewayInvHolds ==
  GatewaySpec => []GatewayInv
  <1>1. GatewayInit => GatewayInv
    BY GatewayStarts
  <1>2. GatewayInv /\ [GatewayNext]_gatewayVars => GatewayInv'
    BY GatewayStep, GatewayStutters
  <1>3. QED
    BY <1>1, <1>2, PTL DEF GatewaySpec

\* With any number of gateways, requests, replacements of the tenant's
\* configuration, crashes and lapses: what is held and was used stays within
\* the budgets of the Run and of the tenant but for what a provider uses above
\* its reservation; the ledger has a row for each completed request and none
\* for another; no two requests of an Attempt have one number; and a key leaves
\* only with a live capability, and is the one its Turn was accepted with
\* (#reserve, #completeReservation, #failReservation, #issue, #revoke).
THEOREM GatewaysAreSound ==
  GatewaySpec => []GatewaySound
  <1>1. GatewayInv => GatewaySound
    BY InvariantBudgets DEF GatewayInv, KeysFollow, IsKey, KeySentWhileLive, AcceptedCredential,
       GatewayTypes, NumbersFollow, RequestsFollow, LedgerMatchesRequests, GatewaySound
  <1>2. QED
    BY <1>1, GatewayInvHolds, PTL

\* A model request that is settled keeps its row as it is: a late settlement, an
\* error after it and the commit of a reservation that had found the row lapsed
\* write nothing to it (#completeReservation, #failReservation, #reserve).
THEOREM RequestsSettleOnce ==
  GatewaySpec => SettledOnce
  <1> DEFINE settled == {"none", "reserved"}
             Kept == \A r \in ModelRequests :
                       modelRequest[r].state \in ModelRequestStates \ settled
                       => modelRequest'[r] = modelRequest[r]
  <1>1. ASSUME GatewayInv, GatewayNext PROVE Kept
    <2>1. CASE UNCHANGED modelRequest
      BY <2>1
    <2>2. ASSUME NEW r \in ModelRequests, NEW s \in {"failed", "aborted"}, failReservation(r, s)
          PROVE  Kept
      BY <1>1, <2>2, TypesAre DEF failReservation, Unsettled
    <2>3. ASSUME NEW r \in ModelRequests, completeReservation(r) PROVE Kept
      BY <1>1, <2>3, TypesAre DEF completeReservation, Unsettled
    <2>4. ASSUME NEW r \in ModelRequests, commitReservation(r) PROVE Kept
      BY <1>1, <2>4 DEF commitReservation, GatewayInv, RequestsFollow, Lapsing
    <2>5. ASSUME NEW r \in ModelRequests, ReservationLapses(r) PROVE Kept
      BY <1>1, <2>5, TypesAre DEF ReservationLapses, HoldsReservation
    <2>6. QED
      BY <1>1, <2>1, <2>2, <2>3, <2>4, <2>5
      DEF GatewayNext, replaceForTenant, RotateMasterKey, NextDay, AcceptWithProfile, SettleRun,
          StartAttempt, issue, release, CapabilityLapses, GatewayCrash, RequestArrives, reserve,
          fetchAttempt, Fallback, RequestFails, StreamEnds, SettleRequest
  <1>2. GatewayInv /\ [GatewayNext]_gatewayVars => [Kept]_gatewayVars
    BY <1>1
  <1>3. QED
    BY <1>2, GatewayInvHolds, PTL DEF GatewaySpec, SettledOnce
=============================================================================
