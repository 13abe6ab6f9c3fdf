------------------------ MODULE ReviewSession_proofs ------------------------
(***************************************************************************)
(* Theorems about ReviewSession, for any number of calls, screens and      *)
(* comments, any edits and any failures: a session fits together, only     *)
(* answered words become approved, a review that waits is listed, and no   *)
(* list takes an answer away.                                              *)
(***************************************************************************)
EXTENDS ReviewSession, FiniteSetTheorems, TLAPS

-----------------------------------------------------------------------------
\* Numbers.

LEMMA LeastNumber ==
  ASSUME NEW T \in SUBSET Nat, T # {}
  PROVE  \E n \in T : \A m \in T : n <= m
<1>1. PICK n \in T : \A m \in T : ~ (<<m, n>> \in OpToRel(<, Nat))
  BY NatLessThanWellFounded, WFMin
<1>2. ASSUME NEW m \in T PROVE n <= m
  <2>1. ~ (m < n)
    BY <1>1 DEF OpToRel
  <2>2. QED
    BY <2>1
<1>3. QED
  BY <1>2

LEMMA GreatestNumber ==
  ASSUME NEW D \in SUBSET Nat, IsFiniteSet(D), D # {}
  PROVE  \E n \in D : \A m \in D : m <= n
<1> DEFINE None(E) == E # {} /\ IsFiniteSet(E) /\ ~ \E n \in E : \A m \in E : m <= n
           T == {n \in Nat : \E E \in SUBSET Nat : None(E) /\ Cardinality(E) = n}
<1>1. SUFFICES ASSUME T # {} PROVE FALSE
  BY FS_CardinalityType
<1>2. PICK n \in T : \A m \in T : n <= m
  <2> HIDE DEF T
  <2> QED BY <1>1, LeastNumber DEF T
<1>3. PICK E \in SUBSET Nat : None(E) /\ Cardinality(E) = n
  OBVIOUS
<1>4. PICK x \in E : TRUE
  BY <1>3
<1> DEFINE F == E \ {x}
<1>5. F \in SUBSET Nat /\ IsFiniteSet(F) /\ Cardinality(F) = n - 1
  BY <1>3, <1>4, FS_RemoveElement
<1>6. Cardinality(F) \in Nat
  BY <1>5, FS_CardinalityType
<1>7. ~None(F)
  <2>1. n \in Nat /\ n - 1 \in Nat
    BY <1>5, <1>6
  <2>2. n - 1 \notin T
    BY <1>2, <2>1
  <2>3. QED
    BY <1>5, <2>1, <2>2
<1>8. CASE F = {}
  BY <1>3, <1>4, <1>8
<1>9. CASE F # {}
  <2>1. PICK k \in F : \A m \in F : m <= k
    BY <1>5, <1>7, <1>9
  <2>2. CASE x <= k
    BY <2>1, <2>2, <1>3, <1>4
  <2>3. CASE ~(x <= k)
    <3>1. \A m \in E : m <= x
      BY <2>1, <2>3, <1>3, <1>4
    <3>2. QED
      BY <3>1, <1>3, <1>4
  <2>4. QED
    BY <2>2, <2>3
<1>10. QED
  BY <1>8, <1>9

Below(S, c) == {d \in S : d < c}

\* In a finite set of numbers, one has any given number of them below it.
LEMMA NthNumber ==
  ASSUME NEW S \in SUBSET Nat, IsFiniteSet(S), NEW k \in Nat, k < Cardinality(S)
  PROVE  \E c \in S : Cardinality(Below(S, c)) = k
<1> DEFINE T == {n \in Nat : n < Cardinality(S) /\ ~ \E c \in S : Cardinality(Below(S, c)) = n}
<1>1. SUFFICES ASSUME T # {} PROVE FALSE
  OBVIOUS
<1>2. PICK n \in Nat : n \in T /\ \A m \in T : n <= m
  <2>1. T \in SUBSET Nat
    OBVIOUS
  <2> HIDE DEF T
  <2>2. QED
    BY <1>1, <2>1, LeastNumber
<1> HIDE DEF T
<1>3. Cardinality(S) \in Nat /\ S # {}
  BY FS_CardinalityType, FS_EmptySet
<1>4. \A c \in S : IsFiniteSet(Below(S, c)) /\ Cardinality(Below(S, c)) # n
  BY <1>2, FS_Subset DEF Below, T
<1>5. CASE n = 0
  <2>1. PICK c \in S : \A m \in S : c <= m
    BY <1>3, LeastNumber
  <2>2. Below(S, c) = {}
    <3>1. \A d \in S : d \in Nat /\ c \in Nat /\ ~(d < c)
      BY <2>1
    <3>2. QED
      BY <3>1 DEF Below
  <2>3. Cardinality(Below(S, c)) = 0
    BY <2>2, FS_EmptySet
  <2>4. QED
    BY <1>4, <1>5, <2>1, <2>3
<1>6. CASE n # 0
  <2>1. n - 1 \in Nat /\ n - 1 \notin T /\ n \in Nat /\ n < Cardinality(S)
    BY <1>2, <1>6 DEF T
  <2>2. PICK c \in S : Cardinality(Below(S, c)) = n - 1
    BY <2>1, <1>3 DEF T
  <2> DEFINE Above == {d \in S : c < d}
             UpTo == Below(S, c) \cup {c}
  <2>3. IsFiniteSet(UpTo) /\ Cardinality(UpTo) = n
    <3>1. c \notin Below(S, c)
      BY DEF Below
    <3>2. IsFiniteSet(Below(S, c))
      BY <1>4
    <3>3. IsFiniteSet(UpTo) /\ Cardinality(UpTo) = Cardinality(Below(S, c)) + 1
      BY <3>1, <3>2, FS_AddElement
    <3>4. QED
      BY <3>3, <2>1, <2>2
  <2>4. Above # {}
    <3>1. SUFFICES ASSUME Above = {} PROVE FALSE
      OBVIOUS
    <3>2. \A d \in S : d \in Nat /\ c \in Nat /\ ~(c < d)
      BY <3>1
    <3>3. \A d \in S : d \in UpTo
      BY <3>2 DEF Below
    <3>4. S = UpTo
      BY <3>3, <2>2 DEF Below
    <3>5. Cardinality(S) = n
      <4> HIDE DEF UpTo
      <4> QED BY <3>4, <2>3
    <3>6. QED
      BY <3>5, <2>1, <1>3
  <2>5. PICK e \in Above : \A d \in Above : e <= d
    <3>1. Above \in SUBSET Nat
      OBVIOUS
    <3>2. QED
      BY <2>4, <3>1, LeastNumber
  <2>6. e \in S /\ Below(S, e) = UpTo
    <3>1. \A d \in S : d \in Nat /\ c \in Nat /\ e \in Nat /\ c < e /\ (c < d => e <= d)
      BY <2>5
    <3>2. \A d \in S : d < e <=> d \in UpTo
      BY <3>1 DEF Below
    <3>3. QED
      BY <2>5, <3>2 DEF Below
  <2>7. Cardinality(Below(S, e)) = n
    <3> HIDE DEF UpTo
    <3> QED BY <2>3, <2>6
  <2>8. QED
    BY <1>4, <2>6, <2>7
<1>7. QED
  BY <1>5, <1>6

-----------------------------------------------------------------------------
\* Requests and lists.

LEMMA CommentsFinite == Comments \in SUBSET Nat /\ IsFiniteSet(Comments)
BY CommentsAssumption, FS_Interval DEF Comments

LEMMA MaxIdFacts ==
  ASSUME NEW reqs, RequestsOK(reqs)
  PROVE  MaxId(reqs) \in Nat /\ \A i \in DOMAIN reqs : i <= MaxId(reqs)
<1>1. CASE DOMAIN reqs = {}
  BY <1>1 DEF MaxId
<1>2. CASE DOMAIN reqs # {}
  <2>1. DOMAIN reqs \in SUBSET Nat /\ IsFiniteSet(DOMAIN reqs)
    BY DEF RequestsOK
  <2>2. \E n \in DOMAIN reqs : \A m \in DOMAIN reqs : m <= n
    BY <1>2, <2>1, GreatestNumber
  <2>3. QED
    BY <1>2, <2>1, <2>2 DEF MaxId
<1>3. QED
  BY <1>1, <1>2

\* Numbered numbers each comment of the set once, from `first` on.
LEMMA NumberedFacts ==
  ASSUME NEW S \in SUBSET Comments, NEW first \in Nat \ {0}
  PROVE  LET f == Numbered(S, first)
         IN  /\ DOMAIN f \subseteq Nat \ {0} /\ IsFiniteSet(DOMAIN f)
             /\ \A i \in DOMAIN f : first <= i /\ f[i] \in S
             /\ \A i, j \in DOMAIN f : f[i] = f[j] => i = j
<1> DEFINE f == Numbered(S, first)
<1>1. S \in SUBSET Nat /\ IsFiniteSet(S) /\ Cardinality(S) \in Nat
  BY CommentsFinite, FS_Subset, FS_CardinalityType
<1>2. DOMAIN f = first .. (first + Cardinality(S) - 1)
  BY DEF Numbered
<1>3. \A i \in DOMAIN f : i \in Nat \ {0} /\ first <= i /\ i - first \in Nat /\ i - first < Cardinality(S)
  BY <1>1, <1>2
<1>4. IsFiniteSet(DOMAIN f)
  BY <1>1, <1>2, FS_Interval
<1>5. ASSUME NEW i \in DOMAIN f
      PROVE  f[i] \in S /\ Cardinality(Below(S, f[i])) = i - first
  <2>1. f[i] = CHOOSE c \in S : Cardinality(Below(S, c)) = i - first
    BY <1>2 DEF Numbered, Below
  <2>2. \E c \in S : Cardinality(Below(S, c)) = i - first
    BY <1>1, <1>3, NthNumber
  <2> HIDE DEF f
  <2>3. QED
    BY <2>1, <2>2
<1>6. ASSUME NEW i \in DOMAIN f, NEW j \in DOMAIN f, f[i] = f[j] PROVE i = j
  <2>1. i - first = j - first /\ i \in Nat /\ j \in Nat
    <3> HIDE DEF f
    <3> QED BY <1>3, <1>5, <1>6
  <2>2. QED
    BY <2>1
<1> HIDE DEF f
<1>7. QED
  BY <1>3, <1>4, <1>5, <1>6 DEF f

\* A comment is found for one request of a session at most, and it is one that
\* asks about it.
LEMMA OneFinds ==
  ASSUME NEW reqs, RequestsOK(reqs), NEW i \in DOMAIN reqs, NEW j \in DOMAIN reqs,
         reqs[i].c = reqs[j].c, NEW text, FindsWith(reqs, i, text), FindsWith(reqs, j, text)
  PROVE  i = j
<1>1. i \in Candidates(reqs, reqs[i].c, text) /\ \A k \in Candidates(reqs, reqs[i].c, text) : i <= k
  BY DEF FindsWith
<1>2. j \in Candidates(reqs, reqs[i].c, text) /\ \A k \in Candidates(reqs, reqs[i].c, text) : j <= k
  BY DEF FindsWith
<1>3. i \in Nat /\ j \in Nat
  BY DEF RequestsOK
<1>4. QED
  BY <1>1, <1>2, <1>3

LEMMA OverFacts ==
  ASSUME NEW f, NEW g
  PROVE  /\ DOMAIN Over(f, g) = DOMAIN f \cup DOMAIN g
         /\ \A i \in DOMAIN g : Over(f, g)[i] = g[i]
         /\ \A i \in DOMAIN f : i \notin DOMAIN g => Over(f, g)[i] = f[i]
BY DEF Over

LEMMA WithoutFacts ==
  ASSUME NEW f, NEW S
  PROVE  DOMAIN Without(f, S) = DOMAIN f \ S /\ \A i \in DOMAIN f \ S : Without(f, S)[i] = f[i]
BY DEF Without

\* The requests of a session after a list that follows notes.
LEMMA MergedOK ==
  ASSUME NEW reqs, RequestsOK(reqs), NEW list, RequestsOK(list), NEW S
  PROVE  RequestsOK(Over(Without(reqs, S), list))
<1>1. IsFiniteSet(DOMAIN reqs \ S)
  BY FS_Difference DEF RequestsOK
<1>2. IsFiniteSet((DOMAIN reqs \ S) \cup DOMAIN list)
  BY <1>1, FS_Union DEF RequestsOK
<1>3. DOMAIN Over(Without(reqs, S), list) = (DOMAIN reqs \ S) \cup DOMAIN list
  BY DEF Over, Without
<1>4. ASSUME NEW i \in DOMAIN Over(Without(reqs, S), list)
      PROVE  Over(Without(reqs, S), list)[i] \in Request
  <2>1. CASE i \in DOMAIN list
    BY <2>1 DEF RequestsOK, Over
  <2>2. CASE i \in DOMAIN reqs \ S /\ i \notin DOMAIN list
    BY <2>2 DEF RequestsOK, Over, Without
  <2>3. QED
    BY <1>3, <2>1, <2>2
<1>5. QED
  BY <1>2, <1>3, <1>4 DEF RequestsOK

\* What a list asks about: comments that exist, each once; after notes the noted
\* requests under their IDs and, under new IDs, comments nobody holds.
Listing(C) ==
  /\ DOMAIN C \subseteq Nat \ {0} /\ IsFiniteSet(DOMAIN C)
  /\ \A i \in DOMAIN C : C[i] \in Comments /\ Exists(C[i])
  /\ \A i, j \in DOMAIN C : C[i] = C[j] => i = j
Follows(C) ==
  \A i \in DOMAIN C :
    /\ i \in DOMAIN sess.reqs => i \in ResentNoted(sess)
    /\ i \in ResentNoted(sess) => C[i] = sess.reqs[i].c
    /\ i \notin ResentNoted(sess) => C[i] \notin HeldBy(sess)

LEMMA ListedFacts ==
  ASSUME TypeOK, NEW wants \in SUBSET {c \in Comments : Exists(c)}
  PROVE  /\ Listing(ListedComments(sess, wants))
         /\ sess.status = "notes" => Follows(ListedComments(sess, wants))
<1>1. Found(wants) \in SUBSET Comments /\ \A c \in Found(wants) : Exists(c)
  BY DEF Found, NeedsFeedback
<1>2. RequestsOK(sess.reqs)
  BY DEF TypeOK, SessionOK
<1>3. CASE sess.status # "notes"
  <2>1. ListedComments(sess, wants) = Numbered(Found(wants), 1)
    BY <1>3 DEF ListedComments
  <2>2. Listing(Numbered(Found(wants), 1))
    BY <1>1, NumberedFacts DEF Listing
  <2>3. QED
    BY <1>3, <2>1, <2>2
<1>4. CASE sess.status = "notes"
  <2> DEFINE R == ResentNoted(sess)
             first == MaxId(sess.reqs) + 1
             S == Found(wants) \ HeldBy(sess)
             resent == [i \in R |-> sess.reqs[i].c]
             new == Numbered(S, first)
             C == Over(resent, new)
  <2>1. first \in Nat \ {0} /\ \A i \in DOMAIN sess.reqs : i < first
    BY <1>2, MaxIdFacts DEF RequestsOK
  <2>2. S \in SUBSET Comments /\ \A c \in S : Exists(c) /\ c \notin HeldBy(sess)
    BY <1>1
  <2>3. /\ DOMAIN new \subseteq Nat \ {0} /\ IsFiniteSet(DOMAIN new)
        /\ \A i \in DOMAIN new : first <= i /\ new[i] \in S
        /\ \A i, j \in DOMAIN new : new[i] = new[j] => i = j
    BY <2>1, <2>2, NumberedFacts
  <2>4. /\ R \subseteq DOMAIN sess.reqs /\ IsFiniteSet(R) /\ R \subseteq Nat \ {0}
        /\ \A i \in R : sess.reqs[i].c \in Comments /\ Exists(sess.reqs[i].c) /\ Finds(sess.reqs, i)
    <3>1. R \subseteq DOMAIN sess.reqs
      BY DEF ResentNoted
    <3>2. QED
      BY <1>2, <3>1, FS_Subset DEF ResentNoted, Finds, RequestsOK, Request
  <2>5. ASSUME NEW i \in R, NEW j \in R, sess.reqs[i].c = sess.reqs[j].c PROVE i = j
    <3> DEFINE text == code[sess.reqs[i].c]
    <3>1. FindsWith(sess.reqs, i, text) /\ FindsWith(sess.reqs, j, text)
      BY <2>4, <2>5 DEF Finds
    <3>2. i \in DOMAIN sess.reqs /\ j \in DOMAIN sess.reqs
      BY <2>4
    <3> HIDE DEF text
    <3>3. QED
      BY <1>2, <2>5, <3>1, <3>2, OneFinds
  <2>6. \A i \in R : sess.reqs[i].c \in HeldBy(sess)
    BY DEF HeldBy
  <2> HIDE DEF R, S, first, new
  <2>7. ASSUME NEW i \in R, i \in DOMAIN new PROVE FALSE
    <3>1. i \in Nat /\ first \in Nat /\ i < first /\ first <= i
      BY <2>1, <2>3, <2>4, <2>7
    <3>2. QED
      BY <3>1
  <2>8. /\ DOMAIN C = R \cup DOMAIN new
        /\ \A i \in R : C[i] = sess.reqs[i].c
        /\ \A i \in DOMAIN new : C[i] = new[i]
    BY <2>7 DEF Over
  <2>9. IsFiniteSet(R \cup DOMAIN new)
    BY <2>3, <2>4, FS_Union
  <2> HIDE DEF C
  <2>10. \A i \in DOMAIN C : C[i] \in Comments /\ Exists(C[i])
    BY <2>2, <2>3, <2>4, <2>8
  <2>11. ASSUME NEW i \in DOMAIN C, NEW j \in DOMAIN C, C[i] = C[j] PROVE i = j
    <3>1. CASE i \in R /\ j \in R
      BY <2>5, <2>8, <2>11, <3>1
    <3>2. CASE i \in DOMAIN new /\ j \in DOMAIN new
      BY <2>3, <2>8, <2>11, <3>2
    <3>3. CASE (i \in R /\ j \in DOMAIN new) \/ (j \in R /\ i \in DOMAIN new)
      BY <2>2, <2>3, <2>6, <2>8, <2>11, <3>3
    <3>4. QED
      BY <2>8, <3>1, <3>2, <3>3
  <2>12. Listing(C)
    BY <2>3, <2>4, <2>8, <2>9, <2>10, <2>11 DEF Listing
  <2>13. Follows(C)
    <3>1. ASSUME NEW i \in DOMAIN C PROVE i \in DOMAIN sess.reqs => i \in R
      BY <1>2, <2>1, <2>3, <2>8 DEF RequestsOK
    <3>2. QED
      BY <2>2, <2>3, <2>8, <3>1 DEF Follows, R
  <2>14. ListedComments(sess, wants) = C
    BY <1>4 DEF ListedComments, C, R, S, first, new
  <2>15. QED
    BY <2>12, <2>13, <2>14
<1>5. QED
  BY <1>3, <1>4

-----------------------------------------------------------------------------
\* The inductive invariant.

\* A call that looked while notes waited, with no list added since, still sees them wait.
LooksOK(a) ==
  agent[a].pc \in {"seen", "built"} /\ agent[a].at = sends /\ agent[a].seen.status = "notes"
    => sess.status = "notes"

\* A list asks about a comment once.
AsksOnce(list) == \A i, j \in DOMAIN list : list[i].c = list[j].c => i = j

\* A list that follows the session's notes resends noted requests only, and asks
\* about no comment whose text an older request still finds.
ListFits(list) ==
  /\ \A i \in DOMAIN list : i \in DOMAIN sess.reqs => IsNote(sess.fb, i)
  /\ \A j \in DOMAIN list, i \in DOMAIN sess.reqs \ DOMAIN list :
       list[j].c = sess.reqs[i].c /\ list[j].text = sess.reqs[i].text
         => ~FindsWith(sess.reqs, i, sess.reqs[i].text)

CallInv(a) ==
  /\ LooksOK(a)
  /\ AsksOnce(agent[a].list)
  /\ agent[a].pc = "built" /\ agent[a].at = sends /\ agent[a].seen.status = "notes"
       => ListFits(agent[a].list)

\* What the user answered was shown, and before the first list nothing was.
AnswersShown ==
  /\ \A i \in DOMAIN sess.fb : IsAnswer(sess.fb, i) => sess.fb[i].seen.text \in shown[sess.fb[i].seen.c]
  /\ sess.status = "none" => DOMAIN sess.fb = {}

\* A dismissed session has a next move once it is restored.
RestoreFits == sess.status = "dismissed" => ~AllFed(sess) \/ AllAnswered(sess)

ReviewInv ==
  /\ TypeOK
  /\ AnswersFit
  /\ NoDeadEnd
  /\ AnswersShown
  /\ RestoreFits
  /\ ApprovedWasSeen
  /\ \A a \in Agents : CallInv(a)
  /\ OneAnswerPerComment

LEMMA ReviewInit == Init => ReviewInv
<1> SUFFICES ASSUME Init PROVE ReviewInv
  OBVIOUS
<1> USE DEF Init
<1>1. RequestsOK(<<>>)
  BY FS_EmptySet DEF RequestsOK
<1>2. SessionOK(NoSession)
  BY <1>1 DEF SessionOK, NoSession, Statuses
<1>3. CallOK(IdleAgent)
  <2>1. Seen(NoSession) \in [status : Statuses, count : Nat]
    BY DEF Seen, NoSession, Statuses
  <2>2. QED
    BY <1>1, <2>1 DEF CallOK, IdleAgent
<1>4. ScreenOK(ClosedScreen)
  BY DEF ScreenOK, ClosedScreen
<1>5. TypeOK
  <2>1. DOMAIN agent = Agents /\ \A a \in Agents : CallOK(agent[a])
    BY <1>3
  <2>2. DOMAIN screen = Screens /\ \A s \in Screens : ScreenOK(screen[s])
    BY <1>4
  <2>3. sess = NoSession /\ code \in [Comments -> Texts \cup {Gone}] /\ listed \in BOOLEAN
    OBVIOUS
  <2>4. edits \in 0 .. MaxEdits /\ sends \in 0 .. MaxSends
    BY BoundsAssumption
  <2>5. decided \in [Comments -> [texts : SUBSET Texts, cut : BOOLEAN]]
    OBVIOUS
  <2>6. shown \in [Comments -> SUBSET Texts] /\ missed \in BOOLEAN /\ mixed \in BOOLEAN
    OBVIOUS
  <2>7. QED
    BY <1>2, <2>1, <2>2, <2>3, <2>4, <2>5, <2>6 DEF TypeOK
<1>6. AnswersFit /\ NoDeadEnd /\ AnswersShown /\ RestoreFits /\ OneAnswerPerComment
  <2>1. DOMAIN sess.fb = {} /\ DOMAIN sess.reqs = {} /\ sess.status = "none"
    BY DEF NoSession
  <2>2. QED
    BY <2>1 DEF AnswersFit, NoDeadEnd, AnswersShown, RestoreFits, OneAnswerPerComment
<1>7. ApprovedWasSeen
  BY DEF ApprovedWasSeen
<1>8. \A a \in Agents : CallInv(a)
  BY DEF CallInv, LooksOK, AsksOnce, IdleAgent
<1>9. QED
  BY <1>5, <1>6, <1>7, <1>8 DEF ReviewInv

-----------------------------------------------------------------------------
\* What a step leaves alone.

\* The session as it was, with what the user was shown.
LEMMA SameSession ==
  ASSUME ReviewInv, UNCHANGED <<sess, shown, mixed>>
  PROVE  AnswersFit' /\ NoDeadEnd' /\ AnswersShown' /\ RestoreFits' /\ OneAnswerPerComment'
BY DEF ReviewInv, AnswersFit, NoDeadEnd, Waiting, AnswersShown, RestoreFits, OneAnswerPerComment

LEMMA SameDecisions ==
  ASSUME ReviewInv, UNCHANGED decided, \A c \in Comments : shown[c] \subseteq shown'[c]
  PROVE  ApprovedWasSeen'
BY DEF ReviewInv, ApprovedWasSeen

\* Calls keep what they know while no list is added: notes wait until one is.
LEMMA SameCalls ==
  ASSUME ReviewInv, UNCHANGED <<agent, sends>>, sess.status = "notes" => sess' = sess
  PROVE  \A a \in Agents : CallInv(a)'
<1> TAKE a \in Agents
<1>1. CallInv(a)
  BY DEF ReviewInv
<1>2. LooksOK(a)' /\ AsksOnce(agent[a].list)'
  BY <1>1 DEF CallInv, LooksOK, AsksOnce
<1>3. ASSUME agent[a].pc = "built", agent[a].at = sends, agent[a].seen.status = "notes"
      PROVE  ListFits(agent[a].list)'
  <2>1. sess' = sess
    BY <1>1, <1>3 DEF CallInv, LooksOK
  <2>2. QED
    BY <1>1, <1>3, <2>1 DEF CallInv, ListFits, FindsWith, Candidates, WithText, AskAbout
<1>4. QED
  BY <1>2, <1>3 DEF CallInv

\* One call moves and the session stays.
LEMMA OneCallMoves ==
  ASSUME ReviewInv, UNCHANGED <<sess, sends>>, NEW a \in Agents, NEW call,
         agent' = [agent EXCEPT ![a] = call], CallOK(call), CallInv(a)'
  PROVE  /\ \A b \in Agents : CallInv(b)'
         /\ (DOMAIN agent = Agents /\ \A b \in Agents : CallOK(agent[b]))'
<1>1. DOMAIN agent = Agents /\ \A b \in Agents : CallOK(agent[b]) /\ CallInv(b)
  BY DEF ReviewInv, TypeOK
<1>2. agent'[a] = call /\ DOMAIN agent' = Agents /\ \A b \in Agents \ {a} : agent'[b] = agent[b]
  BY <1>1
<1>3. \A b \in Agents : CallOK(agent[b])'
  BY <1>1, <1>2 DEF CallOK
<1>4. ASSUME NEW b \in Agents \ {a} PROVE CallInv(b)'
  <2>1. agent'[b] = agent[b] /\ CallInv(b)
    BY <1>1, <1>2
  <2>2. QED
    BY <2>1 DEF CallInv, LooksOK, AsksOnce, ListFits, FindsWith, Candidates, WithText, AskAbout
<1>5. QED
  BY <1>2, <1>3, <1>4

\* One screen moves.
LEMMA OneScreenMoves ==
  ASSUME TypeOK, NEW s \in Screens, NEW shows, ScreenOK(shows), screen' = [screen EXCEPT ![s] = shows]
  PROVE  (DOMAIN screen = Screens /\ \A r \in Screens : ScreenOK(screen[r]))'
BY DEF TypeOK, ScreenOK

\* A step of one call, with the waiting list.
LEMMA CallStep ==
  ASSUME ReviewInv, NEW a \in Agents, NEW call, agent' = [agent EXCEPT ![a] = call],
         CallOK(call), CallInv(a)', listed' \in BOOLEAN, missed' \in BOOLEAN,
         UNCHANGED <<code, decided, sess, screen, edits, sends, shown, mixed>>
  PROVE  ReviewInv'
<1>1. /\ \A b \in Agents : CallInv(b)'
      /\ (DOMAIN agent = Agents /\ \A b \in Agents : CallOK(agent[b]))'
  BY OneCallMoves
<1>2. TypeOK'
  BY <1>1 DEF ReviewInv, TypeOK
<1>3. AnswersFit' /\ NoDeadEnd' /\ AnswersShown' /\ RestoreFits' /\ OneAnswerPerComment'
  BY SameSession
<1>4. ApprovedWasSeen'
  BY SameDecisions
<1>5. QED
  BY <1>1, <1>2, <1>3, <1>4 DEF ReviewInv

\* A step of one screen that changes nothing else.
LEMMA OnlyScreen ==
  ASSUME ReviewInv, NEW s \in Screens, NEW shows, screen' = [screen EXCEPT ![s] = shows],
         ScreenOK(shows), UNCHANGED <<code, decided, sess, listed, agent, edits, sends, history>>
  PROVE  ReviewInv'
<1> USE DEF history
<1>1. (DOMAIN screen = Screens /\ \A r \in Screens : ScreenOK(screen[r]))'
  BY OneScreenMoves DEF ReviewInv
<1>2. TypeOK'
  BY <1>1 DEF ReviewInv, TypeOK, CallOK
<1>3. AnswersFit' /\ NoDeadEnd' /\ AnswersShown' /\ RestoreFits' /\ OneAnswerPerComment'
  BY SameSession
<1>4. ApprovedWasSeen'
  BY SameDecisions
<1>5. \A a \in Agents : CallInv(a)'
  BY SameCalls
<1>6. QED
  BY <1>2, <1>3, <1>4, <1>5 DEF ReviewInv

\* A step on the session, by anyone but a call that adds a list.
SessionFacts ==
  /\ SessionOK(sess)
  /\ AnswersFit
  /\ NoDeadEnd
  /\ AnswersShown
  /\ RestoreFits
  /\ OneAnswerPerComment

LEMMA SessionStep ==
  ASSUME ReviewInv, SessionFacts', sess.status = "notes" => sess' = sess,
         (DOMAIN screen = Screens /\ \A r \in Screens : ScreenOK(screen[r]))',
         listed' \in BOOLEAN, missed' \in BOOLEAN, UNCHANGED <<agent, edits, sends, mixed>>,
         (code \in [Comments -> Texts \cup {Gone}])',
         (decided \in [Comments -> [texts : SUBSET Texts, cut : BOOLEAN]])',
         (shown \in [Comments -> SUBSET Texts])', ApprovedWasSeen'
  PROVE  ReviewInv'
<1>1. TypeOK'
  BY DEF ReviewInv, TypeOK, CallOK, SessionFacts
<1>2. \A a \in Agents : CallInv(a)'
  BY SameCalls
<1>3. QED
  BY <1>1, <1>2 DEF ReviewInv, SessionFacts

LEMMA ListingTypes ==
  ASSUME ReviewInv, NEW b \in BOOLEAN, ListingBecomes(b)
  PROVE  listed' \in BOOLEAN /\ missed' \in BOOLEAN
BY DEF ListingBecomes, ReviewInv, TypeOK

-----------------------------------------------------------------------------
\* The calls.

LEMMA IdleCall ==
  ASSUME ReviewInv, NEW a \in Agents, agent' = [agent EXCEPT ![a] = IdleAgent], UNCHANGED sends
  PROVE  CallOK(IdleAgent) /\ CallInv(a)'
<1>1. CallOK(IdleAgent)
  <2>1. RequestsOK(<<>>)
    BY FS_EmptySet DEF RequestsOK
  <2>2. Seen(NoSession) \in [status : Statuses, count : Nat] /\ 0 \in 0 .. sends
    BY DEF ReviewInv, TypeOK, Seen, NoSession, Statuses
  <2>3. QED
    BY <2>1, <2>2 DEF CallOK, IdleAgent
<1>2. agent'[a] = IdleAgent
  BY DEF ReviewInv, TypeOK
<1>3. QED
  BY <1>1, <1>2 DEF CallInv, LooksOK, AsksOnce, IdleAgent

LEMMA SeeInv ==
  ASSUME ReviewInv, NEW a \in Agents, See(a)
  PROVE  ReviewInv'
<1> DEFINE call == [IdleAgent EXCEPT !.pc = "seen", !.seen = Seen(sess), !.at = sends]
<1>1. /\ DOMAIN call = DOMAIN IdleAgent /\ call.pc = "seen" /\ call.seen = Seen(sess)
      /\ call.list = <<>> /\ call.at = sends
  BY DEF IdleAgent
<1>2. CallOK(call)
  <2>1. RequestsOK(<<>>)
    BY FS_EmptySet DEF RequestsOK
  <2>2. Seen(sess) \in [status : Statuses, count : Nat] /\ sends \in 0 .. sends
    BY BoundsAssumption DEF ReviewInv, TypeOK, SessionOK, Seen
  <2>3. QED
    BY <1>1, <2>1, <2>2 DEF CallOK
<1>3. agent' = [agent EXCEPT ![a] = call] /\ agent'[a] = call
  <2>1. agent' = [agent EXCEPT ![a] = call]
    BY DEF See
  <2> HIDE DEF call
  <2>2. QED
    BY <2>1 DEF ReviewInv, TypeOK
<1> HIDE DEF call
<1>4. CallInv(a)'
  <2>1. /\ agent'[a].pc = "seen" /\ agent'[a].seen = Seen(sess) /\ DOMAIN agent'[a].list = {}
        /\ sess' = sess
    <3>1. agent'[a].list = <<>> /\ agent'[a].pc = "seen" /\ agent'[a].seen = Seen(sess)
      BY <1>1, <1>3
    <3>2. DOMAIN agent'[a].list = {}
      BY <3>1
    <3>3. QED
      BY <3>1, <3>2 DEF See
  <2>2. Seen(sess).status = sess.status
    BY DEF Seen
  <2>3. QED
    BY <2>1, <2>2 DEF CallInv, LooksOK, AsksOnce
<1>5. /\ listed' \in BOOLEAN /\ missed' \in BOOLEAN
      /\ UNCHANGED <<code, decided, sess, screen, edits, sends, shown, mixed>>
  BY DEF See, history, ReviewInv, TypeOK
<1>6. QED
  BY <1>2, <1>3, <1>4, <1>5, CallStep

LEMMA IdlesInv ==
  ASSUME ReviewInv, NEW a \in Agents, agent' = [agent EXCEPT ![a] = IdleAgent],
         listed' \in BOOLEAN, missed' \in BOOLEAN,
         UNCHANGED <<code, decided, sess, screen, edits, sends, shown, mixed>>
  PROVE  ReviewInv'
BY IdleCall, CallStep

LEMMA AgentKilledInv ==
  ASSUME ReviewInv, NEW a \in Agents, AgentKilled(a)
  PROVE  ReviewInv'
<1>1. listed' \in BOOLEAN
  BY DEF AgentKilled, ReviewInv, TypeOK
<1>2. missed' \in BOOLEAN
  <2>1. missed' = (missed \/ agent[a].pc = "added")
    BY DEF AgentKilled
  <2>2. QED
    BY <2>1, Zenon
<1>3. QED
  BY <1>1, <1>2, IdlesInv DEF AgentKilled

LEMMA AddToWaitingListInv ==
  ASSUME ReviewInv, NEW a \in Agents, AddToWaitingList(a)
  PROVE  ReviewInv'
BY ListingTypes, IdlesInv DEF AddToWaitingList

\* What the requests of a list say, from the comments it asks about.
LEMMA BuiltFacts ==
  ASSUME TypeOK, NEW C, Listing(C), NEW sugg \in [Comments -> Suggestions]
  PROVE  LET L == Requests(C, DOMAIN C, sugg)
         IN  /\ RequestsOK(L) /\ AsksOnce(L) /\ DOMAIN L = DOMAIN C
             /\ \A i \in DOMAIN C : L[i].c = C[i] /\ L[i].text = code[C[i]]
<1> DEFINE L == Requests(C, DOMAIN C, sugg)
<1>1. DOMAIN L = DOMAIN C
  BY DEF Requests
<1>2. \A i \in DOMAIN C : L[i] = [c |-> C[i], text |-> code[C[i]], sugg |-> sugg[C[i]]]
  BY DEF Requests
<1> HIDE DEF L
<1>3. ASSUME NEW i \in DOMAIN C PROVE L[i] \in Request
  <2>1. C[i] \in Comments /\ Exists(C[i]) /\ code \in [Comments -> Texts \cup {Gone}]
    BY DEF Listing, TypeOK
  <2>2. code[C[i]] \in Texts
    BY <2>1 DEF Exists
  <2>3. sugg[C[i]] \in Suggestions
    BY <2>1
  <2>4. [c |-> C[i], text |-> code[C[i]], sugg |-> sugg[C[i]]] \in Request
    BY <2>1, <2>2, <2>3 DEF Request
  <2>5. QED
    BY <1>2, <2>4
<1>4. RequestsOK(L)
  <2>1. \A i \in DOMAIN L : L[i] \in Request
    BY <1>1, <1>3
  <2>2. DOMAIN L \subseteq Nat \ {0} /\ IsFiniteSet(DOMAIN L)
    BY <1>1 DEF Listing
  <2>3. QED
    BY <2>1, <2>2 DEF RequestsOK
<1>5. ASSUME NEW i \in DOMAIN C PROVE L[i].c = C[i] /\ L[i].text = code[C[i]]
  <2>1. L[i] = [c |-> C[i], text |-> code[C[i]], sugg |-> sugg[C[i]]]
    BY <1>2
  <2>2. QED
    BY ONLY <2>1
<1>6. AsksOnce(L)
  BY <1>1, <1>5 DEF AsksOnce, Listing
<1>7. QED
  BY <1>1, <1>4, <1>5, <1>6 DEF L

\* A list built while notes wait fits them.
LEMMA BuiltFits ==
  ASSUME TypeOK, NEW C, Follows(C), NEW L, DOMAIN L = DOMAIN C,
         \A i \in DOMAIN C : L[i].c = C[i] /\ L[i].text = code[C[i]] /\ Exists(C[i])
  PROVE  ListFits(L)
<1>1. ASSUME NEW i \in DOMAIN L, i \in DOMAIN sess.reqs PROVE IsNote(sess.fb, i)
  BY <1>1 DEF Follows, ResentNoted
<1>2. ASSUME NEW j \in DOMAIN L, NEW i \in DOMAIN sess.reqs \ DOMAIN L,
             L[j].c = sess.reqs[i].c, L[j].text = sess.reqs[i].text,
             FindsWith(sess.reqs, i, sess.reqs[i].text)
      PROVE  FALSE
  <2>1. /\ C[j] = sess.reqs[i].c /\ code[sess.reqs[i].c] = sess.reqs[i].text
        /\ Exists(sess.reqs[i].c)
    BY <1>2
  <2>2. StillSo(sess.reqs, i)
    BY <1>2, <2>1 DEF StillSo, Finds
  <2>3. sess.reqs[i].c \in HeldBy(sess)
    BY <2>2 DEF HeldBy
  <2>4. j \in ResentNoted(sess)
    BY <2>1, <2>3 DEF Follows
  <2>5. j \in DOMAIN sess.reqs /\ FindsWith(sess.reqs, j, code[sess.reqs[j].c]) /\ C[j] = sess.reqs[j].c
    BY <2>4 DEF ResentNoted, Finds, Follows
  <2>6. FindsWith(sess.reqs, j, sess.reqs[i].text) /\ sess.reqs[i].c = sess.reqs[j].c
    BY <2>1, <2>5
  <2>7. i = j
    BY <1>2, <2>5, <2>6, OneFinds DEF TypeOK, SessionOK
  <2>8. QED
    BY <2>7
<1>3. QED
  BY <1>1, <1>2 DEF ListFits

LEMMA BuildInv ==
  ASSUME ReviewInv, NEW a \in Agents, Build(a)
  PROVE  ReviewInv'
<1>1. /\ listed' \in BOOLEAN /\ missed' \in BOOLEAN
      /\ UNCHANGED <<code, decided, sess, screen, edits, sends, shown, mixed>>
  BY DEF Build, history, ReviewInv, TypeOK
<1>2. CASE agent' = [agent EXCEPT ![a] = IdleAgent]
  BY <1>1, <1>2, IdlesInv
<1>3. ASSUME NEW wants \in SUBSET {c \in Comments : Exists(c) /\ Compare(c) = "approved"},
             NEW sugg \in [Comments -> Suggestions], NEW C, C = ListedComments(sess, wants),
             NEW L, L = Requests(C, DOMAIN C, sugg), agent[a].pc = "seen",
             agent' = [agent EXCEPT ![a] = [@ EXCEPT !.pc = "built", !.list = L]]
      PROVE  ReviewInv'
  <2> DEFINE call == [agent[a] EXCEPT !.pc = "built", !.list = L]
  <2>1. TypeOK /\ CallOK(agent[a]) /\ CallInv(a) /\ DOMAIN agent = Agents
    BY DEF ReviewInv, TypeOK
  <2>2. /\ DOMAIN call = DOMAIN agent[a] /\ call.pc = "built" /\ call.list = L
        /\ call.seen = agent[a].seen /\ call.at = agent[a].at
    BY <2>1 DEF CallOK, IdleAgent
  <2>3. agent' = [agent EXCEPT ![a] = call]
    BY <1>3
  <2> HIDE DEF call
  <2>4. agent'[a] = call
    BY <2>1, <2>3
  <2>5. wants \in SUBSET {c \in Comments : Exists(c)}
    BY <1>3
  <2>6. Listing(C) /\ (sess.status = "notes" => Follows(C))
    BY <1>3, <2>1, <2>5, ListedFacts
  <2>7. /\ RequestsOK(L) /\ AsksOnce(L) /\ DOMAIN L = DOMAIN C
        /\ \A i \in DOMAIN C : L[i].c = C[i] /\ L[i].text = code[C[i]]
    BY <1>3, <2>1, <2>6, BuiltFacts
  <2>8. CallOK(call)
    BY <2>1, <2>2, <2>7 DEF CallOK
  <2>9. sess.status = "notes" => ListFits(L)
    BY <2>1, <2>6, <2>7, BuiltFits DEF Listing
  <2>10. CallInv(a)'
    <3>1. agent[a].at = sends /\ agent[a].seen.status = "notes" => sess.status = "notes"
      BY <1>3, <2>1 DEF CallInv, LooksOK
    <3>2. ListFits(L)' <=> ListFits(L)
      BY <1>1 DEF ListFits, FindsWith, Candidates, WithText, AskAbout
    <3>3. AsksOnce(agent'[a].list)
      BY <2>2, <2>4, <2>7
    <3>4. LooksOK(a)'
      BY <1>1, <2>2, <2>4, <3>1 DEF LooksOK
    <3>5. (agent[a].pc = "built" /\ agent[a].at = sends /\ agent[a].seen.status = "notes"
             => ListFits(agent[a].list))'
      <4>1. agent'[a].list = L /\ agent'[a].at = agent[a].at /\ agent'[a].seen = agent[a].seen
        BY <2>2, <2>4
      <4>2. QED
        BY <1>1, <2>9, <3>1, <3>2, <4>1 DEF ListFits
    <3>6. QED
      BY <3>3, <3>4, <3>5 DEF CallInv, AsksOnce
  <2>11. QED
    BY <1>1, <2>3, <2>8, <2>10, CallStep
<1>4. QED
  BY <1>2, <1>3 DEF Build

\* The parts of a session after a list.
LEMMA AfterNotesParts ==
  ASSUME NEW s, SessionOK(s), NEW list
  PROVE  LET new == AfterNotes(s, list)
         IN  /\ DOMAIN new = DOMAIN NoSession
             /\ new.status = "waiting" /\ new.count = s.count + 1 /\ new.werr = s.werr
             /\ new.reqs = Over(Without(s.reqs, Dropped(s, list)), list)
             /\ new.fb = Without(s.fb, Dropped(s, list) \cup DOMAIN list)
BY DEF SessionOK, NoSession, AfterNotes

LEMMA NewSessionParts ==
  ASSUME NEW list
  PROVE  LET new == NewSession(list)
         IN  /\ DOMAIN new = DOMAIN NoSession
             /\ new.status = "waiting" /\ new.count = 1 /\ new.werr = FALSE
             /\ new.reqs = list /\ new.fb = <<>>
BY DEF NoSession, NewSession

\* A new session holds the list and no feedback.
LEMMA NewSessionFits ==
  ASSUME NEW list, RequestsOK(list), AsksOnce(list), sess' = NewSession(list)
  PROVE  SessionFacts'
<1>1. /\ DOMAIN sess' = DOMAIN NoSession /\ sess'.status = "waiting" /\ sess'.count = 1
      /\ sess'.werr = FALSE /\ sess'.reqs = list /\ sess'.fb = <<>>
  BY NewSessionParts
<1>2. DOMAIN sess'.fb = {}
  BY <1>1
<1>3. SessionOK(sess')
  <2>1. DOMAIN sess' = DOMAIN NoSession /\ sess'.status \in Statuses
    BY <1>1 DEF Statuses
  <2>2. sess'.count \in Nat /\ sess'.werr \in BOOLEAN
    <3>1. 1 \in Nat /\ sess'.count = 1
      BY <1>1
    <3>2. sess'.werr \in BOOLEAN
      BY <1>1, Zenon
    <3>3. QED
      BY <3>1, <3>2, Zenon
  <2>3. RequestsOK(sess'.reqs)
    BY <1>1
  <2>4. \A i \in DOMAIN sess'.fb : sess'.fb[i] \in Feedback
    BY <1>2
  <2>5. QED
    BY <2>1, <2>2, <2>3, <2>4 DEF SessionOK
<1>4. AnswersFit' /\ AnswersShown' /\ RestoreFits'
  BY <1>1, <1>2 DEF AnswersFit, AnswersShown, RestoreFits
<1>5. NoDeadEnd'
  BY <1>1, <1>2 DEF NoDeadEnd, Waiting, AllAnswered
<1>6. OneAnswerPerComment'
  BY <1>1 DEF OneAnswerPerComment, AsksOnce
<1>7. QED
  BY <1>3, <1>4, <1>5, <1>6 DEF SessionFacts, SessionOK

\* A list after notes keeps what fits it, if it was built from these notes.
LEMMA AfterNotesFits ==
  ASSUME ReviewInv, NEW list, RequestsOK(list), AsksOnce(list), sess' = AfterNotes(sess, list),
         UNCHANGED shown, ~mixed' => ~mixed /\ ListFits(list)
  PROVE  SessionFacts'
<1> DEFINE D == Dropped(sess, list)
           reqs == Over(Without(sess.reqs, D), list)
           fb == Without(sess.fb, D \cup DOMAIN list)
<1>1. /\ DOMAIN sess' = DOMAIN NoSession /\ sess'.status = "waiting" /\ sess'.count = sess.count + 1
      /\ sess'.werr = sess.werr /\ sess'.reqs = reqs /\ sess'.fb = fb
  BY AfterNotesParts DEF ReviewInv, TypeOK
<1>2. /\ SessionOK(sess) /\ AnswersFit /\ AnswersShown /\ OneAnswerPerComment
  BY DEF ReviewInv, TypeOK
<1>3. /\ DOMAIN fb = DOMAIN sess.fb \ (D \cup DOMAIN list)
      /\ \A i \in DOMAIN fb : fb[i] = sess.fb[i]
  BY DEF Without
<1>4. /\ DOMAIN reqs = (DOMAIN sess.reqs \ D) \cup DOMAIN list
      /\ \A i \in DOMAIN list : reqs[i] = list[i]
      /\ \A i \in DOMAIN reqs : i \notin DOMAIN list => reqs[i] = sess.reqs[i]
  BY DEF Over, Without
<1>5. RequestsOK(reqs)
  BY <1>2, MergedOK DEF SessionOK
<1>6. \A i \in DOMAIN sess.reqs : i \notin D /\ i \notin DOMAIN list => Kept(sess, i)
  BY DEF Dropped, LeftOut
<1> HIDE DEF D, reqs, fb
<1>7. SessionOK(sess')
  <2>1. \A i \in DOMAIN fb : fb[i] \in Feedback
    BY <1>2, <1>3 DEF SessionOK
  <2>2. sess.count + 1 \in Nat /\ sess.werr \in BOOLEAN
    BY <1>2 DEF SessionOK
  <2>3. QED
    BY <1>1, <1>5, <2>1, <2>2 DEF SessionOK, Statuses
<1>8. AnswersFit'
  <2>1. DOMAIN fb \subseteq DOMAIN reqs
    BY <1>2, <1>3, <1>4 DEF AnswersFit
  <2>2. ASSUME NEW i \in DOMAIN fb, IsAnswer(fb, i) PROVE fb[i].seen = reqs[i]
    <3>1. IsAnswer(sess.fb, i) /\ i \in DOMAIN sess.fb /\ fb[i] = sess.fb[i]
      BY <1>3, <2>2 DEF IsAnswer
    <3>2. reqs[i] = sess.reqs[i]
      BY <1>3, <1>4, <2>1
    <3>3. QED
      BY <1>2, <3>1, <3>2 DEF AnswersFit
  <2>3. QED
    BY <1>1, <2>1, <2>2 DEF AnswersFit
<1>9. AnswersShown' /\ RestoreFits'
  <2>1. \A i \in DOMAIN fb : i \in DOMAIN sess.fb /\ (IsAnswer(fb, i) => IsAnswer(sess.fb, i))
    BY <1>3 DEF IsAnswer
  <2>2. QED
    BY <1>1, <1>2, <1>3, <2>1 DEF AnswersShown, RestoreFits
<1>10. NoDeadEnd'
  <2>1. CASE DOMAIN list = {}
    <3>1. ASSUME NEW i \in DOMAIN reqs PROVE IsAnswer(fb, i)
      <4>1. Kept(sess, i) /\ i \notin D
        BY <1>4, <1>6, <2>1
      <4>2. QED
        BY <1>3, <2>1, <4>1 DEF Kept, IsAnswer
    <3>2. AllAnswered(sess')
      BY <1>1, <3>1 DEF AllAnswered
    <3>3. QED
      BY <1>1, <3>2 DEF NoDeadEnd, AllAnswered
  <2>2. CASE DOMAIN list # {}
    <3>1. PICK i \in DOMAIN list : TRUE
      BY <2>2
    <3>2. i \in DOMAIN reqs /\ i \notin DOMAIN fb
      BY <1>3, <1>4, <3>1
    <3>3. QED
      BY <1>1, <3>2 DEF NoDeadEnd, Waiting
  <2>3. QED
    BY <2>1, <2>2
<1>11. OneAnswerPerComment'
  <2> SUFFICES ASSUME ~mixed', NEW i \in DOMAIN reqs, NEW j \in DOMAIN reqs,
                      reqs[i].c = reqs[j].c, reqs[i].text = reqs[j].text
               PROVE  i = j
    BY <1>1 DEF OneAnswerPerComment
  <2>1. ASSUME NEW k \in DOMAIN reqs, k \notin DOMAIN list, NEW l \in DOMAIN list,
               list[l].c = reqs[k].c, list[l].text = reqs[k].text
        PROVE  FALSE
    <3>1. k \in DOMAIN sess.reqs \ DOMAIN list /\ Kept(sess, k) /\ reqs[k] = sess.reqs[k]
      BY <1>4, <1>6, <2>1
    <3>2. FindsWith(sess.reqs, k, sess.reqs[k].text)
      BY <3>1 DEF Kept, StillSo, Finds
    <3>3. QED
      BY <2>1, <3>1, <3>2 DEF ListFits
  <2>2. CASE i \in DOMAIN list /\ j \in DOMAIN list
    BY <1>4, <2>2 DEF AsksOnce
  <2>3. CASE i \notin DOMAIN list /\ j \notin DOMAIN list
    BY <1>2, <1>4, <2>3 DEF OneAnswerPerComment
  <2>4. QED
    BY <1>4, <2>1, <2>2, <2>3
<1>12. QED
  BY <1>7, <1>8, <1>9, <1>10, <1>11 DEF SessionFacts, SessionOK

\* What a call does whose list is taken.
Adds(a) ==
  /\ agent[a].pc = "built"
  /\ ~Busy(sess.status)
  /\ Seen(sess) = agent[a].seen
  /\ sends < MaxSends
  /\ sess' = IF sess.status = "notes" THEN AfterNotes(sess, agent[a].list)
             ELSE NewSession(agent[a].list)
  /\ sends' = sends + 1
  /\ agent' = [agent EXCEPT ![a] = [IdleAgent EXCEPT !.pc = "added"]]
  /\ mixed' = Mixes(a)
  /\ missed' = FALSE
  /\ UNCHANGED <<code, decided, listed, screen, edits, shown>>

LEMMA AddedFacts ==
  ASSUME ReviewInv, NEW a \in Agents, Adds(a), sess.status = "notes", ~mixed'
  PROVE  ~mixed /\ ListFits(agent[a].list)
<1>1. agent[a].pc = "built" /\ Seen(sess) = agent[a].seen /\ mixed' = Mixes(a)
  BY DEF Adds
<1>2. ~mixed /\ agent[a].at = sends
  BY <1>1 DEF Mixes
<1>3. agent[a].seen.status = "notes"
  BY <1>1 DEF Seen
<1>4. QED
  BY <1>1, <1>2, <1>3 DEF ReviewInv, CallInv

LEMMA AddedInv ==
  ASSUME ReviewInv, NEW a \in Agents, Adds(a)
  PROVE  ReviewInv'
<1> DEFINE list == agent[a].list
           call == [IdleAgent EXCEPT !.pc = "added"]
<1>1. /\ TypeOK /\ RequestsOK(list) /\ AsksOnce(list) /\ sends \in Nat
      /\ DOMAIN agent = Agents /\ \A b \in Agents : CallOK(agent[b]) /\ CallInv(b)
  BY BoundsAssumption DEF ReviewInv, TypeOK, CallOK, CallInv
<1>2. SessionFacts'
  <2>1. CASE sess.status = "notes"
    <3>1. sess' = AfterNotes(sess, list) /\ UNCHANGED shown
      BY <2>1 DEF Adds
    <3>2. ~mixed' => ~mixed /\ ListFits(list)
      BY <2>1, AddedFacts
    <3>3. QED
      BY <1>1, <3>1, <3>2, AfterNotesFits
  <2>2. CASE sess.status # "notes"
    BY <1>1, <2>2, NewSessionFits DEF Adds
  <2>3. QED
    BY <2>1, <2>2
<1>3. /\ DOMAIN call = DOMAIN IdleAgent /\ call.pc = "added" /\ call.list = <<>>
      /\ call.seen = IdleAgent.seen /\ call.at = 0
  BY DEF IdleAgent
<1>4. agent' = [agent EXCEPT ![a] = call] /\ sends' = sends + 1 /\ sends' \in 0 .. MaxSends
  BY <1>1, BoundsAssumption DEF Adds
<1> HIDE DEF call, list
<1>5. agent'[a] = call /\ DOMAIN agent' = Agents /\ \A b \in Agents \ {a} : agent'[b] = agent[b]
  BY <1>1, <1>4
<1>6. CallOK(agent[a])'
  <2>1. RequestsOK(<<>>)
    BY FS_EmptySet DEF RequestsOK
  <2>2. IdleAgent.seen \in [status : Statuses, count : Nat]
    BY DEF IdleAgent, Seen, NoSession, Statuses
  <2>3. 0 \in 0 .. sends'
    BY <1>1, <1>4
  <2>4. QED
    BY <1>3, <1>5, <2>1, <2>2, <2>3 DEF CallOK
<1>7. ASSUME NEW b \in Agents \ {a} PROVE CallOK(agent[b])' /\ CallInv(b)'
  <2>1. CallOK(agent[b]) /\ CallInv(b) /\ agent'[b] = agent[b]
    BY <1>1, <1>5
  <2>2. agent[b].at \in 0 .. sends' /\ agent[b].at # sends'
    BY <1>1, <1>4, <2>1 DEF CallOK
  <2>3. CallOK(agent[b])'
    BY <2>1, <2>2 DEF CallOK
  <2>4. QED
    BY <2>1, <2>2, <2>3 DEF CallInv, LooksOK, AsksOnce
<1>8. CallInv(a)'
  <2>1. agent'[a].pc = "added" /\ agent'[a].list = <<>>
    BY <1>3, <1>5
  <2>2. DOMAIN agent'[a].list = {}
    BY <2>1
  <2>3. QED
    BY <2>1, <2>2 DEF CallInv, LooksOK, AsksOnce
<1>9. mixed' \in BOOLEAN /\ missed' \in BOOLEAN
  <2>1. mixed' = Mixes(a) /\ missed' = FALSE
    BY DEF Adds
  <2>2. QED
    BY <2>1, Zenon DEF Mixes
<1>10. UNCHANGED <<code, decided, listed, screen, edits, shown>>
  BY DEF Adds
<1>11. \A b \in Agents : CallOK(agent[b])' /\ CallInv(b)'
  BY <1>6, <1>7, <1>8
<1>12. TypeOK'
  BY <1>1, <1>2, <1>4, <1>5, <1>9, <1>10, <1>11 DEF TypeOK, SessionFacts
<1>13. ApprovedWasSeen'
  BY <1>10, SameDecisions
<1>14. QED
  BY <1>2, <1>11, <1>12, <1>13 DEF ReviewInv, SessionFacts

LEMMA AddListInv ==
  ASSUME ReviewInv, NEW a \in Agents, AddList(a)
  PROVE  ReviewInv'
<1>1. CASE Adds(a)
  BY <1>1, AddedInv
<1>2. CASE agent' = [agent EXCEPT ![a] = IdleAgent] /\ UNCHANGED <<sess, sends, missed, mixed>>
  <2>1. UNCHANGED <<code, decided, listed, screen, edits, shown>>
    BY DEF AddList
  <2>2. QED
    BY <1>2, <2>1, IdlesInv DEF ReviewInv, TypeOK
<1>3. QED
  BY <1>1, <1>2 DEF AddList, Adds

-----------------------------------------------------------------------------
\* Steps on the session that keep its requests and feedback.

LEMMA PartsKept ==
  ASSUME ReviewInv, DOMAIN sess' = DOMAIN NoSession, sess'.status \in Statuses \ {"none"},
         sess'.count = sess.count, sess'.reqs = sess.reqs, sess'.fb = sess.fb,
         sess'.werr \in BOOLEAN, UNCHANGED <<shown, mixed>>, NoDeadEnd', RestoreFits'
  PROVE  SessionFacts'
<1>1. SessionOK(sess) /\ AnswersFit /\ AnswersShown /\ OneAnswerPerComment
  BY DEF ReviewInv, TypeOK
<1>2. SessionOK(sess')
  BY <1>1 DEF SessionOK
<1>3. AnswersFit' /\ AnswersShown' /\ OneAnswerPerComment'
  BY <1>1 DEF AnswersFit, AnswersShown, OneAnswerPerComment
<1>4. QED
  BY <1>2, <1>3 DEF SessionFacts, SessionOK

\* The rest of such a step, when it is not on the code, the decisions or a screen.
LEMMA SameRest ==
  ASSUME ReviewInv, UNCHANGED <<code, decided, screen, shown>>
  PROVE  /\ (DOMAIN screen = Screens /\ \A r \in Screens : ScreenOK(screen[r]))'
         /\ (code \in [Comments -> Texts \cup {Gone}])'
         /\ (decided \in [Comments -> [texts : SUBSET Texts, cut : BOOLEAN]])'
         /\ (shown \in [Comments -> SUBSET Texts])'
         /\ ApprovedWasSeen'
BY SameDecisions DEF ReviewInv, TypeOK, ScreenOK

LEMMA DismissInv ==
  ASSUME ReviewInv, Dismiss
  PROVE  ReviewInv'
<1>1. sess.status = "waiting" /\ sess' = [sess EXCEPT !.status = "dismissed"]
  BY DEF Dismiss
<1>2. UNCHANGED <<code, decided, listed, agent, screen, edits, sends, shown, missed, mixed>>
  BY DEF Dismiss, history
<1>3. SessionOK(sess) /\ NoDeadEnd /\ listed \in BOOLEAN /\ missed \in BOOLEAN
  BY DEF ReviewInv, TypeOK
<1>4. /\ DOMAIN sess' = DOMAIN NoSession /\ sess'.status = "dismissed" /\ sess'.count = sess.count
      /\ sess'.reqs = sess.reqs /\ sess'.fb = sess.fb /\ sess'.werr = sess.werr
  BY <1>1, <1>3 DEF SessionOK, NoSession
<1>5. NoDeadEnd' /\ RestoreFits'
  BY <1>1, <1>3, <1>4 DEF NoDeadEnd, Waiting, RestoreFits, AllFed, AllAnswered
<1>6. sess'.status \in Statuses \ {"none"} /\ sess'.werr \in BOOLEAN
  BY <1>3, <1>4 DEF SessionOK, Statuses
<1>7. SessionFacts'
  BY <1>2, <1>4, <1>5, <1>6, PartsKept
<1>8. QED
  BY <1>1, <1>2, <1>3, <1>7, SameRest, SessionStep

LEMMA RestoreInv ==
  ASSUME ReviewInv, Restore
  PROVE  ReviewInv'
<1>1. sess.status = "dismissed" /\ sess' = [sess EXCEPT !.status = "waiting"] /\ ListingBecomes(TRUE)
  BY DEF Restore
<1>2. UNCHANGED <<code, decided, agent, screen, edits, sends, shown, mixed>>
  BY DEF Restore
<1>3. SessionOK(sess) /\ RestoreFits
  BY DEF ReviewInv, TypeOK
<1>4. /\ DOMAIN sess' = DOMAIN NoSession /\ sess'.status = "waiting" /\ sess'.count = sess.count
      /\ sess'.reqs = sess.reqs /\ sess'.fb = sess.fb /\ sess'.werr = sess.werr
  BY <1>1, <1>3 DEF SessionOK, NoSession
<1>5. NoDeadEnd' /\ RestoreFits'
  BY <1>1, <1>3, <1>4 DEF NoDeadEnd, Waiting, RestoreFits, AllFed, AllAnswered
<1>6. sess'.status \in Statuses \ {"none"} /\ sess'.werr \in BOOLEAN
  BY <1>3, <1>4 DEF SessionOK, Statuses
<1>7. SessionFacts'
  BY <1>2, <1>4, <1>5, <1>6, PartsKept
<1>8. listed' \in BOOLEAN /\ missed' \in BOOLEAN
  BY <1>1, ListingTypes
<1>9. QED
  BY <1>1, <1>2, <1>7, <1>8, SameRest, SessionStep

\* An edit changes no session: what it breaks, the next list or step 7 finds.
LEMMA EditInv ==
  ASSUME ReviewInv, NEW c \in Comments, NEW t \in Texts \cup {Gone}, Edit(c, t)
  PROVE  ReviewInv'
<1>1. code' = [code EXCEPT ![c] = t] /\ edits < MaxEdits /\ edits' = edits + 1
  BY DEF Edit
<1>2. UNCHANGED <<decided, sess, listed, agent, screen, sends, shown, missed, mixed>>
  BY DEF Edit, history
<1>3. AnswersFit' /\ NoDeadEnd' /\ AnswersShown' /\ RestoreFits' /\ OneAnswerPerComment'
  BY <1>2, SameSession
<1>4. ApprovedWasSeen'
  BY <1>2, SameDecisions
<1>5. \A a \in Agents : CallInv(a)'
  BY <1>2, SameCalls
<1>6. edits' \in 0 .. MaxEdits
  BY <1>1, BoundsAssumption DEF ReviewInv, TypeOK
<1>7. code' \in [Comments -> Texts \cup {Gone}]
  BY <1>1 DEF ReviewInv, TypeOK
<1>8. TypeOK'
  BY <1>2, <1>6, <1>7 DEF ReviewInv, TypeOK, SessionOK, CallOK, ScreenOK
<1>9. QED
  BY <1>3, <1>4, <1>5, <1>8 DEF ReviewInv

-----------------------------------------------------------------------------
\* The screens.

LEMMA AtOK ==
  ASSUME NEW pc \in {"closed", "review", "saved", "handed", "refused", "write"}
  PROVE  ScreenOK(At(pc))
BY DEF ScreenOK, At, ClosedScreen

LEMMA ShowOK ==
  ASSUME ReviewInv, NEW s
  PROVE  ScreenOK(Show(s))
BY DEF ReviewInv, TypeOK, SessionOK, RequestsOK, ScreenOK, Show, ClosedScreen

LEMMA MoveOK ==
  ASSUME ReviewInv, NEW s \in Screens, NEW pc \in {"saved", "handed", "refused"}, Move(s, pc)
  PROVE  (DOMAIN screen = Screens /\ \A r \in Screens : ScreenOK(screen[r]))'
<1> DEFINE new == [screen[s] EXCEPT !.pc = pc]
<1>1. ScreenOK(screen[s]) /\ TypeOK
  BY DEF ReviewInv, TypeOK
<1>2. DOMAIN new = DOMAIN screen[s] /\ new.pc = pc /\ new.reqs = screen[s].reqs
  BY <1>1 DEF ScreenOK, ClosedScreen
<1>3. screen' = [screen EXCEPT ![s] = new]
  BY DEF Move
<1> HIDE DEF new
<1>4. ScreenOK(new)
  BY <1>1, <1>2 DEF ScreenOK
<1>5. QED
  BY <1>1, <1>3, <1>4, OneScreenMoves

LEMMA OpenInv ==
  ASSUME ReviewInv, NEW s \in Screens, Open(s)
  PROVE  ReviewInv'
<1> DEFINE new == IF AllFed(sess) THEN At("write") ELSE Show(s)
<1>1. ScreenOK(new)
  BY AtOK, ShowOK
<1>2. screen' = [screen EXCEPT ![s] = new]
  BY DEF Open
<1>3. UNCHANGED <<code, decided, sess, listed, agent, edits, sends, history>>
  BY DEF Open
<1> HIDE DEF new
<1>4. QED
  BY <1>1, <1>2, <1>3, OnlyScreen

LEMMA CloseInv ==
  ASSUME ReviewInv, NEW s \in Screens, Close(s)
  PROVE  ReviewInv'
<1>1. ScreenOK(ClosedScreen)
  BY DEF ScreenOK, ClosedScreen
<1>2. QED
  BY <1>1, OnlyScreen DEF Close

LEMMA ReloadInv ==
  ASSUME ReviewInv, NEW s \in Screens, Reload(s)
  PROVE  ReviewInv'
<1> DEFINE new == CASE sess.status # "waiting" -> ClosedScreen
                    [] sess.status = "waiting" /\ AllAnswered(sess) /\ screen[s].pc # "refused" -> At("write")
                    [] OTHER -> Show(s)
<1>1. ScreenOK(ClosedScreen)
  BY DEF ScreenOK, ClosedScreen
<1>2. ScreenOK(new)
  BY <1>1, AtOK, ShowOK
<1>3. screen' = [screen EXCEPT ![s] = new]
  BY DEF Reload
<1>4. UNCHANGED <<code, decided, sess, listed, agent, edits, sends, history>>
  BY DEF Reload
<1> HIDE DEF new
<1>5. QED
  BY <1>2, <1>3, <1>4, OnlyScreen

LEMMA WriteNothingInv ==
  ASSUME ReviewInv, NEW s \in Screens, WriteNothing(s)
  PROVE  ReviewInv'
<1>1. screen' = [screen EXCEPT ![s] = At("closed")]
  BY DEF WriteNothing, Write
<1>2. UNCHANGED <<code, decided, sess, listed, agent, edits, sends, history>>
  BY DEF WriteNothing
<1>3. QED
  BY <1>1, <1>2, AtOK, OnlyScreen

LEMMA FeedbackKinds ==
  ASSUME NEW f \in Feedback
  PROVE  f.kind = "note" \/ f.kind = "answer"
BY DEF Feedback

\* A session with feedback on some requests, whatever its status becomes.
LEMMA FedFits ==
  ASSUME ReviewInv, NEW given, \A i \in DOMAIN given : given[i] \in Feedback /\ i \in DOMAIN sess.reqs,
         DOMAIN sess' = DOMAIN NoSession, sess'.status \in {"waiting", "notes"},
         sess'.count = sess.count, sess'.reqs = sess.reqs, sess'.fb = Over(sess.fb, given),
         sess'.werr \in BOOLEAN, UNCHANGED mixed,
         \A c \in Comments : shown[c] \subseteq shown'[c],
         \A i \in DOMAIN given : given[i].kind = "answer"
           => given[i].seen = sess.reqs[i] /\ given[i].seen.text \in shown'[given[i].seen.c],
         NoDeadEnd'
  PROVE  SessionFacts'
<1> DEFINE fb == Over(sess.fb, given)
<1>1. SessionOK(sess) /\ AnswersFit /\ AnswersShown /\ OneAnswerPerComment
  BY DEF ReviewInv, TypeOK
<1>2. /\ DOMAIN fb = DOMAIN sess.fb \cup DOMAIN given
      /\ \A i \in DOMAIN given : fb[i] = given[i]
      /\ \A i \in DOMAIN sess.fb : i \notin DOMAIN given => fb[i] = sess.fb[i]
  BY OverFacts
<1>3. sess'.fb = fb
  OBVIOUS
<1> HIDE DEF fb
<1>4. SessionOK(sess')
  <2>1. \A i \in DOMAIN fb : fb[i] \in Feedback
    BY <1>1, <1>2 DEF SessionOK
  <2>2. sess'.status \in Statuses
    BY DEF Statuses
  <2>3. QED
    BY <1>1, <1>3, <2>1, <2>2 DEF SessionOK
<1>5. AnswersFit' /\ RestoreFits' /\ OneAnswerPerComment'
  <2>1. DOMAIN fb \subseteq DOMAIN sess.reqs
    BY <1>1, <1>2 DEF AnswersFit
  <2>2. \A i \in DOMAIN fb : IsAnswer(fb, i) => fb[i].seen = sess.reqs[i]
    BY <1>1, <1>2 DEF AnswersFit, IsAnswer
  <2>3. QED
    BY <1>1, <1>3, <2>1, <2>2 DEF AnswersFit, RestoreFits, OneAnswerPerComment
<1>6. AnswersShown'
  <2>1. ASSUME NEW i \in DOMAIN fb, IsAnswer(fb, i) PROVE fb[i].seen.text \in shown'[fb[i].seen.c]
    <3>1. CASE i \in DOMAIN given
      BY <1>2, <2>1, <3>1 DEF IsAnswer
    <3>2. CASE i \notin DOMAIN given
      <4>1. i \in DOMAIN sess.fb /\ fb[i] = sess.fb[i] /\ IsAnswer(sess.fb, i)
        BY <1>2, <2>1, <3>2 DEF IsAnswer
      <4>2. fb[i].seen = sess.reqs[i] /\ i \in DOMAIN sess.reqs
        BY <1>1, <4>1 DEF AnswersFit
      <4>3. fb[i].seen.c \in Comments
        BY <1>1, <4>2 DEF SessionOK, RequestsOK, Request
      <4>4. QED
        BY <1>1, <4>1, <4>3 DEF AnswersShown
    <3>3. QED
      BY <3>1, <3>2
  <2>2. QED
    BY <1>3, <2>1 DEF AnswersShown
<1>7. QED
  BY <1>4, <1>5, <1>6 DEF SessionFacts, SessionOK

LEMMA WithFeedbackParts ==
  ASSUME SessionOK(sess), sess.status = "waiting", NEW i, NEW feedback,
         sess' = WithFeedback(i, feedback)
  PROVE  LET fb == Over(sess.fb, [j \in {i} |-> feedback])
             back == DOMAIN sess.reqs \subseteq DOMAIN fb /\ \E k \in DOMAIN fb : IsNote(fb, k)
         IN  /\ DOMAIN sess' = DOMAIN NoSession /\ sess'.count = sess.count
             /\ sess'.reqs = sess.reqs /\ sess'.fb = fb
             /\ back => sess'.status = "notes" /\ sess'.werr = FALSE
             /\ ~back => sess'.status = "waiting" /\ sess'.werr = sess.werr
<1> DEFINE fb == Over(sess.fb, [j \in {i} |-> feedback])
           fed == [sess EXCEPT !.fb = fb]
           back == DOMAIN sess.reqs \subseteq DOMAIN fb /\ \E k \in DOMAIN fb : IsNote(fb, k)
<1>1. sess' = IF AllFed(fed) /\ NotedIn(fed) # {} THEN [fed EXCEPT !.status = "notes", !.werr = FALSE]
              ELSE fed
  BY DEF WithFeedback
<1> HIDE DEF fb
<1>2. /\ DOMAIN fed = DOMAIN NoSession /\ fed.status = "waiting" /\ fed.count = sess.count
      /\ fed.reqs = sess.reqs /\ fed.werr = sess.werr /\ fed.fb = fb
  BY DEF SessionOK, NoSession
<1> HIDE DEF fed
<1>3. AllFed(fed) /\ NotedIn(fed) # {} <=> back
  BY <1>2 DEF AllFed, NotedIn
<1>4. CASE back
  <2>1. sess' = [fed EXCEPT !.status = "notes", !.werr = FALSE]
    BY <1>1, <1>3, <1>4
  <2>2. QED
    BY <1>2, <1>4, <2>1 DEF fb, NoSession
<1>5. CASE ~back
  <2>1. sess' = fed
    BY <1>1, <1>3, <1>5
  <2>2. QED
    BY <1>2, <1>5, <2>1 DEF fb
<1>6. QED
  BY <1>4, <1>5

LEMMA GiveInv ==
  ASSUME ReviewInv, NEW s \in Screens, NEW i \in DOMAIN screen[s].reqs, NEW feedback \in Feedback,
         feedback.kind = "answer" => feedback.seen = screen[s].reqs[i],
         Give(s, i, feedback)
  PROVE  ReviewInv'
<1>1. UNCHANGED <<code, decided, agent, edits, sends, missed, mixed>>
  BY DEF Give
<1>2. /\ SessionOK(sess) /\ AnswersFit /\ listed \in BOOLEAN /\ missed \in BOOLEAN
      /\ shown \in [Comments -> SUBSET Texts] /\ ScreenOK(screen[s])
  BY DEF ReviewInv, TypeOK
<1>3. CASE Refused(s) /\ UNCHANGED <<sess, listed, shown>>
  <2>1. (DOMAIN screen = Screens /\ \A r \in Screens : ScreenOK(screen[r]))'
    BY <1>3, MoveOK DEF Refused
  <2>2. AnswersFit' /\ NoDeadEnd' /\ AnswersShown' /\ RestoreFits' /\ OneAnswerPerComment'
    BY <1>1, <1>3, SameSession
  <2>3. SessionFacts'
    BY <1>2, <1>3, <2>2 DEF SessionFacts, SessionOK
  <2>4. ApprovedWasSeen'
    BY <1>1, <1>3, SameDecisions
  <2>5. QED
    BY <1>1, <1>2, <1>3, <2>1, <2>3, <2>4, SessionStep DEF ReviewInv, TypeOK
<1>4. CASE /\ TakesFeedback(s, i)
           /\ sess' = WithFeedback(i, feedback)
           /\ \/ /\ listed' = (listed /\ sess'.status # "notes")
                 /\ Move(s, IF sess'.status = "notes" THEN "handed" ELSE "saved")
              \/ /\ sess'.status = "notes" /\ "listing" \in Losses
                 /\ Refused(s)
                 /\ UNCHANGED listed
           /\ shown' = IF feedback.kind = "answer"
                       THEN [shown EXCEPT ![screen[s].reqs[i].c] = @ \cup {screen[s].reqs[i].text}]
                       ELSE shown
  <2> DEFINE given == [j \in {i} |-> feedback]
             fb == Over(sess.fb, given)
             back == DOMAIN sess.reqs \subseteq DOMAIN fb /\ \E k \in DOMAIN fb : IsNote(fb, k)
             req == screen[s].reqs[i]
  <2>1. sess.status = "waiting" /\ i \in DOMAIN sess.reqs /\ sess.reqs[i] = req
    BY <1>4 DEF TakesFeedback
  <2>2. req \in Request /\ req.c \in Comments /\ req.text \in Texts
    <3>1. req \in Request
      BY <1>2, <2>1 DEF ScreenOK
    <3> HIDE DEF req
    <3>2. QED
      BY <3>1 DEF Request
  <2>3. DOMAIN given = {i} /\ given[i] = feedback
    OBVIOUS
  <2>4. /\ DOMAIN sess' = DOMAIN NoSession /\ sess'.count = sess.count
        /\ sess'.reqs = sess.reqs /\ sess'.fb = fb
        /\ back => sess'.status = "notes" /\ sess'.werr = FALSE
        /\ ~back => sess'.status = "waiting" /\ sess'.werr = sess.werr
    BY <1>2, <1>4, <2>1, WithFeedbackParts
  <2>5. /\ DOMAIN fb = DOMAIN sess.fb \cup DOMAIN given
        /\ \A k \in DOMAIN given : fb[k] = given[k]
        /\ \A k \in DOMAIN sess.fb : k \notin DOMAIN given => fb[k] = sess.fb[k]
    BY OverFacts
  <2>6. shown' = IF feedback.kind = "answer" THEN [shown EXCEPT ![req.c] = @ \cup {req.text}] ELSE shown
    BY <1>4
  <2>7. (DOMAIN screen = Screens /\ \A r \in Screens : ScreenOK(screen[r]))'
    BY <1>4, MoveOK DEF Refused
  <2>8. listed' \in BOOLEAN
    <3>1. CASE listed' = (listed /\ sess'.status # "notes")
      BY <3>1, Zenon
    <3>2. CASE UNCHANGED listed
      BY <1>2, <3>2
    <3>3. QED
      BY <1>4, <3>1, <3>2
  <2> HIDE DEF given, fb, req
  <2>9. shown' \in [Comments -> SUBSET Texts] /\ \A c \in Comments : shown[c] \subseteq shown'[c]
    BY <1>2, <2>2, <2>6
  <2>10. feedback.kind = "answer" => feedback.seen = req /\ req.text \in shown'[req.c]
    BY <1>2, <2>2, <2>6 DEF req
  <2>11. sess'.werr \in BOOLEAN
    <3>1. sess.werr \in BOOLEAN
      BY <1>2 DEF SessionOK
    <3>2. QED
      BY <2>4, <3>1, Zenon
  <2>12. \A k \in DOMAIN fb : fb[k] \in Feedback
    BY <1>2, <2>3, <2>5 DEF SessionOK
  <2>13. NoDeadEnd'
    <3>1. CASE back
      <4>1. DOMAIN sess'.reqs \subseteq DOMAIN sess'.fb /\ sess'.status = "notes" /\ ~sess'.werr
        BY <2>4, <3>1
      <4>2. PICK k \in DOMAIN fb : IsNote(fb, k)
        BY <3>1
      <4>3. k \in NotedIn(sess')
        BY <2>4, <4>2 DEF NotedIn
      <4>4. QED
        BY <4>1, <4>3 DEF NoDeadEnd, Waiting, AllFed, NotedIn
    <3>2. CASE ~(DOMAIN sess.reqs \subseteq DOMAIN fb)
      BY <2>4, <3>2 DEF NoDeadEnd, Waiting
    <3>3. CASE DOMAIN sess.reqs \subseteq DOMAIN fb /\ \A k \in DOMAIN fb : ~IsNote(fb, k)
      <4>1. \A k \in DOMAIN sess.reqs : IsAnswer(fb, k)
        BY <2>12, <3>3, FeedbackKinds DEF IsNote, IsAnswer
      <4>2. sess'.status = "waiting"
        BY <2>4, <3>3
      <4>3. QED
        BY <2>4, <4>1, <4>2 DEF NoDeadEnd, AllAnswered
    <3>4. QED
      BY <3>1, <3>2, <3>3
  <2>14. SessionFacts'
    <3>1. sess'.status \in {"waiting", "notes"}
      BY <2>4
    <3>2. \A k \in DOMAIN given : given[k] \in Feedback /\ k \in DOMAIN sess.reqs
      BY <2>1, <2>3
    <3>3. \A k \in DOMAIN given : given[k].kind = "answer"
            => given[k].seen = sess.reqs[k] /\ given[k].seen.text \in shown'[given[k].seen.c]
      BY <2>1, <2>3, <2>10
    <3>4. QED
      BY <1>1, <2>4, <2>9, <2>11, <2>13, <3>1, <3>2, <3>3, FedFits DEF fb
  <2>15. ApprovedWasSeen'
    BY <1>1, <2>9, SameDecisions
  <2>16. QED
    BY <1>1, <1>2, <2>1, <2>7, <2>8, <2>9, <2>14, <2>15, SessionStep DEF ReviewInv, TypeOK
<1>5. QED
  BY <1>3, <1>4 DEF Give

LEMMA GiveAnswerInv ==
  ASSUME ReviewInv, NEW s \in Screens, GiveAnswer(s)
  PROVE  ReviewInv'
<1>1. PICK i \in DOMAIN screen[s].reqs, answer \in Answers :
        Give(s, i, [kind |-> "answer", answer |-> answer, seen |-> screen[s].reqs[i]])
  BY DEF GiveAnswer
<1>2. screen[s].reqs[i] \in Request
  BY DEF ReviewInv, TypeOK, ScreenOK
<1> DEFINE feedback == [kind |-> "answer", answer |-> answer, seen |-> screen[s].reqs[i]]
<1>3. feedback \in Feedback /\ feedback.seen = screen[s].reqs[i]
  BY <1>2 DEF Feedback
<1>4. Give(s, i, feedback)
  BY <1>1
<1> HIDE DEF feedback
<1>5. QED
  BY <1>3, <1>4, GiveInv

LEMMA GiveNoteInv ==
  ASSUME ReviewInv, NEW s \in Screens, GiveNote(s)
  PROVE  ReviewInv'
<1>1. PICK i \in DOMAIN screen[s].reqs : Give(s, i, Note)
  BY DEF GiveNote
<1>2. Note \in Feedback /\ Note.kind # "answer"
  BY DEF Note, Feedback
<1>3. QED
  BY <1>1, <1>2, GiveInv

LEMMA RemoveNoteInv ==
  ASSUME ReviewInv, NEW s \in Screens, RemoveNote(s)
  PROVE  ReviewInv'
<1>1. PICK i \in screen[s].noted :
        \/ /\ TakesFeedback(s, i)
           /\ sess' = IF IsNote(sess.fb, i) THEN [sess EXCEPT !.fb = Without(@, {i})] ELSE sess
           /\ Move(s, "saved")
        \/ Refused(s) /\ UNCHANGED sess
  BY DEF RemoveNote
<1>2. UNCHANGED <<code, decided, listed, agent, edits, sends, shown, missed, mixed>>
  BY DEF RemoveNote, history
<1>3. /\ SessionOK(sess) /\ AnswersFit /\ AnswersShown /\ OneAnswerPerComment
      /\ listed \in BOOLEAN /\ missed \in BOOLEAN
  BY DEF ReviewInv, TypeOK
<1>4. (DOMAIN screen = Screens /\ \A r \in Screens : ScreenOK(screen[r]))'
  BY <1>1, MoveOK DEF Refused
<1>5. CASE sess' = sess
  <2>1. AnswersFit' /\ NoDeadEnd' /\ AnswersShown' /\ RestoreFits' /\ OneAnswerPerComment'
    BY <1>2, <1>5, SameSession
  <2>2. SessionFacts'
    BY <1>3, <1>5, <2>1 DEF SessionFacts, SessionOK
  <2>3. ApprovedWasSeen'
    BY <1>2, SameDecisions
  <2>4. QED
    BY <1>2, <1>3, <1>4, <1>5, <2>2, <2>3, SessionStep DEF ReviewInv, TypeOK
<1>6. CASE TakesFeedback(s, i) /\ sess' = [sess EXCEPT !.fb = Without(sess.fb, {i})]
  <2> DEFINE fb == Without(sess.fb, {i})
  <2>1. DOMAIN fb = DOMAIN sess.fb \ {i} /\ \A k \in DOMAIN fb : fb[k] = sess.fb[k]
    BY DEF Without
  <2> HIDE DEF fb
  <2>2. /\ DOMAIN sess' = DOMAIN NoSession /\ sess'.status = sess.status /\ sess'.count = sess.count
        /\ sess'.reqs = sess.reqs /\ sess'.fb = fb /\ sess'.werr = sess.werr
    BY <1>3, <1>6 DEF SessionOK, NoSession, fb
  <2>3. sess.status = "waiting" /\ i \in DOMAIN sess.reqs
    BY <1>6 DEF TakesFeedback
  <2>4. SessionOK(sess')
    BY <1>3, <2>1, <2>2 DEF SessionOK
  <2>5. AnswersFit' /\ AnswersShown'
    BY <1>2, <1>3, <2>1, <2>2, <2>3 DEF AnswersFit, AnswersShown, IsAnswer
  <2>6. NoDeadEnd' /\ RestoreFits' /\ OneAnswerPerComment'
    <3>1. i \in DOMAIN sess'.reqs \ DOMAIN sess'.fb
      BY <2>1, <2>2, <2>3
    <3>2. QED
      BY <1>2, <1>3, <2>2, <2>3, <3>1 DEF NoDeadEnd, Waiting, RestoreFits, OneAnswerPerComment
  <2>7. SessionFacts'
    BY <2>4, <2>5, <2>6 DEF SessionFacts, SessionOK
  <2>8. ApprovedWasSeen'
    BY <1>2, SameDecisions
  <2>9. QED
    BY <1>2, <1>3, <1>4, <2>3, <2>7, <2>8, SessionStep DEF ReviewInv, TypeOK
<1>7. QED
  BY <1>1, <1>5, <1>6

-----------------------------------------------------------------------------
\* Step 7.

LEMMA WriteScreens ==
  ASSUME ReviewInv, NEW s \in Screens, Write(s, "closed")
  PROVE  (DOMAIN screen = Screens /\ \A r \in Screens : ScreenOK(screen[r]))'
BY AtOK, OneScreenMoves DEF Write, ReviewInv

\* The first file in which a comment changed has a request in it.
LEMMA FirstFile ==
  ASSUME TypeOK, MismatchFiles # {}
  PROVE  \E i \in DOMAIN sess.reqs :
           FileOf[sess.reqs[i].c] = (CHOOSE f \in MismatchFiles : \A g \in MismatchFiles : f <= g)
<1>1. \A i \in DOMAIN sess.reqs : FileOf[sess.reqs[i].c] \in Nat
  BY CommentsAssumption DEF TypeOK, SessionOK, RequestsOK, Request
<1>2. MismatchFiles \in SUBSET Nat
  BY <1>1 DEF MismatchFiles
<1>3. \E f \in MismatchFiles : \A g \in MismatchFiles : f <= g
  BY <1>2, LeastNumber
<1>4. (CHOOSE f \in MismatchFiles : \A g \in MismatchFiles : f <= g) \in MismatchFiles
  BY <1>3
<1>5. QED
  BY <1>4 DEF MismatchFiles

LEMMA ReturnToAgentInv ==
  ASSUME ReviewInv, NEW s \in Screens, ReturnToAgent(s)
  PROVE  ReviewInv'
<1> DEFINE file == CHOOSE f \in MismatchFiles : \A g \in MismatchFiles : f <= g
           noted == {i \in DOMAIN sess.reqs : FileOf[sess.reqs[i].c] = file}
           given == [i \in noted |-> Note]
<1>1. /\ CanWrite(s) /\ MismatchFiles # {} /\ Write(s, "closed")
      /\ UNCHANGED <<code, decided, agent, edits, sends, shown, mixed>>
  BY DEF ReturnToAgent
<1>2. /\ SessionOK(sess) /\ AnswersFit /\ TypeOK
  BY DEF ReviewInv, TypeOK
<1>3. (DOMAIN screen = Screens /\ \A r \in Screens : ScreenOK(screen[r]))'
  BY <1>1, WriteScreens
<1>4. CASE UNCHANGED <<sess, listed, missed>>
  <2>1. UNCHANGED <<code, decided, sess, listed, agent, edits, sends, history>>
    BY <1>1, <1>4 DEF history
  <2>2. QED
    BY <1>1, <2>1, AtOK, OnlyScreen DEF Write
<1>5. CASE /\ sess' = [sess EXCEPT !.status = "notes", !.werr = FALSE, !.fb = Over(sess.fb, given)]
           /\ ListingBecomes(FALSE)
  <2> DEFINE fb == Over(sess.fb, given)
  <2>1. sess.status = "waiting" /\ AllAnswered(sess)
    BY <1>1 DEF CanWrite
  <2>2. PICK i \in DOMAIN sess.reqs : i \in noted
    BY <1>1, <1>2, FirstFile
  <2>3. DOMAIN given = noted /\ \A k \in noted : given[k] = Note
    OBVIOUS
  <2>4. noted \subseteq DOMAIN sess.reqs
    OBVIOUS
  <2> HIDE DEF noted, given
  <2>5. /\ DOMAIN fb = DOMAIN sess.fb \cup noted /\ \A k \in noted : fb[k] = Note
    <3>1. DOMAIN fb = DOMAIN sess.fb \cup DOMAIN given /\ \A k \in DOMAIN given : fb[k] = given[k]
      BY OverFacts
    <3> HIDE DEF fb
    <3>2. QED
      BY <2>3, <3>1
  <2> HIDE DEF fb
  <2>6. /\ DOMAIN sess' = DOMAIN NoSession /\ sess'.status = "notes" /\ sess'.count = sess.count
        /\ sess'.reqs = sess.reqs /\ sess'.fb = fb /\ sess'.werr = FALSE
    BY <1>2, <1>5 DEF SessionOK, NoSession, fb
  <2>7. Note \in Feedback /\ Note.kind = "note"
    BY DEF Note, Feedback
  <2>8. NoDeadEnd'
    <3>1. \A k \in DOMAIN sess.reqs : k \in DOMAIN fb
      BY <2>1, <2>5 DEF AllAnswered, IsAnswer
    <3>2. i \in NotedIn(sess')
      BY <2>2, <2>5, <2>6, <2>7 DEF NotedIn, IsNote
    <3>3. QED
      BY <2>6, <3>1, <3>2 DEF NoDeadEnd, Waiting, AllFed, NotedIn
  <2>9. SessionFacts'
    <3>1. \A k \in DOMAIN given : given[k] \in Feedback /\ k \in DOMAIN sess.reqs /\ given[k].kind # "answer"
      BY <2>3, <2>4, <2>7
    <3>2. sess'.werr \in BOOLEAN
      BY <2>6, Zenon
    <3>3. \A c \in Comments : shown[c] \subseteq shown'[c]
      BY <1>1
    <3>4. QED
      BY <1>1, <2>6, <2>8, <3>1, <3>2, <3>3, FedFits DEF fb
  <2>10. listed' \in BOOLEAN /\ missed' \in BOOLEAN
    BY <1>5, ListingTypes
  <2>11. QED
    BY <1>1, <1>3, <2>1, <2>9, <2>10, SameDecisions, SessionStep DEF ReviewInv, TypeOK
<1>6. QED
  BY <1>4, <1>5 DEF ReturnToAgent

\* What step 7 writes, when every request is answered: its own words or none.
LEMMA WrittenFacts ==
  ASSUME TypeOK, AnswersFit, AnswersShown, AllAnswered(sess), NEW c \in Comments, RequestOf(c) # {}
  PROVE  NewCode[c] = Gone \/ NewCode[c] \in Texts \cap shown[c]
<1> DEFINE i == CHOOSE k \in RequestOf(c) : TRUE
<1>1. i \in DOMAIN sess.reqs /\ sess.reqs[i].c = c
  BY DEF RequestOf, AskAbout
<1>2. NewCode[c] = NewText(i)
  BY DEF NewCode
<1> HIDE DEF i
<1>3. sess.fb[i].seen = sess.reqs[i] /\ sess.reqs[i].text \in shown[c]
  BY <1>1 DEF AllAnswered, AnswersFit, AnswersShown, IsAnswer
<1>4. sess.reqs[i].text \in Texts
  BY <1>1 DEF TypeOK, SessionOK, RequestsOK, Request
<1>5. QED
  BY <1>2, <1>3, <1>4 DEF NewText

LEMMA NewCodeOK ==
  ASSUME TypeOK, AnswersFit, AnswersShown, AllAnswered(sess)
  PROVE  NewCode \in [Comments -> Texts \cup {Gone}]
<1>1. ASSUME NEW c \in Comments PROVE NewCode[c] \in Texts \cup {Gone}
  <2>1. CASE RequestOf(c) # {}
    BY <2>1, WrittenFacts
  <2>2. CASE RequestOf(c) = {}
    BY <2>2 DEF NewCode, TypeOK
  <2>3. QED
    BY <2>1, <2>2
<1>2. NewCode = [c \in Comments |-> NewCode[c]]
  BY DEF NewCode
<1>3. QED
  BY <1>1, <1>2

LEMMA NewDecisionsOK ==
  ASSUME TypeOK, AnswersFit, AnswersShown, AllAnswered(sess), ApprovedWasSeen
  PROVE  /\ NewDecisions \in [Comments -> [texts : SUBSET Texts, cut : BOOLEAN]]
         /\ \A c \in Comments : NewDecisions[c].texts \subseteq shown[c]
<1>1. ASSUME NEW c \in Comments
      PROVE  /\ NewDecisions[c] \in [texts : SUBSET Texts, cut : BOOLEAN]
             /\ NewDecisions[c].texts \subseteq shown[c]
  <2> DEFINE text == NewCode[c]
             new == [texts |-> decided[c].texts \cup ({text} \ {Gone}), cut |-> text = Gone]
  <2>1. decided[c] \in [texts : SUBSET Texts, cut : BOOLEAN] /\ decided[c].texts \subseteq shown[c]
    BY DEF TypeOK, ApprovedWasSeen
  <2>2. CASE c \in Named /\ RequestOf(c) # {}
    <3>1. NewDecisions[c] = new
      BY <2>2 DEF NewDecisions
    <3>2. text = Gone \/ text \in Texts \cap shown[c]
      BY <2>2, WrittenFacts
    <3> HIDE DEF text
    <3>3. new.texts \in SUBSET Texts /\ new.texts \subseteq shown[c]
      BY <2>1, <3>2
    <3>4. new \in [texts : SUBSET Texts, cut : BOOLEAN]
      BY <2>1, <3>2
    <3> HIDE DEF new
    <3>5. QED
      BY <3>1, <3>3, <3>4
  <2>3. CASE ~(c \in Named /\ RequestOf(c) # {})
    BY <2>1, <2>3 DEF NewDecisions
  <2>4. QED
    BY <2>2, <2>3
<1>2. NewDecisions = [c \in Comments |-> NewDecisions[c]]
  BY DEF NewDecisions
<1>3. QED
  BY <1>1, <1>2

\* A step of step 7 that keeps every request and answer.
LEMMA WrittenInv ==
  ASSUME ReviewInv, NEW s \in Screens, CanWrite(s), Write(s, "closed"), NEW st \in {"waiting", "writing", "done"},
         NEW err \in BOOLEAN, st # "waiting" => ~err,
         sess' = [sess EXCEPT !.status = st, !.werr = err],
         code' \in [Comments -> Texts \cup {Gone}], decided' \in {decided, NewDecisions},
         listed' \in BOOLEAN, missed' \in BOOLEAN, UNCHANGED <<agent, edits, sends, shown, mixed>>
  PROVE  ReviewInv'
<1>1. /\ TypeOK /\ SessionOK(sess) /\ AnswersFit /\ AnswersShown /\ ApprovedWasSeen
      /\ sess.status = "waiting" /\ AllAnswered(sess)
  BY DEF ReviewInv, TypeOK, CanWrite
<1>2. /\ DOMAIN sess' = DOMAIN NoSession /\ sess'.status = st /\ sess'.count = sess.count
      /\ sess'.reqs = sess.reqs /\ sess'.fb = sess.fb /\ sess'.werr = err
  BY <1>1 DEF SessionOK, NoSession
<1>3. NoDeadEnd' /\ RestoreFits'
  BY <1>1, <1>2 DEF NoDeadEnd, RestoreFits, AllAnswered
<1>4. sess'.status \in Statuses \ {"none"} /\ sess'.werr \in BOOLEAN
  <2>1. sess'.status \in Statuses \ {"none"}
    BY <1>2 DEF Statuses
  <2>2. sess'.werr \in BOOLEAN
    BY <1>2
  <2>3. QED
    BY <2>1, <2>2
<1>5. SessionFacts'
  BY <1>2, <1>3, <1>4, PartsKept
<1>6. /\ (decided \in [Comments -> [texts : SUBSET Texts, cut : BOOLEAN]])'
      /\ \A c \in Comments : decided'[c].texts \subseteq shown[c]
  <2>1. CASE decided' = decided
    BY <1>1, <2>1 DEF TypeOK, ApprovedWasSeen
  <2>2. CASE decided' = NewDecisions
    BY <1>1, <2>2, NewDecisionsOK
  <2>3. QED
    BY <2>1, <2>2
<1>7. ApprovedWasSeen'
  BY <1>6 DEF ApprovedWasSeen
<1>8. (shown \in [Comments -> SUBSET Texts])'
  BY <1>1 DEF TypeOK
<1>9. QED
  BY <1>1, <1>5, <1>6, <1>7, <1>8, WriteScreens, SessionStep

LEMMA WriteDoneInv ==
  ASSUME ReviewInv, NEW s \in Screens, WriteDone(s)
  PROVE  ReviewInv'
<1>1. /\ CanWrite(s) /\ Write(s, "closed") /\ code' = NewCode /\ decided' = NewDecisions
      /\ sess' = [sess EXCEPT !.status = "done", !.werr = FALSE]
      /\ ListingBecomes(FALSE) /\ UNCHANGED <<agent, edits, sends, shown, mixed>>
  BY DEF WriteDone
<1>2. code' \in [Comments -> Texts \cup {Gone}]
  BY <1>1, NewCodeOK DEF ReviewInv, CanWrite
<1>3. listed' \in BOOLEAN /\ missed' \in BOOLEAN
  BY <1>1, ListingTypes
<1>4. QED
  BY <1>1, <1>2, <1>3, WrittenInv

LEMMA WriteFailsInv ==
  ASSUME ReviewInv, NEW s \in Screens, WriteFails(s)
  PROVE  ReviewInv'
<1>1. /\ CanWrite(s) /\ Write(s, "closed") /\ sess' = [sess EXCEPT !.werr = TRUE]
      /\ UNCHANGED <<code, decided, listed, agent, edits, sends, shown, missed, mixed>>
  BY DEF WriteFails, history
<1>2. SessionOK(sess) /\ sess.status = "waiting"
  BY <1>1 DEF ReviewInv, TypeOK, CanWrite
<1>3. sess' = [sess EXCEPT !.status = "waiting", !.werr = TRUE]
  <2>1. DOMAIN sess = {"status", "count", "reqs", "fb", "werr"}
    BY <1>2 DEF SessionOK, NoSession
  <2>2. QED
    BY <1>1, <1>2, <2>1
<1>4. code' \in [Comments -> Texts \cup {Gone}] /\ listed' \in BOOLEAN /\ missed' \in BOOLEAN
  BY <1>1 DEF ReviewInv, TypeOK
<1>5. QED
  BY <1>1, <1>3, <1>4, WrittenInv

LEMMA WriteUnfinishedInv ==
  ASSUME ReviewInv, NEW s \in Screens, WriteUnfinished(s)
  PROVE  ReviewInv'
<1>1. /\ CanWrite(s) /\ Write(s, "closed") /\ decided' \in {decided, NewDecisions}
      /\ sess' = [sess EXCEPT !.status = "writing", !.werr = FALSE]
      /\ UNCHANGED <<listed, agent, edits, sends, shown, missed, mixed>>
  BY DEF WriteUnfinished, history
<1>2. PICK files : code' = [c \in Comments |-> IF FileOf[c] \in files THEN NewCode[c] ELSE code[c]]
  BY DEF WriteUnfinished
<1>3. NewCode \in [Comments -> Texts \cup {Gone}] /\ code \in [Comments -> Texts \cup {Gone}]
  BY <1>1, NewCodeOK DEF ReviewInv, TypeOK, CanWrite
<1>4. code' \in [Comments -> Texts \cup {Gone}]
  BY <1>2, <1>3
<1>5. listed' \in BOOLEAN /\ missed' \in BOOLEAN
  BY <1>1 DEF ReviewInv, TypeOK
<1>6. QED
  BY <1>1, <1>4, <1>5, WrittenInv

-----------------------------------------------------------------------------
\* The theorems.

LEMMA ReviewNext ==
  ASSUME ReviewInv, Next
  PROVE  ReviewInv'
<1>1. ASSUME NEW a \in Agents, See(a) \/ Build(a) \/ AddList(a) \/ AddToWaitingList(a) \/ AgentKilled(a)
      PROVE  ReviewInv'
  BY <1>1, SeeInv, BuildInv, AddListInv, AddToWaitingListInv, AgentKilledInv
<1>2. ASSUME NEW s \in Screens, Open(s) \/ Close(s) \/ GiveAnswer(s) \/ GiveNote(s) \/ RemoveNote(s)
      PROVE  ReviewInv'
  BY <1>2, OpenInv, CloseInv, GiveAnswerInv, GiveNoteInv, RemoveNoteInv
<1>3. ASSUME NEW s \in Screens, ScreenStep(s) PROVE ReviewInv'
  BY <1>3, ReloadInv, WriteNothingInv, ReturnToAgentInv, WriteDoneInv, WriteFailsInv,
     WriteUnfinishedInv DEF ScreenStep
<1>4. ASSUME NEW c \in Comments, NEW t \in Texts \cup {Gone}, Edit(c, t) PROVE ReviewInv'
  BY <1>4, EditInv
<1>5. QED
  BY <1>1, <1>2, <1>3, <1>4, DismissInv, RestoreInv DEF Next

LEMMA ReviewStutters ==
  ASSUME ReviewInv, UNCHANGED vars
  PROVE  ReviewInv'
<1>1. UNCHANGED <<code, decided, sess, listed, agent, screen, edits, sends, shown, missed, mixed>>
  BY DEF vars, history
<1>2. TypeOK'
  BY <1>1 DEF ReviewInv, TypeOK, SessionOK, CallOK, ScreenOK
<1>3. QED
  BY <1>1, <1>2, SameSession, SameDecisions, SameCalls DEF ReviewInv

\* The invariant holds in every reachable state.
THEOREM ReviewIsInv == Spec => []ReviewInv
<1>1. ReviewInv /\ [Next]_vars => ReviewInv'
  BY ReviewNext, ReviewStutters
<1>2. QED
  BY <1>1, ReviewInit, PTL DEF Spec

\* review.json fits together at every point between two operations on it, for any
\* calls and screens, edits, kills and failed saves: SessionFits.
THEOREM SessionAlwaysFits == Spec => []SessionFits
<1>1. ReviewInv => SessionFits
  BY DEF ReviewInv, SessionFits
<1>2. QED
  BY <1>1, ReviewIsInv, PTL

\* No text becomes an approved one that the user did not answer: ApprovedWasSeen.
THEOREM ApprovedOnlySeen == Spec => []ApprovedWasSeen
<1>1. ReviewInv => ApprovedWasSeen
  BY DEF ReviewInv
<1>2. QED
  BY <1>1, ReviewIsInv, PTL

\* Two of the waiting list's facts: who takes a worktree off it, and who means to put it on.
LEMMA ListedInit == Init => WaitingIsListed
BY DEF Init, NoSession, WaitingIsListed

LEMMA ListedStays ==
  ASSUME WaitingIsListed, sess'.status \in {"waiting", "writing"} => sess.status \in {"waiting", "writing"},
         listed => listed', missed => missed',
         \A a \in Agents : agent[a].pc = "added" => agent'[a].pc = "added" \/ listed' \/ missed'
  PROVE  WaitingIsListed'
BY DEF WaitingIsListed

LEMMA ListedCalls ==
  ASSUME TypeOK, WaitingIsListed, NEW a \in Agents,
         See(a) \/ Build(a) \/ AddList(a) \/ AddToWaitingList(a) \/ AgentKilled(a)
  PROVE  WaitingIsListed'
<1>1. DOMAIN agent = Agents
  BY DEF TypeOK
<1>2. ASSUME NEW call, agent' = [agent EXCEPT ![a] = call], agent[a].pc # "added",
             UNCHANGED <<sess, listed>>, missed => missed'
      PROVE  WaitingIsListed'
  <2>1. \A b \in Agents : agent[b].pc = "added" => agent'[b].pc = "added"
    BY <1>1, <1>2
  <2>2. QED
    BY <1>2, <2>1, ListedStays
<1>3. CASE See(a)
  <2>1. agent[a].pc # "added" /\ UNCHANGED <<sess, listed, missed>>
    BY <1>3 DEF See, history
  <2>2. QED
    BY <1>2, <1>3, <2>1 DEF See
<1>4. CASE Build(a)
  <2>1. agent[a].pc # "added" /\ UNCHANGED <<sess, listed, missed>>
    BY <1>4 DEF Build, history
  <2>2. QED
    BY <1>2, <1>4, <2>1 DEF Build
<1>5. CASE AddList(a)
  <2>1. CASE Adds(a)
    <3>1. agent' = [agent EXCEPT ![a] = [IdleAgent EXCEPT !.pc = "added"]]
      BY <2>1 DEF Adds
    <3>2. agent'[a].pc = "added"
      BY <1>1, <3>1 DEF IdleAgent
    <3>3. QED
      BY <3>2 DEF WaitingIsListed
  <2>2. CASE ~Adds(a)
    <3>1. /\ agent' = [agent EXCEPT ![a] = IdleAgent] /\ agent[a].pc # "added"
          /\ UNCHANGED <<sess, listed, missed>>
      BY <1>5, <2>2 DEF AddList, Adds
    <3>2. QED
      BY <1>2, <3>1
  <2>3. QED
    BY <2>1, <2>2
<1>6. CASE AddToWaitingList(a)
  <2>1. listed' \/ missed'
    BY <1>6 DEF AddToWaitingList, ListingBecomes
  <2>2. QED
    BY <2>1 DEF WaitingIsListed
<1>7. CASE AgentKilled(a)
  <2>1. missed' = (missed \/ agent[a].pc = "added") /\ UNCHANGED <<sess, listed>>
    BY <1>7 DEF AgentKilled
  <2>2. CASE agent[a].pc = "added"
    BY <2>1, <2>2 DEF WaitingIsListed
  <2>3. CASE agent[a].pc # "added"
    BY <1>2, <1>7, <2>1, <2>3 DEF AgentKilled
  <2>4. QED
    BY <2>2, <2>3
<1>8. QED
  BY <1>3, <1>4, <1>5, <1>6, <1>7

\* The screens end a listing only with the wait.
LEMMA ListedGive ==
  ASSUME TypeOK, WaitingIsListed, NEW s \in Screens, NEW i, NEW feedback, Give(s, i, feedback)
  PROVE  WaitingIsListed'
<1>1. UNCHANGED <<agent, missed>>
  BY DEF Give
<1>2. CASE UNCHANGED <<sess, listed>>
  BY <1>1, <1>2 DEF WaitingIsListed
<1>3. CASE sess.status = "waiting" /\ sess'.status # "notes" /\ listed' = (listed /\ sess'.status # "notes")
  BY <1>1, <1>3 DEF WaitingIsListed
<1>4. CASE sess'.status = "notes"
  BY <1>4 DEF WaitingIsListed
<1>5. QED
  BY <1>2, <1>3, <1>4 DEF Give, TakesFeedback

LEMMA ListedScreens ==
  ASSUME TypeOK, WaitingIsListed, NEW s \in Screens,
         \/ Open(s) \/ Close(s) \/ GiveAnswer(s) \/ GiveNote(s) \/ RemoveNote(s)
         \/ ScreenStep(s)
  PROVE  WaitingIsListed'
<1>1. CASE UNCHANGED <<sess, listed, agent, missed>>
  BY <1>1 DEF WaitingIsListed
<1>2. CASE sess'.status \notin {"waiting", "writing"}
  BY <1>2 DEF WaitingIsListed
<1>3. ASSUME sess.status = "waiting", UNCHANGED <<listed, agent, missed>> PROVE WaitingIsListed'
  BY <1>3 DEF WaitingIsListed
<1>4. CASE Open(s) \/ Close(s) \/ Reload(s) \/ WriteNothing(s)
  BY <1>1, <1>4 DEF Open, Close, Reload, WriteNothing, history
<1>5. CASE GiveAnswer(s) \/ GiveNote(s)
  BY <1>5, ListedGive DEF GiveAnswer, GiveNote
<1>6. CASE RemoveNote(s)
  BY <1>1, <1>3, <1>6 DEF RemoveNote, TakesFeedback, history
<1>7. CASE ReturnToAgent(s)
  <2>1. CASE UNCHANGED <<sess, listed, missed>>
    BY <1>1, <1>7, <2>1 DEF ReturnToAgent
  <2>2. CASE ~UNCHANGED <<sess, listed, missed>>
    <3>1. PICK fb : sess' = [sess EXCEPT !.status = "notes", !.werr = FALSE, !.fb = fb]
      BY <1>7, <2>2 DEF ReturnToAgent
    <3>2. sess'.status = "notes"
      BY <3>1 DEF TypeOK, SessionOK, NoSession
    <3>3. QED
      BY <1>2, <3>2
  <2>3. QED
    BY <2>1, <2>2
<1>8. CASE WriteDone(s)
  <2>1. sess'.status = "done"
    BY <1>8 DEF WriteDone, TypeOK, SessionOK, NoSession
  <2>2. QED
    BY <1>2, <2>1
<1>9. CASE WriteFails(s) \/ WriteUnfinished(s)
  BY <1>3, <1>9 DEF WriteFails, WriteUnfinished, CanWrite, history
<1>10. QED
  BY <1>4, <1>5, <1>6, <1>7, <1>8, <1>9 DEF ScreenStep

LEMMA ListedNext ==
  ASSUME TypeOK, WaitingIsListed, Next
  PROVE  WaitingIsListed'
<1>1. CASE Dismiss
  <2>1. sess'.status = "dismissed"
    BY <1>1 DEF Dismiss, TypeOK, SessionOK, NoSession
  <2>2. QED
    BY <2>1 DEF WaitingIsListed
<1>2. CASE Restore
  <2>1. listed' \/ missed'
    BY <1>2 DEF Restore, ListingBecomes
  <2>2. QED
    BY <2>1 DEF WaitingIsListed
<1>3. ASSUME NEW c \in Comments, NEW t \in Texts \cup {Gone}, Edit(c, t) PROVE WaitingIsListed'
  BY <1>3 DEF Edit, history, WaitingIsListed
<1>4. QED
  BY <1>1, <1>2, <1>3, ListedCalls, ListedScreens DEF Next

\* A review that waits for the user is on the waiting list, or its call is about to
\* put it there, or its own listing was lost: WaitingIsListed.
THEOREM WaitingAlwaysListed == Spec => []WaitingIsListed
<1>1. TypeOK /\ WaitingIsListed /\ [Next]_vars => WaitingIsListed'
  <2>1. TypeOK /\ WaitingIsListed /\ UNCHANGED vars => WaitingIsListed'
    BY DEF vars, history, WaitingIsListed
  <2>2. QED
    BY <2>1, ListedNext
<1>2. ReviewInv => TypeOK
  BY DEF ReviewInv
<1>3. QED
  BY <1>1, <1>2, ListedInit, ReviewIsInv, PTL DEF Spec

\* A step that changes no request and takes no answer.
LEMMA AnswersStay ==
  ASSUME sess'.reqs = sess.reqs, \A i \in DOMAIN sess.fb : IsAnswer(sess.fb, i) => i \in DOMAIN sess'.fb
  PROVE  AnswersKept /\ FreshSession
BY DEF AnswersKept, FreshSession

LEMMA ListTakesNothing ==
  ASSUME ReviewInv, NEW a \in Agents, Adds(a)
  PROVE  AnswersKept /\ FreshSession
<1> DEFINE list == agent[a].list
<1>1. /\ SessionOK(sess) /\ AnswersShown /\ ~Busy(sess.status)
      /\ sess' = IF sess.status = "notes" THEN AfterNotes(sess, list) ELSE NewSession(list)
  BY DEF ReviewInv, TypeOK, Adds
<1>2. CASE sess.status = "notes"
  <2>1. sess'.fb = Without(sess.fb, Dropped(sess, list) \cup DOMAIN list)
    BY <1>1, <1>2, AfterNotesParts
  <2>2. ASSUME NEW i \in DOMAIN sess.fb, IsAnswer(sess.fb, i), StillSo(sess.reqs, i), ~mixed'
        PROVE  i \in DOMAIN sess'.fb
    <3>1. i \in DOMAIN sess.reqs
      BY DEF ReviewInv, AnswersFit
    <3>2. ListFits(list)
      BY <1>2, <2>2, AddedFacts
    <3>3. i \notin DOMAIN list
      BY <2>2, <3>1, <3>2 DEF ListFits, IsNote, IsAnswer
    <3>4. i \notin Dropped(sess, list)
      BY <2>2 DEF Dropped, Kept
    <3>5. QED
      BY <2>1, <3>3, <3>4 DEF Without
  <2>3. QED
    BY <1>2, <2>2 DEF AnswersKept, FreshSession
<1>3. CASE sess.status # "notes"
  <2>1. sess'.fb = <<>>
    BY <1>1, <1>3, NewSessionParts
  <2>2. sess.status \in {"none", "done", "dismissed"}
    BY <1>1, <1>3 DEF SessionOK, Statuses, Busy
  <2>3. AnswersKept
    BY <1>1, <2>2 DEF AnswersKept, AnswersShown
  <2>4. QED
    BY <2>1, <2>3 DEF FreshSession
<1>4. QED
  BY <1>2, <1>3

LEMMA FeedbackTakesNothing ==
  ASSUME ReviewInv, NEW s \in Screens, NEW i, NEW feedback, Give(s, i, feedback)
  PROVE  AnswersKept /\ FreshSession
<1>1. CASE UNCHANGED sess
  BY <1>1, AnswersStay
<1>2. CASE sess.status = "waiting" /\ sess' = WithFeedback(i, feedback)
  <2>1. SessionOK(sess)
    BY DEF ReviewInv, TypeOK
  <2>2. sess'.reqs = sess.reqs /\ sess'.fb = Over(sess.fb, [j \in {i} |-> feedback])
    BY <1>2, <2>1, WithFeedbackParts
  <2>3. DOMAIN sess.fb \subseteq DOMAIN sess'.fb
    BY <2>2 DEF Over
  <2>4. QED
    BY <2>2, <2>3, AnswersStay
<1>3. QED
  BY <1>1, <1>2 DEF Give, TakesFeedback

LEMMA WriteTakesNothing ==
  ASSUME ReviewInv, NEW s \in Screens, ScreenStep(s)
  PROVE  AnswersKept /\ FreshSession
<1>1. SessionOK(sess)
  BY DEF ReviewInv, TypeOK
<1>2. CASE UNCHANGED sess
  BY <1>2, AnswersStay
<1>3. ASSUME NEW st, NEW err, sess' = [sess EXCEPT !.status = st, !.werr = err] PROVE AnswersKept /\ FreshSession
  <2>1. sess'.reqs = sess.reqs /\ sess'.fb = sess.fb
    BY <1>1, <1>3 DEF SessionOK, NoSession
  <2>2. QED
    BY <2>1, AnswersStay
<1>4. ASSUME NEW given, sess' = [sess EXCEPT !.status = "notes", !.werr = FALSE, !.fb = Over(sess.fb, given)]
      PROVE  AnswersKept /\ FreshSession
  <2>1. sess'.reqs = sess.reqs /\ sess'.fb = Over(sess.fb, given)
    BY <1>1, <1>4 DEF SessionOK, NoSession
  <2>2. DOMAIN sess.fb \subseteq DOMAIN sess'.fb
    BY <2>1 DEF Over
  <2>3. QED
    BY <2>1, <2>2, AnswersStay
<1>5. CASE Reload(s) \/ WriteNothing(s)
  BY <1>2, <1>5 DEF Reload, WriteNothing
<1>6. CASE ReturnToAgent(s)
  BY <1>2, <1>4, <1>6 DEF ReturnToAgent
<1>7. CASE WriteDone(s) \/ WriteUnfinished(s)
  BY <1>3, <1>7 DEF WriteDone, WriteUnfinished
<1>8. CASE WriteFails(s)
  <2>1. sess'.reqs = sess.reqs /\ sess'.fb = sess.fb
    BY <1>1, <1>8 DEF WriteFails, SessionOK, NoSession
  <2>2. QED
    BY <2>1, AnswersStay
<1>9. QED
  BY <1>5, <1>6, <1>7, <1>8 DEF ScreenStep

LEMMA NothingTaken ==
  ASSUME ReviewInv, [Next]_vars
  PROVE  AnswersKept /\ FreshSession
<1>1. SessionOK(sess)
  BY DEF ReviewInv, TypeOK
<1>2. CASE UNCHANGED sess
  BY <1>2, AnswersStay
<1>3. ASSUME NEW a \in Agents, AddList(a), ~UNCHANGED sess PROVE AnswersKept /\ FreshSession
  <2>1. Adds(a)
    BY <1>3 DEF AddList, Adds
  <2>2. QED
    BY <2>1, ListTakesNothing
<1>4. ASSUME NEW a \in Agents, See(a) \/ Build(a) \/ AddToWaitingList(a) \/ AgentKilled(a)
      PROVE  AnswersKept /\ FreshSession
  BY <1>2, <1>4 DEF See, Build, AddToWaitingList, AgentKilled
<1>5. ASSUME NEW s \in Screens, Open(s) \/ Close(s) PROVE AnswersKept /\ FreshSession
  BY <1>2, <1>5 DEF Open, Close
<1>6. ASSUME NEW s \in Screens, GiveAnswer(s) \/ GiveNote(s) PROVE AnswersKept /\ FreshSession
  BY <1>6, FeedbackTakesNothing DEF GiveAnswer, GiveNote
<1>7. ASSUME NEW s \in Screens, RemoveNote(s) PROVE AnswersKept /\ FreshSession
  <2>1. PICK i : sess' = sess \/ (IsNote(sess.fb, i) /\ sess' = [sess EXCEPT !.fb = Without(sess.fb, {i})])
    BY <1>7 DEF RemoveNote
  <2>2. CASE IsNote(sess.fb, i) /\ sess' = [sess EXCEPT !.fb = Without(sess.fb, {i})]
    <3>1. sess'.reqs = sess.reqs /\ sess'.fb = Without(sess.fb, {i})
      BY <1>1, <2>2 DEF SessionOK, NoSession
    <3>2. \A k \in DOMAIN sess.fb : IsAnswer(sess.fb, k) => k \in DOMAIN sess'.fb
      BY <2>2, <3>1 DEF Without, IsNote, IsAnswer
    <3>3. QED
      BY <3>1, <3>2, AnswersStay
  <2>3. QED
    BY <1>2, <2>1, <2>2
<1>8. CASE Dismiss \/ Restore
  <2>1. sess'.reqs = sess.reqs /\ sess'.fb = sess.fb
    BY <1>1, <1>8 DEF Dismiss, Restore, SessionOK, NoSession
  <2>2. QED
    BY <2>1, AnswersStay
<1>9. ASSUME NEW c \in Comments, NEW t \in Texts \cup {Gone}, Edit(c, t) PROVE AnswersKept /\ FreshSession
  BY <1>2, <1>9 DEF Edit
<1>10. CASE UNCHANGED vars
  BY <1>2, <1>10 DEF vars
<1>11. QED
  BY <1>2, <1>3, <1>4, <1>5, <1>6, <1>7, <1>8, <1>9, <1>10, WriteTakesNothing DEF Next

\* No list, note, write or failure takes away an answer to words that still stand,
\* and no review inherits feedback: NoAnswerLost.
THEOREM AnswersAreKept == Spec => NoAnswerLost
<1>1. ReviewInv /\ [Next]_vars => [AnswersKept /\ FreshSession]_vars
  BY NothingTaken
<1>2. QED
  BY <1>1, ReviewIsInv, PTL DEF Spec, NoAnswerLost

=============================================================================
