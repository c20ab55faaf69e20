-------------------------- MODULE CraneQueriesProofs -------------------------
(***************************************************************************)
(* Theorems about CraneQueries, for any cranes, photos, boxes and limit.   *)
(* The rows of a crane are never deleted, so the cranes that were there    *)
(* when an earlier list was read are there for every later one.            *)
(***************************************************************************)
EXTENDS CraneQueries, FiniteSetTheorems, SequenceTheorems, TLAPS

Asking == {"list", "crane", "photos"}

\* What an answer promises when it is given, and keeps because nothing of it
\* changes afterwards.
Sound(a) ==
  LET inBox == {c \in a.before : Intersects(a.box, c)}
  IN /\ a.listed \subseteq inBox
     /\ a.truncated => /\ Cardinality(a.listed) = Limit
                       /\ \A c \in a.listed, d \in inBox \ a.listed : AddedAt[c] >= AddedAt[d]
     /\ ~a.truncated => a.listed = inBox

\* The requests and the cranes: later answers saw every crane of earlier ones.
QueriesInv ==
  /\ TypeOK
  /\ rpc = "list" => asked \in Boxes
  /\ rpc \in {"crane", "photos"} => asked \in Cranes
  /\ \A i \in DOMAIN answers : Sound(answers[i]) /\ answers[i].before \subseteq present
  /\ \A i, j \in DOMAIN answers : i < j => answers[i].before \subseteq answers[j].before
  /\ rpc \in Asking => always \subseteq ActivePhotos /\ ActivePhotos \subseteq sometime

-----------------------------------------------------------------------------
\* Any set of cranes, and any set of photos, is finite.
LEMMA FiniteRows ==
  ASSUME NEW S
  PROVE  S \in SUBSET Cranes \/ S \in SUBSET Photos
         => IsFiniteSet(S) /\ Cardinality(S) \in Nat
BY FS_Subset, FS_CardinalityType, QueriesAssumption

\* What ORDER BY added_at DESC LIMIT n leaves of some cranes.
LEMMA NewestRows ==
  ASSUME NEW S \in SUBSET Cranes, NEW n \in Nat, NEW F \in Newest(S, n)
  PROVE  /\ F \in SUBSET S /\ F \in SUBSET Cranes
         /\ Cardinality(F) \in Nat /\ Cardinality(F) <= n
         /\ Cardinality(S) <= n => F = S
         /\ F # S => Cardinality(F) = n
         /\ \A f \in F, g \in S \ F : AddedAt[f] >= AddedAt[g]
<1>1. /\ F \in SUBSET S /\ F \in SUBSET Cranes /\ Cardinality(F) <= n
      /\ Cardinality(F) < n => F = S
      /\ \A f \in F, g \in S \ F : AddedAt[f] >= AddedAt[g]
  BY DEF Newest
<1>2. /\ Cardinality(F) \in Nat /\ Cardinality(S) \in Nat /\ IsFiniteSet(S)
  BY <1>1, FiniteRows
<1>3. Cardinality(F) <= Cardinality(S) /\ (Cardinality(S) = Cardinality(F) => S = F)
  BY <1>1, <1>2, FS_Subset
<1>4. F # S => Cardinality(F) = n
  BY <1>1, <1>2
<1>5. Cardinality(S) <= n => F = S
  BY <1>1, <1>2, <1>3
<1> QED  BY <1>1, <1>2, <1>4, <1>5

\* Reading one row more than the limit tells a truncated list from a complete one.
LEMMA OneRowMore ==
  ASSUME NEW S \in SUBSET Cranes,
         NEW rows \in Newest(S, Limit + 1), NEW listed \in Newest(rows, Limit)
  PROVE  /\ listed \in SUBSET S
         /\ Cardinality(rows) > Limit =>
              /\ Cardinality(listed) = Limit
              /\ \A c \in listed, d \in S \ listed : AddedAt[c] >= AddedAt[d]
         /\ ~(Cardinality(rows) > Limit) => listed = S
<1>1. Limit \in Nat /\ Limit + 1 \in Nat
  BY QueriesAssumption
<1>2. /\ rows \in SUBSET S /\ rows \in SUBSET Cranes /\ Cardinality(rows) \in Nat
      /\ rows # S => Cardinality(rows) = Limit + 1
      /\ \A f \in rows, g \in S \ rows : AddedAt[f] >= AddedAt[g]
  BY <1>1, NewestRows
<1>3. /\ listed \in SUBSET rows /\ Cardinality(listed) \in Nat /\ Cardinality(listed) <= Limit
      /\ Cardinality(rows) <= Limit => listed = rows
      /\ listed # rows => Cardinality(listed) = Limit
      /\ \A f \in listed, g \in rows \ listed : AddedAt[f] >= AddedAt[g]
  BY <1>1, <1>2, NewestRows
<1>4. ASSUME Cardinality(rows) > Limit
      PROVE  /\ Cardinality(listed) = Limit
             /\ \A c \in listed, d \in S \ listed : AddedAt[c] >= AddedAt[d]
  <2>1. listed # rows
    BY <1>1, <1>2, <1>3, <1>4
  <2>2. \A d \in S \ listed : d \in S \ rows \/ d \in rows \ listed
    OBVIOUS
  <2> QED  BY <1>2, <1>3, <2>1, <2>2
<1>5. ASSUME ~(Cardinality(rows) > Limit) PROVE listed = S
  BY <1>1, <1>2, <1>3, <1>5
<1> QED  BY <1>2, <1>3, <1>4, <1>5

\* Fewer photos are not counted as more.
LEMMA CountsGrow ==
  ASSUME NEW S \in SUBSET Photos, NEW T \in SUBSET S
  PROVE  Cardinality(T) <= Cardinality(S)
BY FiniteRows, FS_Subset

\* The life cycle of photos keeps its stages.
LEMMA CatalogSteps == CatalogTypeOK /\ [CatalogNext]_state => CatalogTypeOK'
<1> SUFFICES ASSUME CatalogTypeOK, CatalogNext PROVE CatalogTypeOK'
  BY DEF CatalogTypeOK
<1>1. ASSUME NEW p \in Photos, Insert(p) \/ Refuse(p) \/ Publish(p) \/ Withdraw(p) \/ Remove(p)
      PROVE  CatalogTypeOK'
  BY <1>1 DEF CatalogTypeOK, Insert, Refuse, Publish, Withdraw, Remove, Move
<1>2. ASSUME NEW S \in SUBSET Photos, Discard(S) PROVE CatalogTypeOK'
  BY <1>2 DEF CatalogTypeOK, Discard
<1> QED  BY <1>1, <1>2 DEF CatalogNext

-----------------------------------------------------------------------------
\* There are neither cranes nor answers at first.
LEMMA InitInv == Init => QueriesInv
<1> SUFFICES ASSUME Init PROVE QueriesInv
  OBVIOUS
<1>1. answers = <<>> /\ answers \in Seq(Answer) /\ DOMAIN answers = {}
  BY DEF Init
<1>2. TypeOK
  BY <1>1 DEF Init, TypeOK, CatalogInit, CatalogTypeOK
<1> QED  BY <1>1, <1>2 DEF Init, QueriesInv, Asking

\* A step that gives no list keeps the invariant.
LEMMA OtherSteps ==
  ASSUME QueriesInv, TypeOK', UNCHANGED answers, present \subseteq present',
         rpc' = "list" => asked' \in Boxes,
         rpc' \in {"crane", "photos"} => asked' \in Cranes,
         rpc' \in Asking => always' \subseteq ActivePhotos' /\ ActivePhotos' \subseteq sometime'
  PROVE  QueriesInv'
BY DEF QueriesInv, Sound, Intersects

\* What a request that ended leaves behind.
LEMMA EndTypes ==
  ASSUME QueriesInv, NEW how \in {"answered", "failed"}, End(how)
  PROVE  /\ rpc' = how /\ rpc' \notin Asking
         /\ rpc' \in {"list", "crane", "photos", "answered", "failed"}
         /\ asked' \in Boxes \cup Cranes \cup {Nothing}
         /\ sometime' \subseteq Photos /\ always' \subseteq Photos
BY DEF End, Asking

\* A list keeps the invariant: its answer is sound, and as late as any.
LEMMA GetCranesStep ==
  ASSUME QueriesInv, GetCranes
  PROVE  QueriesInv'
<1> DEFINE inBox == {c \in present : Intersects(asked, c)}
<1>1. PICK rows \in Newest(inBox, Limit + 1) : \E listed \in Newest(rows, Limit) :
        answers' = Append(answers, [box |-> asked, listed |-> listed,
                                    truncated |-> Cardinality(rows) > Limit,
                                    before |-> present])
  BY DEF GetCranes
<1>2. PICK listed \in Newest(rows, Limit) :
        answers' = Append(answers, [box |-> asked, listed |-> listed,
                                    truncated |-> Cardinality(rows) > Limit,
                                    before |-> present])
  BY <1>1
<1> DEFINE a == [box |-> asked, listed |-> listed,
                 truncated |-> Cardinality(rows) > Limit, before |-> present]
<1>3. /\ asked \in Boxes /\ present \in SUBSET Cranes /\ inBox \in SUBSET Cranes
      /\ answers \in Seq(Answer) /\ rpc = "list"
  BY DEF GetCranes, QueriesInv, TypeOK
<1>4. Sound(a) /\ a \in Answer
  <2>1. /\ listed \in SUBSET inBox
        /\ Cardinality(rows) > Limit =>
             /\ Cardinality(listed) = Limit
             /\ \A c \in listed, d \in inBox \ listed : AddedAt[c] >= AddedAt[d]
        /\ ~(Cardinality(rows) > Limit) => listed = inBox
    BY <1>3, OneRowMore
  <2> HIDE DEF inBox
  <2>2. a \in Answer
    <3>1. listed \in SUBSET Cranes
      BY <1>3, <2>1
    <3> QED  BY <1>3, <3>1 DEF Answer
  <2>3. {c \in a.before : Intersects(a.box, c)} = inBox
    BY DEF inBox
  <2> QED  BY <2>1, <2>2, <2>3 DEF Sound
<1> HIDE DEF a
<1>5. /\ answers' \in Seq(Answer) /\ Len(answers') = Len(answers) + 1
      /\ \A i \in 1..Len(answers) : answers'[i] = answers[i]
      /\ answers'[Len(answers) + 1] = a
  BY <1>2, <1>3, <1>4, AppendProperties DEF a
<1>6. /\ DOMAIN answers = 1..Len(answers) /\ Len(answers) \in Nat
      /\ DOMAIN answers' = 1..(Len(answers) + 1)
  BY <1>3, <1>5
<1>7. a.before = present /\ present' = present
  BY DEF a, GetCranes
<1>8. \A i \in DOMAIN answers' : Sound(answers'[i]) /\ answers'[i].before \subseteq present'
  <2>1. \A i \in DOMAIN answers : Sound(answers[i]) /\ answers[i].before \subseteq present
    BY DEF QueriesInv
  <2> QED  BY <1>4, <1>5, <1>6, <1>7, <2>1
<1>9. \A i, j \in DOMAIN answers' : i < j => answers'[i].before \subseteq answers'[j].before
  <2>1. \A i, j \in DOMAIN answers : i < j => answers[i].before \subseteq answers[j].before
    BY DEF QueriesInv
  <2>2. \A i \in DOMAIN answers : answers[i].before \subseteq present
    BY DEF QueriesInv
  <2> QED  BY <1>5, <1>6, <1>7, <2>1, <2>2
<1>10. TypeOK'
  <2>1. \A c \in Cranes : Cardinality(PhotosOf(c) \cap ActivePhotos) \in Nat
    BY FiniteRows DEF PhotosOf
  <2>2. counts' \in [Cranes -> Nat]
    BY <2>1 DEF GetCranes
  <2>3. CatalogTypeOK' /\ present' \subseteq Cranes /\ detail' \subseteq Photos
    BY DEF GetCranes, QueriesInv, TypeOK, CatalogTypeOK
  <2>4. End("answered")
    BY DEF GetCranes
  <2> QED  BY <1>5, <2>2, <2>3, <2>4, EndTypes DEF TypeOK
<1>11. rpc' = "answered"
  BY DEF GetCranes, End
<1>12. (\A i \in DOMAIN answers : Sound(answers[i]) /\ answers[i].before \subseteq present)'
  BY <1>8 DEF Sound, Intersects
<1> QED  BY <1>9, <1>10, <1>11, <1>12 DEF QueriesInv, Asking

\* Every other step keeps it: cranes are only added, and what was active since
\* the request is kept with each step of a photo.
LEMMA NextInv ==
  ASSUME QueriesInv, [Next]_vars
  PROVE  QueriesInv'
<1> USE DEF answerVars
<1>1. TypeOK /\ (rpc = "list" => asked \in Boxes) /\ (rpc \in {"crane", "photos"} => asked \in Cranes)
      /\ (rpc \in Asking => always \subseteq ActivePhotos /\ ActivePhotos \subseteq sometime)
  BY DEF QueriesInv
<1>2. ASSUME NEW c \in Cranes, AddCrane(c) PROVE QueriesInv'
  <2>1. TypeOK' /\ present \subseteq present' /\ ActivePhotos' = ActivePhotos
    BY <1>1, <1>2 DEF AddCrane, TypeOK, CatalogTypeOK, ActivePhotos
  <2> QED  BY <1>1, <1>2, <2>1, OtherSteps DEF AddCrane
<1>3. CASE PhotoStep
  <2>1. CatalogTypeOK' /\ ActivePhotos' \subseteq Photos
    BY <1>1, <1>3, CatalogSteps DEF PhotoStep, TypeOK, ActivePhotos
  <2>2. TypeOK'
    BY <1>1, <1>3, <2>1 DEF PhotoStep, TypeOK
  <2> QED  BY <1>1, <1>3, <2>2, OtherSteps DEF PhotoStep
<1>4. ASSUME NEW kind \in {"list", "crane"}, NEW what \in Boxes \cup Cranes, Ask(kind, what),
             kind = "list" => what \in Boxes, kind = "crane" => what \in Cranes
      PROVE  QueriesInv'
  <2>1. ActivePhotos' = ActivePhotos /\ ActivePhotos \subseteq Photos
    BY <1>4 DEF Ask, ActivePhotos
  <2>2. TypeOK'
    BY <1>1, <1>4, <2>1 DEF Ask, TypeOK, CatalogTypeOK
  <2> QED  BY <1>4, <2>1, <2>2, OtherSteps DEF Ask
<1>5. CASE AskForCranes \/ AskForCrane
  BY <1>4, <1>5 DEF AskForCranes, AskForCrane
<1>6. CASE RefuseBox \/ CraneNotFound \/ QueryFails
  <2>1. End("failed") /\ UNCHANGED <<state, present, answers, counts, detail>>
    BY <1>6 DEF RefuseBox, CraneNotFound, QueryFails
  <2>2. TypeOK'
    BY <1>1, <2>1, EndTypes DEF TypeOK, CatalogTypeOK
  <2> QED  BY <2>1, <2>2, EndTypes, OtherSteps DEF Asking
<1>7. CASE GetCranes
  BY <1>7, GetCranesStep
<1>8. CASE SelectCrane
  <2>1. TypeOK' /\ ActivePhotos' = ActivePhotos /\ asked \in Cranes /\ rpc \in Asking
    BY <1>1, <1>8 DEF SelectCrane, TypeOK, CatalogTypeOK, ActivePhotos, Asking
  <2> QED  BY <1>1, <1>8, <2>1, OtherSteps DEF SelectCrane
<1>9. CASE SelectPhotos
  <2>1. End("answered") /\ UNCHANGED <<state, present, answers, counts>> /\ detail' \subseteq Photos
    BY <1>9 DEF SelectPhotos, PhotosOf
  <2>2. TypeOK'
    BY <1>1, <2>1, EndTypes DEF TypeOK, CatalogTypeOK
  <2> QED  BY <2>1, <2>2, EndTypes, OtherSteps DEF Asking
<1>10. CASE UNCHANGED vars
  <2>1. TypeOK' /\ ActivePhotos' = ActivePhotos
    BY <1>1, <1>10 DEF vars, TypeOK, CatalogTypeOK, ActivePhotos
  <2> QED  BY <1>1, <1>10, <2>1, OtherSteps DEF vars
<1> QED  BY <1>2, <1>3, <1>5, <1>6, <1>7, <1>8, <1>9, <1>10 DEF Next

-----------------------------------------------------------------------------
\* The inductive invariant holds in every reachable state.
THEOREM QueriesInvariance == Spec => []QueriesInv
<1>1. QueriesInv /\ [Next]_vars => QueriesInv'
  BY NextInv
<1> QED  BY InitInv, <1>1, PTL DEF Spec

\* get_cranes for any cranes, box and limit: a list that is not said to be
\* truncated leaves out no crane of the box; one that is shows Limit cranes, none
\* of them older than a crane it leaves out.
THEOREM CompleteOrTruncatedHolds == Spec => []CompleteOrTruncated
<1>1. QueriesInv => CompleteOrTruncated
  BY DEF QueriesInv, CompleteOrTruncated, Sound
<1> QED  BY <1>1, QueriesInvariance, PTL

\* The map's halves of any box, split by any line, miss no crane of the box once
\* neither of their lists is truncated: both sides of ST_MakeEnvelope belong to
\* the box, and no crane that was there is missing later.
THEOREM HalvesMissNothingHolds == Spec => []HalvesMissNothing
<1>1. ASSUME QueriesInv PROVE HalvesMissNothing
  <2> SUFFICES ASSUME NEW i \in DOMAIN answers, NEW j \in DOMAIN answers, NEW k \in DOMAIN answers,
                      NEW c \in answers[i].before,
                      i < j, i < k, SplitBy(answers[i].box, answers[j].box, answers[k].box),
                      ~answers[j].truncated, ~answers[k].truncated,
                      Intersects(answers[i].box, c)
               PROVE  c \in answers[j].listed \cup answers[k].listed
    <3>1. \A m \in DOMAIN answers : Sound(answers[m])
      BY <1>1 DEF QueriesInv
    <3> QED  BY <3>1 DEF HalvesMissNothing, Sound, Intersects
  <2>1. /\ c \in answers[j].before /\ c \in answers[k].before /\ c \in Cranes
        /\ Sound(answers[j]) /\ Sound(answers[k])
        /\ answers[i] \in Answer /\ answers[j] \in Answer /\ answers[k] \in Answer
    <3>1. answers \in Seq(Answer)
      BY <1>1 DEF QueriesInv, TypeOK
    <3>2. answers[i] \in Answer /\ answers[j] \in Answer /\ answers[k] \in Answer
      BY <3>1
    <3>3. c \in answers[j].before /\ c \in answers[k].before
      BY <1>1 DEF QueriesInv
    <3>4. c \in Cranes
      BY <3>2 DEF Answer
    <3> QED  BY <1>1, <3>2, <3>3, <3>4 DEF QueriesInv
  <2> DEFINE b == answers[i].box
             half == answers[j].box
             other == answers[k].box
  <2>2. /\ b \in Box /\ half \in Box /\ other \in Box
        /\ Lat[c] \in Int /\ Lng[c] \in Int
    BY <2>1, QueriesAssumption DEF Answer
  <2>3. Intersects(half, c) \/ Intersects(other, c)
    <3> HIDE DEF b, half, other
    <3>1. CASE /\ [half EXCEPT !.east = b.east] = b /\ [other EXCEPT !.west = b.west] = b
               /\ other.west <= half.east
      BY <2>2, <3>1 DEF Box, Intersects, b
    <3>2. CASE /\ [half EXCEPT !.north = b.north] = b /\ [other EXCEPT !.south = b.south] = b
               /\ other.south <= half.north
      BY <2>2, <3>2 DEF Box, Intersects, b
    <3> QED  BY <3>1, <3>2 DEF SplitBy, b, half, other
  <2> QED  BY <2>1, <2>3 DEF Sound
<1> QED  BY <1>1, QueriesInvariance, PTL

\* Of photos, a list counts and a crane shows those active at one time since the
\* request: what was active all the time, and nothing that never was.
THEOREM ShownWereActiveHolds == Spec => ShownWereActive
<1> DEFINE Shown ==
      rpc' = "answered" /\ rpc # "answered" =>
        IF rpc = "photos"
        THEN /\ always \cap PhotosOf(asked) \subseteq detail'
             /\ detail' \subseteq sometime \cap PhotosOf(asked)
        ELSE \A c \in answers'[Len(answers')].listed :
               /\ Cardinality(always \cap PhotosOf(c)) <= counts'[c]
               /\ counts'[c] <= Cardinality(sometime \cap PhotosOf(c))
<1>1. ASSUME QueriesInv, Next, rpc' = "answered", rpc # "answered" PROVE Shown
  <2>1. CASE SelectPhotos
    <3>1. always \subseteq ActivePhotos /\ ActivePhotos \subseteq sometime
      BY <1>1, <2>1 DEF QueriesInv, SelectPhotos, Asking
    <3> QED  BY <2>1, <3>1 DEF SelectPhotos
  <2>2. CASE GetCranes
    <3>1. always \subseteq ActivePhotos /\ ActivePhotos \subseteq sometime /\ sometime \subseteq Photos
      BY <1>1, <2>2 DEF QueriesInv, GetCranes, Asking, TypeOK
    <3>2. QueriesInv'
      BY <1>1, NextInv
    <3>3. answers'[Len(answers')].listed \subseteq Cranes
      <4>1. answers' # <<>> /\ answers' \in Seq(Answer)
        <5>1. \E a : answers' = Append(answers, a)
          BY <2>2 DEF GetCranes
        <5>2. answers \in Seq(Answer) /\ answers' \in Seq(Answer)
          BY <1>1, <3>2 DEF QueriesInv, TypeOK
        <5> QED  BY <5>1, <5>2
      <4>2. Len(answers') \in 1..Len(answers')
        BY <4>1
      <4>3. answers'[Len(answers')] \in Answer
        BY <4>1, <4>2
      <4> QED  BY <4>3 DEF Answer
    <3>4. ASSUME NEW c \in Cranes
          PROVE  /\ Cardinality(always \cap PhotosOf(c)) <= counts'[c]
                 /\ counts'[c] <= Cardinality(sometime \cap PhotosOf(c))
      <4>1. counts'[c] = Cardinality(PhotosOf(c) \cap ActivePhotos)
        BY <2>2 DEF GetCranes
      <4>2. /\ always \cap PhotosOf(c) \subseteq PhotosOf(c) \cap ActivePhotos
            /\ PhotosOf(c) \cap ActivePhotos \subseteq sometime \cap PhotosOf(c)
            /\ sometime \cap PhotosOf(c) \subseteq Photos
            /\ PhotosOf(c) \cap ActivePhotos \subseteq Photos
        BY <3>1
      <4> QED  BY <4>1, <4>2, CountsGrow
    <3>5. rpc = "list"
      BY <2>2 DEF GetCranes
    <3> QED  BY <3>3, <3>4, <3>5
  <2>3. CASE UNCHANGED rpc
    BY <1>1, <2>3
  <2>4. ASSUME NEW c \in Cranes, AddCrane(c) PROVE FALSE
    BY <1>1, <2>4 DEF AddCrane
  <2>5. CASE AskForCranes \/ AskForCrane
    BY <1>1, <2>5 DEF AskForCranes, AskForCrane, Ask
  <2>6. CASE PhotoStep \/ RefuseBox \/ CraneNotFound \/ SelectCrane \/ QueryFails
    BY <1>1, <2>6 DEF PhotoStep, RefuseBox, CraneNotFound, SelectCrane, QueryFails, End
  <2> QED  BY <1>1, <2>1, <2>2, <2>4, <2>5, <2>6 DEF Next
<1>2. QueriesInv /\ [Next]_vars => [Shown]_vars
  <2>1. CASE Next /\ rpc' = "answered" /\ rpc # "answered"
    BY <1>1, <2>1
  <2> QED  BY <2>1
<1>3. Spec => [][Shown]_vars
  BY <1>2, QueriesInvariance, PTL DEF Spec
<1> QED  BY <1>3 DEF ShownWereActive
=============================================================================
