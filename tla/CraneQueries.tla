---------------------------- MODULE CraneQueries -----------------------------
(***************************************************************************)
(* GET /cranes, the cranes in a box of the map, and GET /cranes/{crane_id},*)
(* a crane with its photos, while cranes are added and photos go through   *)
(* the life cycle of PhotoCatalog.  The first is one statement, which      *)
(* counts the active photos of each crane; the second is two, of which the *)
(* second reads the photos.  No route deletes a crane, and what a crane is *)
(* reported as changes nothing in either query.                            *)
(*                                                                         *)
(* Coordinates are whole numbers, MaxLat standing for 90 and MaxLng for    *)
(* 180 degrees.  An answer is the set of what it shows: of the order only  *)
(* what the limit cuts off is modelled.                                    *)
(***************************************************************************)
EXTENDS PhotoCatalog, Integers, Sequences, FiniteSets

CONSTANTS
  Cranes,
  Lat, Lng,          \* where each crane is
  AddedAt,           \* when: later cranes may have earlier times, or equal ones
  CraneOf,           \* [Photos -> Cranes]
  MaxLat, MaxLng,
  Boxes,             \* the boxes that are asked for
  Limit,             \* CRANE_LIST_LIMIT
  Nothing,           \* what is asked for between requests
  MaxAnswers         \* bounds the requests for lists

Box == [north : Int, south : Int, east : Int, west : Int]

ASSUME QueriesAssumption ==
  /\ IsFiniteSet(Cranes) /\ IsFiniteSet(Photos)
  /\ Lat \in [Cranes -> -MaxLat..MaxLat] /\ Lng \in [Cranes -> -MaxLng..MaxLng]
  /\ AddedAt \in [Cranes -> Int]
  /\ CraneOf \in [Photos -> Cranes]
  /\ Boxes \subseteq Box
  /\ Limit \in Nat \ {0} /\ MaxAnswers \in Nat

VARIABLES
  present,       \* the committed crane rows
  rpc,           \* where the reader's request is: "list" (before its statement),
                 \* "crane" and "photos" (before the two of get_crane), or ended
  asked,         \* the box or the crane it asked for
  answers,       \* the lists it was given, with the cranes there when it asked
  counts,        \* the number of photos shown with each crane of the last list
  detail,        \* the photos of the last crane it was shown
  sometime,      \* history: the photos active at some time since it asked
  always         \* history: the photos active all the time since

answerVars == <<answers, counts, detail>>
vars == <<state, present, rpc, asked, answerVars, sometime, always>>

ActivePhotos == {p \in Photos : state[p] = "active"}
PhotosOf(c) == {p \in Photos : CraneOf[p] = c}

Answer == [box : Boxes, listed : SUBSET Cranes, truncated : BOOLEAN, before : SUBSET Cranes]

TypeOK ==
  /\ CatalogTypeOK
  /\ present \subseteq Cranes
  /\ rpc \in {"list", "crane", "photos", "answered", "failed"}
  /\ asked \in Boxes \cup Cranes \cup {Nothing}
  /\ answers \in Seq(Answer)
  /\ counts \in [Cranes -> Nat] /\ detail \subseteq Photos
  /\ sometime \subseteq Photos /\ always \subseteq Photos

Init ==
  /\ CatalogInit
  /\ present = {}
  /\ rpc = "answered" /\ asked = Nothing
  /\ answers = <<>> /\ counts = [c \in Cranes |-> 0] /\ detail = {}
  /\ sometime = {} /\ always = {}

-----------------------------------------------------------------------------
\* create_crane commits.
AddCrane(c) ==
  /\ c \notin present
  /\ present' = present \cup {c}
  /\ UNCHANGED <<state, rpc, asked, answerVars, sometime, always>>

PhotoStep ==
  /\ CatalogNext
  /\ \A p \in Photos : state'[p] # "new" => CraneOf[p] \in present
  /\ sometime' = sometime \cup ActivePhotos'
  /\ always' = always \cap ActivePhotos'
  /\ UNCHANGED <<present, rpc, asked, answerVars>>

Ask(kind, what) ==
  /\ rpc \in {"answered", "failed"}
  /\ rpc' = kind /\ asked' = what
  /\ counts' = [c \in Cranes |-> 0] /\ detail' = {}
  /\ sometime' = ActivePhotos /\ always' = ActivePhotos
  /\ UNCHANGED <<state, present, answers>>

AskForCranes ==
  /\ Len(answers) < MaxAnswers
  /\ \E b \in Boxes : Ask("list", b)

AskForCrane == \E c \in Cranes : Ask("crane", c)

End(how) == /\ rpc' = how /\ asked' = Nothing
            /\ sometime' = {} /\ always' = {}

\* 422: a side out of range (Query of the route, and again get_cranes), or the
\* sides the wrong way round or equal.
InvalidCoordinate(b) ==
  \/ {b.north, b.south} \ (-MaxLat..MaxLat) # {} \/ {b.east, b.west} \ (-MaxLng..MaxLng) # {}
  \/ b.north <= b.south \/ b.east <= b.west

RefuseBox ==
  /\ rpc = "list"
  /\ InvalidCoordinate(asked)
  /\ End("failed")
  /\ UNCHANGED <<state, present, answerVars>>

\* Mutant: the northern and the eastern side do not belong to the box.
IntersectsInside(b, c) == /\ b.south <= Lat[c] /\ Lat[c] < b.north
                          /\ b.west <= Lng[c] /\ Lng[c] < b.east

\* ST_MakeEnvelope and the operator && of the index: the sides belong to the box.
Intersects(b, c) == /\ b.south <= Lat[c] /\ Lat[c] <= b.north
                    /\ b.west <= Lng[c] /\ Lng[c] <= b.east

\* What ORDER BY added_at DESC LIMIT n may leave of S.
Newest(S, n) ==
  {F \in SUBSET S : /\ Cardinality(F) <= n
                    /\ Cardinality(F) < n => F = S
                    /\ \A f \in F, g \in S \ F : AddedAt[f] >= AddedAt[g]}

\* Mutant: no row more than the limit is read.
GetCranesToLimit ==
  /\ rpc = "list"
  /\ ~InvalidCoordinate(asked)
  /\ \E rows \in Newest({c \in present : Intersects(asked, c)}, Limit) :
       answers' = Append(answers, [box |-> asked, listed |-> rows,
                                   truncated |-> Cardinality(rows) > Limit, before |-> present])
  /\ counts' = [c \in Cranes |-> Cardinality(PhotosOf(c) \cap ActivePhotos)]
  /\ End("answered")
  /\ UNCHANGED <<state, present, detail>>

GetCranes ==
  /\ rpc = "list"
  /\ ~InvalidCoordinate(asked)
  /\ \E rows \in Newest({c \in present : Intersects(asked, c)}, Limit + 1) :
       \E listed \in Newest(rows, Limit) :
         answers' = Append(answers, [box |-> asked, listed |-> listed,
                                     truncated |-> Cardinality(rows) > Limit,
                                     before |-> present])
  /\ counts' = [c \in Cranes |-> Cardinality(PhotosOf(c) \cap ActivePhotos)]
  /\ End("answered")
  /\ UNCHANGED <<state, present, detail>>

CraneNotFound ==
  /\ rpc = "crane"
  /\ asked \notin present
  /\ End("failed")
  /\ UNCHANGED <<state, present, answerVars>>

SelectCrane ==
  /\ rpc = "crane"
  /\ asked \in present
  /\ rpc' = "photos"
  /\ UNCHANGED <<state, present, asked, answerVars, sometime, always>>

\* Mutant: the photo_records of the crane, whatever their status.
SelectAllPhotos ==
  /\ rpc = "photos"
  /\ detail' = {p \in PhotosOf(asked) : state[p] \notin {"new", "gone"}}
  /\ End("answered")
  /\ UNCHANGED <<state, present, answers, counts>>

SelectPhotos ==
  /\ rpc = "photos"
  /\ detail' = PhotosOf(asked) \cap ActivePhotos
  /\ End("answered")
  /\ UNCHANGED <<state, present, answers, counts>>

\* A statement fails: 500.
QueryFails ==
  /\ rpc \in {"list", "crane", "photos"}
  /\ End("failed")
  /\ UNCHANGED <<state, present, answerVars>>

Next ==
  \/ (\E c \in Cranes : AddCrane(c)) \/ PhotoStep
  \/ AskForCranes \/ RefuseBox \/ GetCranes
  \/ AskForCrane \/ CraneNotFound \/ SelectCrane \/ SelectPhotos
  \/ QueryFails

Spec == Init /\ [][Next]_vars

-----------------------------------------------------------------------------
\* A list that is not said to be truncated shows every crane that was in the box
\* when it was asked for; one that is shows as many as the limit allows, and
\* none older than a crane it leaves out.
CompleteOrTruncated ==
  \A i \in DOMAIN answers :
    LET a == answers[i]
        left == {c \in a.before : Intersects(a.box, c)} \ a.listed
    IN IF a.truncated
       THEN /\ Cardinality(a.listed) = Limit
            /\ \A c \in a.listed, d \in left : AddedAt[c] >= AddedAt[d]
       ELSE left = {}

SplitBy(b, half, other) ==
  \/ /\ [half EXCEPT !.east = b.east] = b /\ [other EXCEPT !.west = b.west] = b
     /\ other.west <= half.east
  \/ /\ [half EXCEPT !.north = b.north] = b /\ [other EXCEPT !.south = b.south] = b
     /\ other.south <= half.north

\* A map that splits a box whose list was truncated, and asks for the halves,
\* misses no crane of the box, not even one on the line between the halves,
\* once neither list is truncated.
HalvesMissNothing ==
  \A i, j, k \in DOMAIN answers :
    /\ i < j /\ i < k
    /\ SplitBy(answers[i].box, answers[j].box, answers[k].box)
    /\ ~answers[j].truncated /\ ~answers[k].truncated
    => /\ answers[i].listed \subseteq answers[j].listed \cup answers[k].listed
       /\ {c \in answers[i].before : Lat[c] \in answers[i].box.south..answers[i].box.north
                                    /\ Lng[c] \in answers[i].box.west..answers[i].box.east}
            \subseteq answers[j].listed \cup answers[k].listed

\* What is shown of photos, the count in a list or the photos of a crane, is
\* every photo that was active all the time since the request, and none that was
\* not active at any time since: a pending or a deleted photo is never shown.
ShownWereActive ==
  [][rpc' = "answered" /\ rpc # "answered" =>
       IF rpc = "photos"
       THEN /\ always \cap PhotosOf(asked) \subseteq detail'
            /\ detail' \subseteq sometime \cap PhotosOf(asked)
       ELSE \A c \in answers'[Len(answers')].listed :
              /\ Cardinality(always \cap PhotosOf(c)) <= counts'[c]
              /\ counts'[c] <= Cardinality(sometime \cap PhotosOf(c))]_vars
=============================================================================
