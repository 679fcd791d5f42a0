-------------------------- MODULE Discovery_proofs --------------------------
(***************************************************************************)
(* Proofs about Discovery, for any anime, page size, page limit and        *)
(* scenarios.                                                              *)
(***************************************************************************)
EXTENDS Discovery, FiniteSetTheorems, TLAPS

-----------------------------------------------------------------------------
(* Pages.                                                                  *)

LEMMA ListingFinite ==
    ASSUME NEW l
    PROVE  /\ Listing(l) \subseteq Anime
           /\ IsFiniteSet(Listing(l))
           /\ Cardinality(Listing(l)) \in Nat
<1>1. Listing(l) \subseteq Anime
  BY DEF Listing
<1>2. QED
  BY <1>1, DiscoveryAssumption, FS_Subset, FS_CardinalityType

\* Places are counted from one to the length of the list.
LEMMA PlaceBounds ==
    ASSUME NEW l, NEW a \in Listing(l)
    PROVE  /\ Place(a, l) \in Nat
           /\ 1 <= Place(a, l)
           /\ Place(a, l) <= Cardinality(Listing(l))
<1> DEFINE B == {b \in Listing(l) : b <= a}
<1>1. B \subseteq Listing(l) /\ IsFiniteSet(Listing(l))
  BY ListingFinite
<1>2. IsFiniteSet(B) /\ Cardinality(B) \in Nat /\ Cardinality(B) <= Cardinality(Listing(l))
  BY <1>1, FS_Subset, FS_CardinalityType
<1>3. a \in B
  <2>1. a \in Nat
    BY ListingFinite, DiscoveryAssumption
  <2>2. a <= a
    BY <2>1
  <2>3. QED
    BY <2>2
<1>4. {a} \subseteq B
  BY <1>3
<1>5. Cardinality({a}) = 1 /\ Cardinality({a}) <= Cardinality(B)
  BY <1>2, <1>4, FS_Singleton, FS_Subset
<1>6. Place(a, l) = Cardinality(B)
  BY DEF Place
<1>7. QED
  BY <1>2, <1>5, <1>6

\* A page number times the page size grows with the page number.
LEMMA PagesGrow ==
    ASSUME NEW m \in Nat, NEW n \in Nat, m <= n
    PROVE  /\ m * PageSize \in Nat
           /\ n * PageSize \in Nat
           /\ m * PageSize <= n * PageSize
<1>1. PageSize \in Nat
  BY DiscoveryAssumption
<1>2. PICK d \in Nat : n = m + d
  <2>1. n - m \in Nat /\ n = m + (n - m)
    OBVIOUS
  <2>2. QED
    BY <2>1
<1>3. n * PageSize = m * PageSize + d * PageSize
  BY <1>1, <1>2
<1>4. m * PageSize \in Nat /\ d * PageSize \in Nat
  BY <1>1, <1>2
<1>5. QED
  BY <1>3, <1>4

LEMMA NothingBeforeFirst ==
    ASSUME NEW l
    PROVE  Before(l, 1) = {}
<1>1. (1 - 1) * PageSize = 0
  BY DiscoveryAssumption
<1>2. \A a \in Listing(l) : ~(Place(a, l) <= 0)
  BY PlaceBounds
<1>3. QED
  BY <1>1, <1>2 DEF Before

LEMMA BeforeNext ==
    ASSUME NEW l, NEW n \in Nat \ {0}
    PROVE  Before(l, n + 1) \subseteq Before(l, n) \cup Page(l, n)
<1>1. (n + 1) - 1 = n /\ n - 1 \in Nat /\ n - 1 <= n
  OBVIOUS
<1>2. (n - 1) * PageSize \in Nat /\ n * PageSize \in Nat
  BY <1>1, PagesGrow
<1> SUFFICES ASSUME NEW a \in Before(l, n + 1)
             PROVE  a \in Before(l, n) \cup Page(l, n)
  OBVIOUS
<1>3. a \in Listing(l) /\ Place(a, l) <= n * PageSize /\ Place(a, l) \in Nat
  BY <1>1, PlaceBounds DEF Before
<1>4. Place(a, l) <= (n - 1) * PageSize \/ (n - 1) * PageSize < Place(a, l)
  BY <1>2, <1>3
<1>5. QED
  BY <1>3, <1>4 DEF Before, Page

\* No page up to the limit has an entry that is not asked for.
LEMMA PageIsWanted ==
    ASSUME NEW l, NEW n \in Nat \ {0}, l = "popular" => n <= PopularPages
    PROVE  Page(l, n) \subseteq Wanted(l)
<1> SUFFICES ASSUME NEW a \in Page(l, n), l = "popular"
             PROVE  Place(a, l) <= PopularPages * PageSize
  BY DEF Page, Wanted
<1>1. n * PageSize <= PopularPages * PageSize /\ n * PageSize \in Nat
      /\ PopularPages * PageSize \in Nat
  BY PagesGrow, DiscoveryAssumption
<1>2. Place(a, l) <= n * PageSize /\ Place(a, l) \in Nat
  BY PlaceBounds DEF Page
<1>3. QED
  BY <1>1, <1>2

\* After the last page that is read nothing is left that is asked for.
LEMMA LastPage ==
    ASSUME NEW l, NEW n \in Nat \ {0}, ~(HasNext(l, n) /\ ~AtLimit(l, n))
    PROVE  Wanted(l) \subseteq Before(l, n + 1)
<1>1. (n + 1) - 1 = n
  OBVIOUS
<1>2. n * PageSize \in Nat
  BY PagesGrow
<1> SUFFICES ASSUME NEW a \in Wanted(l)
             PROVE  Place(a, l) <= n * PageSize
  BY <1>1 DEF Before, Wanted
<1>3. a \in Listing(l) /\ Place(a, l) \in Nat /\ Place(a, l) <= Cardinality(Listing(l))
      /\ Cardinality(Listing(l)) \in Nat
  BY PlaceBounds, ListingFinite DEF Wanted
<1>4. CASE ~HasNext(l, n)
  BY <1>2, <1>3, <1>4 DEF HasNext
<1>5. CASE AtLimit(l, n)
  <2>1. PopularPages * PageSize <= n * PageSize /\ PopularPages * PageSize \in Nat
    BY <1>5, PagesGrow, DiscoveryAssumption DEF AtLimit
  <2>2. Place(a, l) <= PopularPages * PageSize
    BY <1>5 DEF AtLimit, Wanted
  <2>3. QED
    BY <1>2, <1>3, <2>1, <2>2
<1>6. QED
  BY <1>4, <1>5
-----------------------------------------------------------------------------
(* What a step leaves alone.                                               *)

\* The lists are what Tenrai says.
LEMMA SameLists ==
    ASSUME NEW l, Listing(l)' = Listing(l)
    PROVE  /\ \A n : Before(l, n)' = Before(l, n)
           /\ \A n : Page(l, n)' = Page(l, n)
           /\ \A n : HasNext(l, n)' = HasNext(l, n)
           /\ Wanted(l)' = Wanted(l)
<1>1. \A a : Place(a, l)' = Place(a, l)
  BY DEF Place
<1>2. QED
  BY <1>1 DEF Before, Page, HasNext, Wanted

LEMMA SameTenrai ==
    ASSUME tenrai' = tenrai, NEW l
    PROVE  Listing(l)' = Listing(l)
BY DEF Listing

\* A list whose record and trace are left alone stays covered, unless a run
\* of it begins.
LEMMA CoveredKept ==
    ASSUME NEW l, Covered(l), tenrai' = tenrai, record'[l] = record[l],
           sent'[l] = sent[l], steady'[l] = steady[l], Continued(l)' => Continued(l)
    PROVE  Covered(l)'
<1>1. Listing(l)' = Listing(l)
  BY SameTenrai
<1>2. QED
  BY <1>1, SameLists DEF Covered

\* Whether a list is being continued depends on its record, and on the run.
LEMMA ContinuedKept ==
    ASSUME NEW l, record'[l] = record[l],
           list' = l /\ pc' \in {"request", "commit", "recorded"} =>
               list = l /\ pc \in {"request", "commit", "recorded"},
           Continued(l)'
    PROVE  Continued(l)
<1>1. ResumePages(l)' = ResumePages(l)
  BY DEF ResumePages, MayResume
<1>2. QED
  BY <1>1 DEF Continued

\* A list that is forgotten is covered, if it is not to be taken up.
LEMMA ForgottenCovered ==
    ASSUME TypeOK, NEW l \in Lists, Forget(l),
           record'[l].status \notin {"failed", "stale"} \/ ~Continued(l)'
    PROVE  Covered(l)'
<1>1. sent'[l] = {}
  BY DEF Forget, TypeOK
<1>2. QED
  BY <1>1 DEF Covered

\* Forgetting a list leaves the others alone.
LEMMA OthersKept ==
    ASSUME TypeOK, NEW l, NEW k \in Lists, k # l, Forget(l)
    PROVE  sent'[k] = sent[k] /\ steady'[k] = steady[k]
BY DEF Forget, TypeOK

LEMMA ForgetType ==
    ASSUME TypeOK, NEW l \in Lists, Forget(l)
    PROVE  /\ sent' \in [Lists -> SUBSET Anime]
           /\ steady' \in [Lists -> BOOLEAN]
<1>1. sent' \in [Lists -> SUBSET Anime]
  BY DEF Forget, TypeOK
<1>2. steady' \in [Lists -> BOOLEAN]
  BY DEF Forget, TypeOK
<1>3. QED
  BY <1>1, <1>2
-----------------------------------------------------------------------------
(* The world's steps.                                                      *)

LEMMA InitInv == Init => DiscoveryInv
<1> SUFFICES ASSUME Init PROVE DiscoveryInv
  OBVIOUS
<1> USE DEF Init
<1>1. PICK s \in Scenarios :
          schedule = s.jobs /\ tenrai = s.tenrai /\ changes = s.changes /\ faults = s.faults
  OBVIOUS
<1>2. record \in [Lists -> Record]
  BY DEF NoRecord, Record
<1>3. TypeOK
  <2>1. schedule \subseteq Jobs /\ tenrai \in [Anime -> TenraiStatus]
        /\ changes \in Nat /\ faults \in Nat
    BY <1>1, DiscoveryAssumption DEF Jobs, TenraiStatus
  <2>2. steady \in [Lists -> BOOLEAN]
    OBVIOUS
  <2>3. more \in BOOLEAN
    OBVIOUS
  <2>4. catalogue \in [Anime -> CatalogueStatus] /\ task \in [Anime -> TaskStatus]
    BY DEF CatalogueStatus, TaskStatus
  <2>5. QED
    BY <1>2, <2>1, <2>2, <2>3, <2>4 DEF TypeOK
<1>4. PagesBehindAreSent
  BY DEF PagesBehindAreSent, RunIsCovered, Covered, NoRecord
<1>5. WithinLimit
  BY DiscoveryAssumption DEF WithinLimit, NoRecord, Lists, Monthly
<1>6. RecordsAreTrue
  BY DEF RecordsAreTrue, NoRecord
<1>7. QED
  BY <1>3, <1>4, <1>5, <1>6 DEF DiscoveryInv

\* A step that leaves lists, records and trace alone.
LEMMA FrameInv ==
    ASSUME DiscoveryInv, UNCHANGED <<tenrai, list, page, rows, more, record, sent, steady>>,
           pc' \in {"request", "commit", "recorded"} => pc' = pc
    PROVE  PagesBehindAreSent' /\ WithinLimit' /\ RecordsAreTrue'
<1>1. \A l : Listing(l)' = Listing(l)
  BY SameTenrai
<1>2. \A l \in Lists : Covered(l)'
  BY CoveredKept, ContinuedKept DEF DiscoveryInv, PagesBehindAreSent
<1>3. RunIsCovered'
  <2>1. \A l, n : AtLimit(l, n)' = AtLimit(l, n)
    BY DEF AtLimit
  <2>2. QED
    BY <1>1, <2>1, SameLists DEF DiscoveryInv, PagesBehindAreSent, RunIsCovered
<1>4. WithinLimit'
  BY DEF DiscoveryInv, WithinLimit, AtLimit
<1>5. RecordsAreTrue'
  BY DEF DiscoveryInv, RecordsAreTrue
<1>6. QED
  BY <1>2, <1>3, <1>4, <1>5 DEF PagesBehindAreSent

LEMMA TenraiChangesInv ==
    ASSUME DiscoveryInv, NEW a \in Anime, TenraiChanges(a)
    PROVE  DiscoveryInv'
<1> USE DEF TenraiChanges, data, request
<1>1. steady' \in [Lists -> BOOLEAN]
  OBVIOUS
<1>2. TypeOK'
  <2>1. tenrai' \in [Anime -> TenraiStatus] /\ changes' \in Nat
    BY DEF DiscoveryInv, TypeOK, TenraiStatus
  <2>2. more' \in BOOLEAN
    BY DEF DiscoveryInv, TypeOK
  <2>3. QED
    BY <1>1, <2>1, <2>2 DEF DiscoveryInv, TypeOK
<1>3. \A l \in Lists : Continued(l)' = Continued(l)
  BY DEF Continued, ResumePages, MayResume
<1>4. \A l \in Lists : Continued(l) /\ steady'[l] => steady[l] /\ Listing(l)' = Listing(l)
  OBVIOUS
<1>5. \A l \in Lists : Covered(l)'
  BY <1>3, <1>4, SameLists DEF DiscoveryInv, PagesBehindAreSent, Covered
<1>6. RunIsCovered'
  <2> SUFFICES ASSUME pc \in {"request", "commit", "recorded"}, steady'[list]
               PROVE  RunIsCovered'
    BY DEF RunIsCovered
  <2>1. list \in Lists /\ Continued(list)
    BY DEF DiscoveryInv, TypeOK, Continued
  <2>2. steady[list] /\ Listing(list)' = Listing(list)
    BY <1>4, <2>1
  <2>3. \A n : AtLimit(list, n)' = AtLimit(list, n)
    BY DEF AtLimit
  <2>4. /\ \A n : Before(list, n)' = Before(list, n)
        /\ \A n : Page(list, n)' = Page(list, n)
        /\ \A n : HasNext(list, n)' = HasNext(list, n)
        /\ Wanted(list)' = Wanted(list)
    BY <2>2, SameLists
  <2>5. QED
    BY <2>2, <2>3, <2>4 DEF DiscoveryInv, PagesBehindAreSent, RunIsCovered
<1>7. WithinLimit' /\ RecordsAreTrue'
  BY DEF DiscoveryInv, WithinLimit, RecordsAreTrue, AtLimit
<1>8. QED
  BY <1>2, <1>5, <1>6, <1>7 DEF DiscoveryInv, PagesBehindAreSent

LEMMA RecordAgesInv ==
    ASSUME DiscoveryInv, NEW l \in Lists, RecordAges(l)
    PROVE  DiscoveryInv'
<1> USE DEF RecordAges, world, data, request
<1>1. TypeOK
  BY DEF DiscoveryInv
<1>2. /\ record' = [record EXCEPT ![l].status = "stale"]
      /\ record[l] \in Record /\ record[l].status = "failed"
  BY <1>1 DEF TypeOK
<1>3. /\ record'[l].status = "stale" /\ record'[l].page = record[l].page
      /\ record' \in [Lists -> Record]
      /\ \A k \in Lists : k # l => record'[k] = record[k]
  BY <1>1, <1>2 DEF TypeOK, Record
<1>4. sent' \in [Lists -> SUBSET Anime] /\ steady' \in [Lists -> BOOLEAN]
  BY <1>1, ForgetType DEF TypeOK, trace
<1>5. TypeOK'
  <2>1. more' \in BOOLEAN
    BY <1>1 DEF TypeOK
  <2>2. QED
    BY <1>1, <1>3, <1>4, <2>1 DEF TypeOK
<1>6. ~(list = l /\ pc \in {"request", "commit", "recorded"})
  BY <1>2 DEF DiscoveryInv, RecordsAreTrue
<1>7. \A k \in Lists : k # l => sent'[k] = sent[k] /\ steady'[k] = steady[k]
  BY <1>1, OthersKept DEF trace
<1>8. Covered(l)'
  <2>1. CASE l \in OnePass
    <3>1. Continued(l)' = Continued(l)
      <4>1. MayResume(l)' /\ MayResume(l)
        BY <2>1, <1>2, <1>3 DEF MayResume
      <4>2. ResumePages(l)' = ResumePages(l)
        BY <2>1, <1>3, <4>1 DEF ResumePages
      <4>3. QED
        BY <4>2 DEF Continued
    <3>2. Listing(l)' = Listing(l)
      BY SameTenrai
    <3>3. sent' = sent /\ steady' = steady
      BY <2>1 DEF trace
    <3>4. Covered(l)
      BY DEF DiscoveryInv, PagesBehindAreSent
    <3>5. QED
      BY <1>2, <1>3, <3>1, <3>2, <3>3, <3>4, SameLists DEF Covered
  <2>2. CASE l \notin OnePass
    <3>1. ~Continued(l)'
      BY <2>2, <1>3, <1>6 DEF Continued, ResumePages, MayResume
    <3>2. QED
      BY <3>1 DEF Covered
  <2>3. QED
    BY <2>1, <2>2
<1>9. \A k \in Lists : Covered(k)'
  <2>1. ASSUME NEW k \in Lists, k # l PROVE Covered(k)'
    BY <2>1, <1>3, <1>7, CoveredKept, ContinuedKept DEF DiscoveryInv, PagesBehindAreSent
  <2>2. QED
    BY <1>8, <2>1
<1>10. RunIsCovered'
  <2>1. SUFFICES ASSUME pc \in {"request", "commit", "recorded"} PROVE RunIsCovered'
    BY DEF RunIsCovered
  <2>2. list \in Lists /\ list # l
    BY <1>1, <1>6, <2>1 DEF TypeOK
  <2>3. sent'[list] = sent[list] /\ steady'[list] = steady[list]
    BY <1>7, <2>2
  <2>4. Listing(list)' = Listing(list)
    BY SameTenrai
  <2>5. \A n : AtLimit(list, n)' = AtLimit(list, n)
    BY DEF AtLimit
  <2>6. QED
    BY <2>3, <2>4, <2>5, SameLists DEF DiscoveryInv, PagesBehindAreSent, RunIsCovered
<1>11. WithinLimit'
  <2>1. record'["popular"].page = record["popular"].page
    BY <1>3 DEF Lists, Monthly
  <2>2. QED
    BY <2>1 DEF DiscoveryInv, WithinLimit, AtLimit
<1>12. RecordsAreTrue'
  <2>1. pc \in {"request", "commit", "recorded"} => record'[list].status = "running"
    BY <1>1, <1>3, <1>6 DEF DiscoveryInv, RecordsAreTrue, TypeOK
  <2>2. \A k \in Lists :
            record'[k].status \in {"failed", "stale"} => record'[k].page # 0
    BY <1>2, <1>3 DEF DiscoveryInv, RecordsAreTrue
  <2>3. QED
    BY <2>1, <2>2 DEF RecordsAreTrue
<1>13. QED
  BY <1>5, <1>9, <1>10, <1>11, <1>12 DEF DiscoveryInv, PagesBehindAreSent

\* Fetch and clean, and the catalogue's step.
LEMMA SettledInv ==
    ASSUME DiscoveryInv, \/ \E a \in Anime : Refreshed(a) \/ NotRefreshed(a)
                         \/ ResetKnownLive
    PROVE  DiscoveryInv'
<1> USE DEF world, request, trace, data
<1>1. TypeOK
  BY DEF DiscoveryInv
<1>2. task' \in [Anime -> TaskStatus]
  <2>1. CASE \E a \in Anime : Refreshed(a)
    BY <1>1, <2>1 DEF Refreshed, TypeOK, TaskStatus
  <2>2. CASE \E a \in Anime : NotRefreshed(a)
    BY <1>1, <2>2 DEF NotRefreshed, TypeOK, TaskStatus
  <2>3. CASE ResetKnownLive
    BY <1>1, <2>3 DEF ResetKnownLive, SendBack, TypeOK, TaskStatus
  <2>4. QED
    BY <2>1, <2>2, <2>3
<1>3. catalogue' \in [Anime -> CatalogueStatus]
  BY <1>1 DEF Refreshed, NotRefreshed, ResetKnownLive, TypeOK, CatalogueStatus, Parsed
<1>4. /\ pc' = pc \/ pc' = "idle"
      /\ UNCHANGED <<schedule, tenrai, changes, list, page, rows, more, record, sent,
                     steady, faults>>
  BY DEF Refreshed, NotRefreshed, ResetKnownLive
<1>5. TypeOK'
  <2>1. more' \in BOOLEAN
    BY <1>1, <1>4 DEF TypeOK
  <2>2. steady' \in [Lists -> BOOLEAN]
    BY <1>1, <1>4 DEF TypeOK
  <2>3. QED
    BY <1>1, <1>2, <1>3, <1>4, <2>1, <2>2 DEF TypeOK
<1>6. QED
  BY <1>4, <1>5, FrameInv DEF DiscoveryInv

LEMMA StartInv ==
    ASSUME DiscoveryInv, NEW j \in Jobs, Start(j)
    PROVE  DiscoveryInv'
<1> USE DEF Start, world, data, trace
<1>1. TypeOK
  BY DEF DiscoveryInv
<1>2. list' \in Lists
  BY DEF Jobs, FirstList, Lists, Weekly, Monthly, OnePass
<1>3. TypeOK'
  <2>1. more' \in BOOLEAN
    BY <1>1 DEF TypeOK
  <2>2. steady' \in [Lists -> BOOLEAN]
    BY <1>1 DEF TypeOK
  <2>3. QED
    BY <1>1, <1>2, <2>1, <2>2 DEF TypeOK
<1>4. \A l \in Lists : Covered(l)'
  BY CoveredKept, ContinuedKept DEF DiscoveryInv, PagesBehindAreSent
<1>5. RunIsCovered' /\ WithinLimit' /\ RecordsAreTrue'
  BY DEF DiscoveryInv, RunIsCovered, WithinLimit, RecordsAreTrue
<1>6. QED
  BY <1>3, <1>4, <1>5 DEF DiscoveryInv, PagesBehindAreSent

\* A run of a list begins, at the first page or where the last one failed.
LEMMA BeginListInv ==
    ASSUME DiscoveryInv, BeginList
    PROVE  DiscoveryInv'
<1> USE DEF BeginList, world, data
<1>1. TypeOK /\ list \in Lists
  BY DEF DiscoveryInv, TypeOK
<1>2. /\ record'[list].status = "running" /\ record'[list].page = 0
      /\ record' \in [Lists -> Record]
      /\ \A k \in Lists : k # list => record'[k] = record[k]
  <2>1. [status |-> "running", page |-> 0] \in Record
    BY DEF Record
  <2>2. record' = [record EXCEPT ![list] = [status |-> "running", page |-> 0]]
    OBVIOUS
  <2>3. QED
    BY <1>1, <2>1, <2>2 DEF TypeOK
<1>3. record[list].page \in Nat
  BY <1>1 DEF TypeOK, Record
<1>4. \/ page' = 1
      \/ page' = record[list].page /\ MayResume(list)
  BY DEF ResumePages
<1>5. MayResume(list) => record[list].status \in {"failed", "stale"} /\ record[list].page # 0
  BY <1>1 DEF MayResume, DiscoveryInv, RecordsAreTrue
<1>6. page' \in Nat \ {0}
  BY <1>3, <1>4, <1>5
<1>7. sent' \in [Lists -> SUBSET Anime] /\ steady' \in [Lists -> BOOLEAN]
  <2>1. CASE page' = 1
    BY <1>1, <2>1, ForgetType
  <2>2. CASE page' # 1
    BY <1>1, <2>2 DEF trace, TypeOK
  <2>3. QED
    BY <2>1, <2>2
<1>8. TypeOK'
  <2>1. more' \in BOOLEAN
    BY <1>1 DEF TypeOK
  <2>2. QED
    BY <1>1, <1>2, <1>6, <1>7, <2>1 DEF TypeOK
<1>9. \A k \in Lists : k # list => sent'[k] = sent[k] /\ steady'[k] = steady[k]
  BY <1>1, OthersKept DEF trace
<1>10. Listing(list)' = Listing(list)
  BY SameTenrai
<1>11. steady'[list] => Before(list, page') \subseteq sent'[list] /\ sent'[list] \subseteq Wanted(list)
  <2>1. CASE page' = 1
    <3>1. sent'[list] = {}
      BY <1>1, <2>1 DEF Forget, TypeOK
    <3>2. QED
      BY <2>1, <3>1, NothingBeforeFirst
  <2>2. CASE page' # 1
    <3>1. Continued(list)
      BY <2>2 DEF Continued
    <3>2. sent' = sent /\ steady' = steady
      BY <2>2 DEF trace
    <3>3. Covered(list)
      BY <1>1 DEF DiscoveryInv, PagesBehindAreSent
    <3>4. QED
      BY <1>4, <1>5, <2>2, <3>1, <3>2, <3>3 DEF Covered
  <2>3. QED
    BY <2>1, <2>2
<1>12. \A n : Before(list, n)' = Before(list, n) /\ Wanted(list)' = Wanted(list)
  BY <1>10, SameLists
<1>13. Covered(list)'
  BY <1>2, <1>11, <1>12 DEF Covered
<1>14. \A k \in Lists : Covered(k)'
  <2>1. ASSUME NEW k \in Lists, k # list PROVE Covered(k)'
    BY <2>1, <1>2, <1>9, CoveredKept, ContinuedKept DEF DiscoveryInv, PagesBehindAreSent
  <2>2. QED
    BY <1>13, <2>1
<1>15. RunIsCovered'
  <2>1. Before(list, page') = Before(list, page)'
    BY <1>10, SameTenrai DEF Before, Place, Listing
  <2>2. QED
    BY <1>11, <2>1 DEF RunIsCovered
<1>16. WithinLimit'
  <2>1. record["popular"].page <= PopularPages /\ 1 <= PopularPages /\ 0 <= PopularPages
    BY DiscoveryAssumption DEF DiscoveryInv, WithinLimit
  <2>2. list = "popular" => page' <= PopularPages
    BY <1>4, <2>1
  <2>3. record'["popular"].page <= PopularPages
    BY <1>2, <2>1 DEF Lists, Monthly
  <2>4. QED
    BY <2>2, <2>3 DEF WithinLimit
<1>17. RecordsAreTrue'
  BY <1>1, <1>2 DEF DiscoveryInv, RecordsAreTrue
<1>18. QED
  BY <1>8, <1>14, <1>15, <1>16, <1>17 DEF DiscoveryInv, PagesBehindAreSent

LEMMA RequestPageInv ==
    ASSUME DiscoveryInv, RequestPage
    PROVE  DiscoveryInv'
<1> USE DEF RequestPage, world, data, trace
<1>1. TypeOK /\ list \in Lists
  BY DEF DiscoveryInv, TypeOK
<1>2. rows' \subseteq Anime
  BY ListingFinite DEF Page
<1>3. more' \in BOOLEAN
  OBVIOUS
<1>4. TypeOK'
  <2>1. steady' \in [Lists -> BOOLEAN]
    BY <1>1 DEF TypeOK
  <2>2. QED
    BY <1>1, <1>2, <1>3, <2>1 DEF TypeOK
<1>5. \A l \in Lists : Covered(l)'
  BY CoveredKept, ContinuedKept DEF DiscoveryInv, PagesBehindAreSent
<1>6. Listing(list)' = Listing(list)
  BY SameTenrai
<1>7. /\ Before(list, page)' = Before(list, page)
      /\ Page(list, page)' = Page(list, page)
      /\ HasNext(list, page)' = HasNext(list, page)
      /\ AtLimit(list, page)' = AtLimit(list, page)
  BY <1>6, SameLists DEF Before, Page, HasNext, AtLimit, Place
<1>8. RunIsCovered'
  BY <1>7 DEF DiscoveryInv, PagesBehindAreSent, RunIsCovered
<1>9. WithinLimit'
  BY <1>7 DEF DiscoveryInv, WithinLimit
<1>10. RecordsAreTrue'
  BY DEF DiscoveryInv, RecordsAreTrue
<1>11. QED
  BY <1>4, <1>5, <1>8, <1>9, <1>10 DEF DiscoveryInv, PagesBehindAreSent

LEMMA SentType ==
    ASSUME TypeOK
    PROVE  Sent(rows) \in [Anime -> TaskStatus]
BY DEF TypeOK, Sent, Insert, SendBack, TaskStatus

\* The page that is taken in moves the run on by one page, or ends it.
LEMMA CommitPageInv ==
    ASSUME DiscoveryInv, CommitPage
    PROVE  DiscoveryInv'
<1> USE DEF CommitPage, world
<1>1. TypeOK /\ list \in Lists /\ page \in Nat \ {0} /\ pc = "commit"
  BY DEF DiscoveryInv, TypeOK
<1>2. /\ sent' \in [Lists -> SUBSET Anime]
      /\ sent'[list] = sent[list] \cup rows
      /\ \A k \in Lists : k # list => sent'[k] = sent[k]
  BY <1>1 DEF TypeOK
<1>3. TypeOK'
  <2>1. more' \in BOOLEAN
    OBVIOUS
  <2>2. steady' \in [Lists -> BOOLEAN]
    BY <1>1 DEF TypeOK
  <2>3. page' \in Nat \ {0}
    BY <1>1
  <2>4. task' \in [Anime -> TaskStatus]
    BY <1>1, SentType
  <2>5. pc' \in {"request", "recorded"}
    OBVIOUS
  <2>6. QED
    BY <1>1, <1>2, <2>1, <2>2, <2>3, <2>4, <2>5 DEF TypeOK
<1>4. Listing(list)' = Listing(list)
  BY SameTenrai
<1>5. list = "popular" => page <= PopularPages
  BY <1>1 DEF DiscoveryInv, WithinLimit
<1>6. more /\ list = "popular" => page + 1 <= PopularPages
  <2>1. more /\ list = "popular" => ~(page >= PopularPages)
    BY <1>1 DEF DiscoveryInv, WithinLimit, AtLimit
  <2>2. QED
    BY <1>1, <2>1, DiscoveryAssumption
<1>7. ASSUME steady[list]
      PROVE  /\ rows = Page(list, page)
             /\ more = (HasNext(list, page) /\ ~AtLimit(list, page))
             /\ Before(list, page + 1) \subseteq sent'[list]
             /\ sent'[list] \subseteq Wanted(list)
  <2>1. /\ rows = Page(list, page)
        /\ more = (HasNext(list, page) /\ ~AtLimit(list, page))
        /\ Before(list, page) \subseteq sent[list]
    BY <1>1, <1>7 DEF DiscoveryInv, PagesBehindAreSent, RunIsCovered
  <2>2. Before(list, page + 1) \subseteq sent'[list]
    BY <1>1, <1>2, <2>1, BeforeNext
  <2>3. sent[list] \subseteq Wanted(list)
    BY <1>1, <1>7 DEF DiscoveryInv, PagesBehindAreSent, Covered, Continued
  <2>4. sent'[list] \subseteq Wanted(list)
    BY <1>1, <1>2, <1>5, <2>1, <2>3, PageIsWanted
  <2>5. QED
    BY <2>1, <2>2, <2>4
<1>8. RunIsCovered'
  <2>1. CASE more
    <3>1. pc' = "request" /\ page' = page + 1
      BY <2>1
    <3>2. Before(list, page)' = Before(list, page + 1)
      BY <3>1, <1>4, SameTenrai DEF Before, Place, Listing
    <3>3. steady[list] => Before(list, page)' \subseteq sent'[list]
      BY <1>7, <3>2
    <3>4. QED
      BY <3>1, <3>3 DEF RunIsCovered
  <2>2. CASE ~more
    <3>1. pc' = "recorded"
      BY <2>2
    <3>2. steady[list] => Wanted(list) \subseteq Before(list, page + 1)
      BY <2>2, <1>1, <1>7, LastPage
    <3>3. steady[list] => Wanted(list) \subseteq sent'[list]
      BY <1>7, <3>2
    <3>4. Wanted(list)' = Wanted(list)
      BY <1>4, SameLists
    <3>5. QED
      BY <3>1, <3>3, <3>4 DEF RunIsCovered
  <2>3. QED
    BY <2>1, <2>2
<1>9. Covered(list)'
  <2>1. record'[list].status = "running"
    BY <1>1 DEF DiscoveryInv, RecordsAreTrue
  <2>2. Wanted(list)' = Wanted(list)
    BY <1>4, SameLists
  <2>3. QED
    BY <1>7, <2>1, <2>2 DEF Covered
<1>10. \A k \in Lists : Covered(k)'
  <2>1. ASSUME NEW k \in Lists, k # list PROVE Covered(k)'
    BY <2>1, <1>2, CoveredKept, ContinuedKept DEF DiscoveryInv, PagesBehindAreSent
  <2>2. QED
    BY <1>9, <2>1
<1>11. WithinLimit'
  <2>1. pc' = "request" /\ list' = "popular" => page' <= PopularPages
    BY <1>6
  <2>2. pc' # "commit"
    OBVIOUS
  <2>3. QED
    BY <2>1, <2>2 DEF DiscoveryInv, WithinLimit
<1>12. RecordsAreTrue'
  BY DEF DiscoveryInv, RecordsAreTrue
<1>13. QED
  BY <1>3, <1>8, <1>10, <1>11, <1>12 DEF DiscoveryInv, PagesBehindAreSent

\* The run of a list ends and its trace is forgotten.
LEMMA EndListInv ==
    ASSUME DiscoveryInv, EndList
    PROVE  DiscoveryInv'
<1> USE DEF EndList, world, data
<1>1. TypeOK /\ list \in Lists /\ pc = "recorded" /\ record[list].status = "running"
  BY DEF DiscoveryInv, TypeOK, RecordsAreTrue
<1>2. /\ record' \in [Lists -> Record]
      /\ record'[list].status \in {"succeeded", "running"}
      /\ record'[list].page = 0 \/ record'[list] = record[list]
      /\ \A k \in Lists : k # list => record'[k] = record[k]
  <2>1. CASE record' = [record EXCEPT ![list] = [status |-> "succeeded", page |-> 0]]
    <3>1. [status |-> "succeeded", page |-> 0] \in Record
      BY DEF Record
    <3>2. QED
      BY <1>1, <2>1, <3>1 DEF TypeOK
  <2>2. CASE record' = record
    BY <1>1, <2>2 DEF TypeOK
  <2>3. QED
    BY <2>1, <2>2
<1>3. /\ pc' \in {"begin", "catalogue", "idle"}
      /\ pc' = "begin" => list' \in Lists
      /\ list' \in Lists \cup {"none"}
  BY DEF NextList, Lists, Weekly, Monthly
<1>4. sent' \in [Lists -> SUBSET Anime] /\ steady' \in [Lists -> BOOLEAN]
  BY <1>1, ForgetType
<1>5. TypeOK'
  <2>1. more' \in BOOLEAN
    BY <1>1 DEF TypeOK
  <2>2. faults' \in Nat
    BY <1>1 DEF TypeOK
  <2>3. QED
    BY <1>1, <1>2, <1>3, <1>4, <2>1, <2>2 DEF TypeOK
<1>6. ASSUME NEW k \in Lists, k = list PROVE Covered(k)'
  <2>1. Forget(k) /\ record'[k].status \notin {"failed", "stale"}
    BY <1>1, <1>2, <1>6
  <2>2. QED
    BY <1>1, <2>1, ForgottenCovered
<1>7. \A k \in Lists : Covered(k)'
  <2>1. ASSUME NEW k \in Lists, k # list PROVE Covered(k)'
    <3>1. sent'[k] = sent[k] /\ steady'[k] = steady[k]
      BY <1>1, <2>1, OthersKept
    <3>2. QED
      BY <2>1, <3>1, <1>2, <1>3, CoveredKept, ContinuedKept DEF DiscoveryInv, PagesBehindAreSent
  <2>2. QED
    BY <1>6, <2>1
<1>8. RunIsCovered'
  BY <1>3 DEF RunIsCovered
<1>9. WithinLimit'
  <2>1. record'["popular"].page <= PopularPages
    BY <1>2, DiscoveryAssumption DEF DiscoveryInv, WithinLimit, Lists, Monthly
  <2>2. QED
    BY <1>3, <2>1 DEF WithinLimit
<1>10. RecordsAreTrue'
  BY <1>2, <1>3 DEF DiscoveryInv, RecordsAreTrue
<1>11. QED
  BY <1>5, <1>7, <1>8, <1>9, <1>10 DEF DiscoveryInv, PagesBehindAreSent

\* The record of a failed run has the page that failed; or the record stays
\* running.  Either way nothing else is disturbed.
LEMMA FailInListInv ==
    ASSUME DiscoveryInv, FailInList
    PROVE  DiscoveryInv'
<1> USE DEF FailInList, Stop, world
<1>1. TypeOK /\ list \in Lists /\ page \in Nat \ {0} /\ pc \in {"request", "commit"}
      /\ record[list].status = "running"
  BY DEF DiscoveryInv, TypeOK, RecordsAreTrue
<1>2. PICK anime : /\ Recorded(anime)
                   /\ \/ anime = sent[list]
                      \/ pc = "commit" /\ anime = sent[list] \cup rows
  OBVIOUS
<1>3. anime \subseteq Anime
  BY <1>1, <1>2 DEF TypeOK
<1>4. task' \in [Anime -> TaskStatus]
  BY <1>1, SentType DEF TypeOK
<1>5. list = "popular" => page <= PopularPages
  BY <1>1 DEF DiscoveryInv, WithinLimit
<1>6. ASSUME steady[list]
      PROVE  Before(list, page) \subseteq anime /\ anime \subseteq Wanted(list)
  <2>1. Before(list, page) \subseteq sent[list]
    BY <1>1, <1>6 DEF DiscoveryInv, PagesBehindAreSent, RunIsCovered
  <2>2. sent[list] \subseteq Wanted(list)
    BY <1>1, <1>6 DEF DiscoveryInv, PagesBehindAreSent, Covered, Continued
  <2>3. pc = "commit" => rows \subseteq Wanted(list)
    BY <1>1, <1>5, <1>6, PageIsWanted DEF DiscoveryInv, PagesBehindAreSent, RunIsCovered
  <2>4. QED
    BY <1>2, <2>1, <2>2, <2>3
<1>7. \/ Forget(list)
      \/ /\ sent' = [sent EXCEPT ![list] = anime]
         /\ steady' = steady
         /\ page # 1
         /\ record'[list].status = "failed"
  BY <1>1, <1>2 DEF Recorded, TypeOK
<1>8. /\ record' \in [Lists -> Record]
      /\ \A k \in Lists : k # list => record'[k] = record[k]
      /\ \/ record' = record
         \/ record'[list].status = "failed" /\ record'[list].page = page
  <2>1. CASE record' = [record EXCEPT ![list] = [status |-> "failed", page |-> page]]
    <3>1. [status |-> "failed", page |-> page] \in Record
      BY <1>1 DEF Record
    <3>2. QED
      BY <1>1, <2>1, <3>1 DEF TypeOK
  <2>2. CASE record' = record
    BY <1>1, <2>2 DEF TypeOK
  <2>3. QED
    BY <1>2, <2>1, <2>2 DEF Recorded
<1>9. sent' \in [Lists -> SUBSET Anime] /\ steady' \in [Lists -> BOOLEAN]
  <2>1. CASE Forget(list)
    BY <1>1, <2>1, ForgetType
  <2>2. CASE sent' = [sent EXCEPT ![list] = anime] /\ steady' = steady
    <3>1. sent' \in [Lists -> SUBSET Anime]
      BY <1>1, <1>3, <2>2 DEF TypeOK
    <3>2. steady' \in [Lists -> BOOLEAN]
      BY <1>1, <2>2 DEF TypeOK
    <3>3. QED
      BY <3>1, <3>2
  <2>3. QED
    BY <1>7, <2>1, <2>2
<1>10. TypeOK'
  <2>1. more' \in BOOLEAN
    OBVIOUS
  <2>2. faults' \in Nat
    BY <1>1 DEF TypeOK
  <2>3. QED
    BY <1>1, <1>4, <1>8, <1>9, <2>1, <2>2 DEF TypeOK
<1>11. \A k \in Lists : Before(k, page)' = Before(k, page') /\ Wanted(k)' = Wanted(k)
  BY SameTenrai, SameLists DEF Before, Place, Listing
<1>12. ASSUME NEW k \in Lists, k = list PROVE Covered(k)'
  <2>1. Listing(k)' = Listing(k)
    BY SameTenrai
  <2>2. CASE Forget(list) /\ record' = record
    BY <1>1, <1>12, <2>2, ForgottenCovered
  <2>3. CASE Forget(list) /\ record'[k].status = "failed" /\ record'[k].page = page /\ page = 1
    <3>1. ~Continued(k)'
      BY <2>3 DEF Continued, ResumePages, MayResume
    <3>2. QED
      BY <3>1 DEF Covered
  <2>4. CASE /\ sent' = [sent EXCEPT ![list] = anime] /\ steady' = steady
             /\ record'[k].page = page
    <3>1. sent'[k] = anime
      BY <1>1, <1>12, <2>4 DEF TypeOK
    <3>2. Before(k, record[k].page)' = Before(k, page)
      BY <2>1, <2>4 DEF Before, Place
    <3>3. Wanted(k)' = Wanted(k)
      BY <2>1, SameLists
    <3>4. QED
      BY <1>6, <1>12, <2>4, <3>1, <3>2, <3>3 DEF Covered
  <2>5. QED
    <3>1. CASE record' = record
      BY <1>1, <1>7, <1>12, <2>2, <3>1
    <3>2. CASE record' = [record EXCEPT ![list] = [status |-> "failed", page |-> page]]
      <4>1. record'[k].status = "failed" /\ record'[k].page = page
        BY <1>1, <1>12, <3>2 DEF TypeOK
      <4>2. CASE page = 1
        BY <1>7, <2>3, <4>1, <4>2
      <4>3. CASE page # 1
        <5>1. record # record'
          BY <1>1, <1>12, <4>1
        <5>2. sent' = [sent EXCEPT ![list] = anime] /\ steady' = steady
          BY <1>2, <4>3, <5>1 DEF Recorded
        <5>3. QED
          BY <2>4, <4>1, <5>2
      <4>4. QED
        BY <4>2, <4>3
    <3>3. QED
      BY <1>2, <3>1, <3>2 DEF Recorded
<1>13. \A k \in Lists : Covered(k)'
  <2>1. ASSUME NEW k \in Lists, k # list PROVE Covered(k)'
    <3>1. sent'[k] = sent[k] /\ steady'[k] = steady[k]
      BY <1>1, <1>7, <2>1, OthersKept DEF TypeOK
    <3>2. QED
      BY <2>1, <3>1, <1>8, CoveredKept, ContinuedKept DEF DiscoveryInv, PagesBehindAreSent
  <2>2. QED
    BY <1>12, <2>1
<1>14. WithinLimit'
  <2>1. record'["popular"].page <= PopularPages
    BY <1>5, <1>8 DEF DiscoveryInv, WithinLimit, Lists, Monthly
  <2>2. QED
    BY <2>1 DEF WithinLimit
<1>15. RecordsAreTrue'
  BY <1>1, <1>8 DEF DiscoveryInv, RecordsAreTrue
<1>16. RunIsCovered'
  BY DEF RunIsCovered
<1>17. QED
  BY <1>10, <1>13, <1>14, <1>15, <1>16 DEF DiscoveryInv, PagesBehindAreSent

LEMMA FailBetweenInv ==
    ASSUME DiscoveryInv, FailBetween
    PROVE  DiscoveryInv'
<1> USE DEF FailBetween, Stop, world, data
<1>1. TypeOK
  BY DEF DiscoveryInv
<1>2. pc = "recorded" => list \in Lists /\ record[list].status = "running"
  BY <1>1 DEF DiscoveryInv, TypeOK, RecordsAreTrue
<1>3. sent' \in [Lists -> SUBSET Anime] /\ steady' \in [Lists -> BOOLEAN]
  BY <1>1, <1>2, ForgetType DEF trace, TypeOK
<1>4. TypeOK'
  <2>1. more' \in BOOLEAN
    OBVIOUS
  <2>2. faults' \in Nat
    BY <1>1 DEF TypeOK
  <2>3. QED
    BY <1>1, <1>3, <2>1, <2>2 DEF TypeOK
<1>5. ASSUME NEW k \in Lists PROVE Covered(k)'
  <2>1. CASE pc = "recorded" /\ k = list
    <3>1. Forget(k) /\ record'[k].status \notin {"failed", "stale"}
      BY <1>2, <2>1
    <3>2. QED
      BY <1>1, <3>1, ForgottenCovered
  <2>2. CASE ~(pc = "recorded" /\ k = list)
    <3>1. sent'[k] = sent[k] /\ steady'[k] = steady[k]
      BY <1>1, <2>2, OthersKept DEF trace
    <3>2. QED
      BY <3>1, CoveredKept, ContinuedKept DEF DiscoveryInv, PagesBehindAreSent
  <2>3. QED
    BY <2>1, <2>2
<1>6. RunIsCovered' /\ WithinLimit' /\ RecordsAreTrue'
  BY DEF DiscoveryInv, RunIsCovered, WithinLimit, RecordsAreTrue
<1>7. QED
  BY <1>4, <1>5, <1>6 DEF DiscoveryInv, PagesBehindAreSent

-----------------------------------------------------------------------------
(* The theorems.                                                           *)

LEMMA NextInv == DiscoveryInv /\ [Next]_vars => DiscoveryInv'
<1> SUFFICES ASSUME DiscoveryInv, [Next]_vars PROVE DiscoveryInv'
  OBVIOUS
<1>1. CASE \E l \in Lists : RecordAges(l)
  BY <1>1, RecordAgesInv
<1>2. CASE \E a \in Anime : TenraiChanges(a)
  BY <1>2, TenraiChangesInv
<1>3. CASE (\E a \in Anime : Refreshed(a) \/ NotRefreshed(a)) \/ ResetKnownLive
  BY <1>3, SettledInv
<1>4. CASE \E j \in Jobs : Start(j)
  BY <1>4, StartInv
<1>5. CASE BeginList \/ RequestPage \/ CommitPage \/ EndList
  BY <1>5, BeginListInv, RequestPageInv, CommitPageInv, EndListInv
<1>6. CASE FailInList \/ FailBetween
  BY <1>6, FailInListInv, FailBetweenInv
<1>7. CASE UNCHANGED vars
  <2>1. UNCHANGED <<tenrai, list, page, rows, more, record, sent, steady>> /\ pc' = pc
    BY <1>7 DEF vars
  <2>2. TypeOK'
    <3>1. more' \in BOOLEAN
      BY <1>7 DEF vars, DiscoveryInv, TypeOK
    <3>2. steady' \in [Lists -> BOOLEAN]
      BY <1>7 DEF vars, DiscoveryInv, TypeOK
    <3>3. QED
      BY <1>7, <3>1, <3>2 DEF vars, DiscoveryInv, TypeOK
  <2>3. QED
    BY <2>1, <2>2, FrameInv DEF DiscoveryInv
<1>8. QED
  BY <1>1, <1>2, <1>3, <1>4, <1>5, <1>6, <1>7 DEF Next

\* Whatever fails, and whenever Tenrai's lists change: no page of a list that
\* kept still is passed over, none beyond the limit is read, and every record
\* says what its run did.
THEOREM DiscoveryInvariant == Spec => []DiscoveryInv
<1>1. QED
  BY InitInv, NextInv, PTL DEF Spec

\* Only the end of its run lets a list's record become succeeded.
LEMMA SuccessStep ==
    ASSUME DiscoveryInv, Next, NEW l \in Lists,
           record[l].status # "succeeded", record'[l].status = "succeeded"
    PROVE  EndList /\ l = list
<1>1. TypeOK
  BY DEF DiscoveryInv
<1>2. record' # record
  OBVIOUS
<1>3. ~\E k \in Lists : RecordAges(k)
  <2> SUFFICES ASSUME NEW k \in Lists, RecordAges(k) PROVE FALSE
    OBVIOUS
  <2>1. record' = [record EXCEPT ![k] = [record[k] EXCEPT !.status = "stale"]]
    BY DEF RecordAges
  <2>2. record[k] \in Record
    BY <1>1 DEF TypeOK
  <2>3. record'[k].status = "stale"
    BY <1>1, <2>1, <2>2 DEF TypeOK, Record
  <2>4. k # l => record'[l] = record[l]
    BY <1>1, <2>1 DEF TypeOK
  <2>5. QED
    BY <2>3, <2>4
<1>4. ~BeginList
  <2> SUFFICES ASSUME BeginList PROVE FALSE
    OBVIOUS
  <2>1. record' = [record EXCEPT ![list] = [status |-> "running", page |-> 0]]
    BY DEF BeginList
  <2>2. QED
    BY <1>1, <2>1 DEF TypeOK
<1>5. ~FailInList
  <2> SUFFICES ASSUME FailInList PROVE FALSE
    OBVIOUS
  <2>1. record' = [record EXCEPT ![list] = [status |-> "failed", page |-> page]]
    BY <1>2 DEF FailInList, Recorded
  <2>2. QED
    BY <1>1, <2>1 DEF TypeOK
<1>6. EndList
  BY <1>2, <1>3, <1>4, <1>5 DEF Next, TenraiChanges, Refreshed, NotRefreshed, Start,
     RequestPage, CommitPage, ResetKnownLive, FailBetween
<1>7. record' = [record EXCEPT ![list] = [status |-> "succeeded", page |-> 0]]
  BY <1>2, <1>6 DEF EndList
<1>8. QED
  BY <1>1, <1>6, <1>7 DEF TypeOK

LEMMA SuccessStepCovers ==
    ASSUME DiscoveryInv, [Next]_vars, NEW l \in Lists,
           record[l].status # "succeeded", record'[l].status = "succeeded", steady[l]
    PROVE  sent[l] = Wanted(l)
<1>1. Next
  BY DEF vars
<1>2. EndList /\ l = list
  BY <1>1, SuccessStep
<1>3. pc = "recorded"
  BY <1>2 DEF EndList
<1>4. Wanted(l) \subseteq sent[l]
  BY <1>2, <1>3 DEF DiscoveryInv, PagesBehindAreSent, RunIsCovered
<1>5. sent[l] \subseteq Wanted(l)
  BY <1>2, <1>3 DEF DiscoveryInv, PagesBehindAreSent, Covered, Continued
<1>6. QED
  BY <1>4, <1>5

\* A list that a chain of failed runs and a last one has read is sent from its
\* first to its last wanted entry, and no further, if it kept still.
THEOREM SuccessCovers == Spec => SuccessCoversList
<1>1. DiscoveryInv /\ [Next]_vars =>
          [\A l \in Lists :
              /\ record[l].status # "succeeded"
              /\ record'[l].status = "succeeded"
              /\ steady[l]
              => sent[l] = Wanted(l)]_vars
  BY SuccessStepCovers
<1>2. QED
  BY <1>1, DiscoveryInvariant, PTL DEF Spec, SuccessCoversList

-----------------------------------------------------------------------------
(* The states of a task.                                                   *)

\* What a discovery does to the tasks of some anime: it sends those that may
\* be sent, or only those that are not there yet.
LEMMA SentInCycle ==
    ASSUME NEW A \in SUBSET Anime, task \in [Anime -> TaskStatus],
           task' = SendBack(A) \/ task' = Insert(A)
    PROVE  Cycle!CycleNext
<1>1. CASE task' = SendBack(A)
  <2> DEFINE S == {a \in A : task[a] \in {"absent", "done", "failed"}}
  <2>1. task' = [a \in Anime |-> IF a \in S THEN "pending" ELSE task[a]]
    BY <1>1 DEF SendBack
  <2>2. Cycle!Send(S) /\ S \in SUBSET Anime
    BY <2>1 DEF Cycle!Send
  <2> QED
    BY <2>2 DEF Cycle!CycleNext
<1>2. CASE task' = Insert(A)
  <2> DEFINE S == {a \in A : task[a] = "absent"}
  <2>1. task' = [a \in Anime |-> IF a \in S THEN "pending" ELSE task[a]]
    BY <1>2 DEF Insert
  <2>2. Cycle!Send(S) /\ S \in SUBSET Anime
    BY <2>1 DEF Cycle!Send
  <2> QED
    BY <2>2 DEF Cycle!CycleNext
<1> QED
  BY <1>1, <1>2

\* _discover_list, _reset_active_from_catalogue, and what stands for fetch and
\* clean take the tasks through their states as FetchJob does: whatever page is
\* committed, again or in part, no task is sent while it is dead or pending.
THEOREM DiscoveryKeepsCycle == Spec => KeepsCycle
<1>1. Init => Cycle!CycleInit
  BY DEF Init, Cycle!CycleInit
<1>2. DiscoveryInv /\ [Next]_vars => [Cycle!CycleNext]_task
  <2> SUFFICES ASSUME DiscoveryInv, [Next]_vars
               PROVE  Cycle!CycleNext \/ task' = task
    OBVIOUS
  <2>1. task \in [Anime -> TaskStatus] /\ rows \in SUBSET Anime
    BY DEF DiscoveryInv, TypeOK
  <2>2. ASSUME task' = Sent(rows)
        PROVE  Cycle!CycleNext
    BY <2>1, <2>2, SentInCycle DEF Sent
  <2>3. ASSUME ResetKnownLive
        PROVE  Cycle!CycleNext
    <3>1. KnownLive \in SUBSET Anime
      BY DEF KnownLive
    <3> QED
      BY <2>1, <2>3, <3>1, SentInCycle DEF ResetKnownLive
  <2>4. ASSUME NEW a \in Anime, Refreshed(a) \/ NotRefreshed(a)
        PROVE  Cycle!CycleNext
    <3>1. Cycle!Attempt(a)
      BY <2>4 DEF Refreshed, NotRefreshed, Cycle!Attempt
    <3> QED
      BY <3>1 DEF Cycle!CycleNext
  <2> QED
    BY <2>2, <2>3, <2>4
    DEF Next, vars, data, RecordAges, TenraiChanges, Start, BeginList, RequestPage,
        CommitPage, EndList, FailInList, FailBetween
<1> QED
  BY <1>1, <1>2, DiscoveryInvariant, PTL DEF Spec, KeepsCycle, Cycle!CycleSpec

\* Nothing that FetchJob may do to a task is missing in Discovery: while no
\* discovery runs, any attempt of the cycle, with the catalogue learning what a
\* done task brought, is Refreshed, NotRefreshed, or leaves everything alone.
THEOREM AttemptsAreForeseen ==
    ASSUME DiscoveryInv, pc = "idle", NEW a \in Anime, Cycle!Attempt(a),
           catalogue' = IF task'[a] = "done"
                        THEN [catalogue EXCEPT ![a] = Parsed(tenrai[a])]
                        ELSE catalogue,
           UNCHANGED <<world, pc, request, record, trace, faults>>
    PROVE  [Refreshed(a) \/ NotRefreshed(a)]_vars
<1>1. task \in [Anime -> TaskStatus]
  BY DEF DiscoveryInv, TypeOK
<1>2. PICK s \in {"done", "failed", "dead"} : task' = [task EXCEPT ![a] = s]
  BY DEF Cycle!Attempt
<1>3. task[a] \in {"pending", "failed"} /\ task'[a] = s
  BY <1>1, <1>2 DEF Cycle!Attempt
<1>4. CASE s = "done"
  BY <1>2, <1>3, <1>4 DEF Refreshed
<1>5. CASE s = "dead"
  BY <1>2, <1>3, <1>5 DEF NotRefreshed
<1>6. CASE s = "failed" /\ task[a] = "pending"
  BY <1>2, <1>3, <1>6 DEF NotRefreshed
<1>7. CASE s = "failed" /\ task[a] = "failed"
  <2>1. task' = task /\ catalogue' = catalogue
    BY <1>1, <1>2, <1>3, <1>7
  <2> QED
    BY <2>1 DEF vars, world, request, trace
<1> QED
  BY <1>3, <1>4, <1>5, <1>6, <1>7
=============================================================================
