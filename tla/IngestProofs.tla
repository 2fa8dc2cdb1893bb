---------------------------- MODULE IngestProofs ----------------------------
(***************************************************************************)
(* A walk of the source that reached its end has stored every row it owes:  *)
(* for any number of rows, any page sizes and any number of callers that    *)
(* run at once.                                                             *)
(*                                                                          *)
(* The invariant follows each owed row on its way: it is ahead of the       *)
(* cursor, on the page at hand, written and not committed, or stored; or    *)
(* it has fallen below the floor.                                           *)
(***************************************************************************)
EXTENDS Ingest, FiniteSetTheorems, WellFoundedInduction, TLAPS

Fetched == [date : Nat, ver : Nat]
Stored == [of : Row, date : Nat, ver : Nat]
Keys == {KeysOf[b][i] : b \in BOOLEAN, i \in Row}

(* What the source publishes, and a page of it.                              *)
Published == UNION {[S -> Fetched] : S \in SUBSET Row}
(* crime_incidents, and what a transaction has written of it.                *)
Table == UNION {[S -> Stored] : S \in SUBSET Keys}

Request ==
    [at : {"idle", "walk", "apply", "purge"}, floor : Nat, upto : Nat, cursor : Nat \X Nat,
     pages : Nat, page : Published, more : BOOLEAN, wrote : Table,
     stage : {"update", "insert", "again"}, began : Nat, owes : SUBSET Row]

IngestType ==
    /\ rolling \in BOOLEAN /\ today \in Nat
    /\ source \in Published /\ IsFiniteSet(DOMAIN source)
    /\ store \in Table /\ run \in [Run -> Request]
    /\ limit \in [Run -> Nat \ {0}]

OneDate ==
    \A i, j \in DOMAIN source :
      KeyOf[i] = KeyOf[j] /\ KeyOf[i] # NoKey => source[i].date = source[j].date

(* Rows of a table are rows the source has published, under their key.       *)
Holds(table) ==
    \A k \in DOMAIN table :
      /\ k # NoKey
      /\ \E i \in DOMAIN source : KeyOf[i] = k /\ table[k].date = source[i].date

Below(i) == source[i].date < Floor(today)

Ahead(r, i) ==
    /\ At(r, "walk") \/ (At(r, "apply") /\ run[r].more)
    /\ After(i, run[r].cursor) /\ source[i].date <= run[r].upto

Accounted(r, i) ==
    \/ KeyOf[i] = NoKey \/ Below(i)
    \/ KeyOf[i] \in DOMAIN store \/ KeyOf[i] \in DOMAIN run[r].wrote
    \/ \E j \in DOMAIN run[r].page : KeyOf[j] = KeyOf[i]
    \/ Ahead(r, i)

PageInv(r) ==
    \A i \in DOMAIN run[r].page :
      /\ i \in DOMAIN source /\ KeyOf[i] # NoKey
      /\ run[r].page[i].date = source[i].date

RequestInv(r) ==
    /\ run[r].floor <= Floor(today)
    /\ run[r].owes \subseteq DOMAIN source
    /\ PageInv(r) /\ Holds(run[r].wrote)
    /\ ~At(r, "apply") => DOMAIN run[r].page = {} /\ DOMAIN run[r].wrote = {}
    /\ ~(At(r, "purge") /\ run[r].more) => \A i \in run[r].owes : Accounted(r, i)

IngestInv == IngestType /\ OneDate /\ Holds(store) /\ \A r \in Run : RequestInv(r)

-----------------------------------------------------------------------------
(* The keyset order.                                                         *)

(* The natural numbers, by a set that is closed under the successor.         *)
LEMMA NatInSet ==
  ASSUME NEW D, 0 \in D, \A n \in Nat : n \in D => n + 1 \in D
  PROVE  Nat \subseteq D
  <1> SUFFICES ASSUME Nat \ D # {} PROVE FALSE
    OBVIOUS
  <1> DEFINE T == Nat \ D
             R == OpToRel(<, Nat)
  <1>1. PICK x \in T : \A y \in T : ~ (<<y, x>> \in R)
    <2>1. IsWellFoundedOn(R, Nat)
      BY NatLessThanWellFounded
    <2>2. T \subseteq Nat /\ T # {}
      OBVIOUS
    <2> HIDE DEF T, R
    <2> QED BY <2>1, <2>2, WFMin
  <1> HIDE DEF R
  <1>2. x \in Nat /\ x # 0 /\ x - 1 \in Nat
    BY <1>1
  <1>3. x - 1 \in D => x \in D
    BY <1>2
  <1>4. x - 1 \in T
    BY <1>1, <1>2, <1>3
  <1>5. <<x - 1, x>> \in R
    BY <1>2 DEF OpToRel, R
  <1> QED BY <1>1, <1>4, <1>5

LEMMA Dates ==
  ASSUME IngestType
  PROVE  \A i \in DOMAIN source : i \in Row /\ i \in Nat /\ source[i].date \in Nat /\ source[i] \in Fetched
  <1>1. PICK S \in SUBSET Row : source \in [S -> Fetched]
    BY DEF IngestType, Published
  <1> QED BY <1>1, IngestAssumption DEF Fetched

LEMMA BeforeOrder ==
  ASSUME IngestType
  PROVE  /\ \A i, j \in DOMAIN source : i # j => Before(i, j) \/ Before(j, i)
         /\ \A i, j \in DOMAIN source : ~(Before(i, j) /\ Before(j, i))
         /\ \A i, j, k \in DOMAIN source : Before(i, j) /\ Before(j, k) => Before(i, k)
  BY Dates DEF Before

(* Some rows of the source have a first and a last one.                      *)
LEMMA Ends ==
  ASSUME IngestType, NEW S \in SUBSET DOMAIN source, S # {}
  PROVE  /\ Oldest(S) \in S /\ \A j \in S \ {Oldest(S)} : Before(Oldest(S), j)
         /\ Newest(S) \in S /\ \A j \in S \ {Newest(S)} : Before(j, Newest(S))
  <1> DEFINE HasEnds(Q) == /\ \E i \in Q : \A j \in Q \ {i} : Before(i, j)
                           /\ \E i \in Q : \A j \in Q \ {i} : Before(j, i)
             D == {n \in Nat : \A Q \in SUBSET DOMAIN source :
                                 Cardinality(Q) = n + 1 => HasEnds(Q)}
  <1>1. ASSUME NEW Q \in SUBSET DOMAIN source
        PROVE  IsFiniteSet(Q) /\ Cardinality(Q) \in Nat
    BY FS_Subset, FS_CardinalityType DEF IngestType
  <1>2. 0 \in D
    <2> SUFFICES ASSUME NEW Q \in SUBSET DOMAIN source, Cardinality(Q) = 1
                 PROVE  HasEnds(Q)
      OBVIOUS
    <2>1. PICK x : Q = {x}
      BY <1>1, FS_Singleton
    <2> QED BY <2>1
  <1>3. ASSUME NEW n \in Nat, n \in D
        PROVE  n + 1 \in D
    <2> SUFFICES ASSUME NEW Q \in SUBSET DOMAIN source, Cardinality(Q) = n + 2
                 PROVE  HasEnds(Q)
      OBVIOUS
    <2>1. PICK x \in Q : TRUE
      BY <1>1, FS_EmptySet
    <2>2. Cardinality(Q \ {x}) = n + 1
      BY <1>1, FS_RemoveElement
    <2>3. HasEnds(Q \ {x})
      BY <1>3, <2>2
    <2> HIDE DEF D
    <2>4. \E i \in Q : \A j \in Q \ {i} : Before(i, j)
      <3>1. PICK i \in Q \ {x} : \A j \in (Q \ {x}) \ {i} : Before(i, j)
        BY <2>3
      <3>2. CASE Before(i, x)
        BY <3>1, <3>2
      <3>3. CASE Before(x, i)
        BY <2>1, <3>1, <3>3, BeforeOrder
      <3> QED BY <2>1, <3>1, <3>2, <3>3, BeforeOrder
    <2>5. \E i \in Q : \A j \in Q \ {i} : Before(j, i)
      <3>1. PICK i \in Q \ {x} : \A j \in (Q \ {x}) \ {i} : Before(j, i)
        BY <2>3
      <3>2. CASE Before(x, i)
        BY <3>1, <3>2
      <3>3. CASE Before(i, x)
        BY <2>1, <3>1, <3>3, BeforeOrder
      <3> QED BY <2>1, <3>1, <3>2, <3>3, BeforeOrder
    <2> QED BY <2>4, <2>5
  <1> HIDE DEF D
  <1>4. Nat \subseteq D
    BY <1>2, <1>3, NatInSet
  <1>5. HasEnds(S)
    <2>1. Cardinality(S) - 1 \in Nat
      BY <1>1, FS_EmptySet
    <2>2. Cardinality(S) - 1 \in D
      BY <1>4, <2>1
    <2>3. Cardinality(S) = (Cardinality(S) - 1) + 1
      BY <1>1
    <2> QED BY <2>2, <2>3 DEF D
  <1> QED BY <1>5 DEF Oldest, Newest

Rank(due, i) == Cardinality({j \in due : Before(j, i)})
FirstOf(due, n) == {i \in due : Rank(due, i) < n}

(* A page that is not full is all that was due; what a full one leaves comes *)
(* after its last row.                                                       *)
LEMMA PageIsFirst ==
  ASSUME IngestType, NEW due \in SUBSET DOMAIN source, NEW n \in Nat \ {0},
         NEW page, page = FirstOf(due, n)
  PROVE  /\ page \subseteq due
         /\ page = {} => due = {}
         /\ page # due => Cardinality(page) = n
         /\ \A i \in due \ page : Before(Newest(page), i)
  <1> USE DEF FirstOf
  <1>1. ASSUME NEW Q \in SUBSET DOMAIN source
        PROVE  IsFiniteSet(Q) /\ Cardinality(Q) \in Nat
    BY FS_Subset, FS_CardinalityType DEF IngestType
  <1>2. ASSUME NEW i \in due
        PROVE  {j \in due : Before(j, i)} \in SUBSET DOMAIN source /\ Rank(due, i) \in Nat
    BY <1>1 DEF Rank
  <1>3. ASSUME NEW i \in due, NEW j \in due, Before(j, i)
        PROVE  Rank(due, j) <= Rank(due, i)
    <2>1. {k \in due : Before(k, j)} \subseteq {k \in due : Before(k, i)}
      BY <1>3, BeforeOrder
    <2> QED BY <1>1, <1>2, <2>1, FS_Subset DEF Rank
  <1>4. ASSUME NEW i \in due \ page, NEW j \in page
        PROVE  Before(j, i)
    <2>1. i # j /\ ~Before(i, j)
      <3>1. Rank(due, i) \in Nat /\ Rank(due, j) \in Nat /\ ~(Rank(due, i) < n) /\ Rank(due, j) < n
        BY <1>2
      <3> QED BY <1>3, <3>1
    <2> QED BY <2>1, BeforeOrder
  <1>5. page = {} => due = {}
    <2> SUFFICES ASSUME due # {} PROVE page # {}
      OBVIOUS
    <2> DEFINE first == Oldest(due)
    <2>1. first \in due /\ \A j \in due \ {first} : Before(first, j)
      BY Ends
    <2> HIDE DEF first
    <2>2. {j \in due : Before(j, first)} = {}
      BY <2>1, BeforeOrder
    <2>3. Rank(due, first) = 0
      BY <2>2, FS_EmptySet DEF Rank
    <2> QED BY <2>1, <2>3
  <1>6. page # {} => Cardinality(page) <= n
    <2> SUFFICES ASSUME page # {} PROVE Cardinality(page) <= n
      OBVIOUS
    <2> DEFINE last == Newest(page)
    <2>1. last \in page /\ \A j \in page \ {last} : Before(j, last)
      BY Ends
    <2> HIDE DEF last
    <2>2. page \ {last} \subseteq {j \in due : Before(j, last)}
      BY <2>1
    <2>3. Cardinality(page \ {last}) <= Rank(due, last)
      BY <1>1, <1>2, <2>1, <2>2, FS_Subset DEF Rank
    <2>4. Cardinality(page \ {last}) = Cardinality(page) - 1
      BY <1>1, <2>1, FS_RemoveElement
    <2>5. Rank(due, last) < n /\ Rank(due, last) \in Nat /\ Cardinality(page) \in Nat
      BY <1>1, <1>2, <2>1
    <2> QED BY <2>3, <2>4, <2>5
  <1>7. page # due => n <= Cardinality(page)
    <2> SUFFICES ASSUME page # due PROVE n <= Cardinality(page)
      OBVIOUS
    <2> DEFINE left == due \ page
               first == Oldest(left)
    <2>1. first \in left /\ \A j \in left \ {first} : Before(first, j)
      BY Ends
    <2> HIDE DEF first
    <2>2. {j \in due : Before(j, first)} \subseteq page
      BY <2>1, BeforeOrder
    <2>3. Rank(due, first) <= Cardinality(page)
      BY <1>1, <2>2, FS_Subset DEF Rank
    <2>4. ~(Rank(due, first) < n) /\ Rank(due, first) \in Nat /\ Cardinality(page) \in Nat
      BY <1>1, <1>2, <2>1
    <2> QED BY <2>3, <2>4
  <1>8. page # {} => \A i \in due \ page : Before(Newest(page), i)
    BY <1>4, Ends
  <1>9. page # due => Cardinality(page) = n
    <2>1. Cardinality(page) \in Nat
      BY <1>1
    <2> QED BY <1>5, <1>6, <1>7, <2>1
  <1> QED BY <1>5, <1>8, <1>9

(* Of each key on the page, a row is written as it was fetched.              *)
LEMMA BatchKeys ==
  ASSUME IngestType, NEW page \in SUBSET DOMAIN source, NEW pages \in Nat
  PROVE  LET batch == Batch(page, pages)
         IN  /\ batch \in Published
             /\ \A i \in DOMAIN batch : /\ i \in DOMAIN source /\ KeyOf[i] # NoKey
                                         /\ batch[i].date = source[i].date
             /\ \A i \in page :
                  KeyOf[i] # NoKey => \E j \in DOMAIN batch : KeyOf[j] = KeyOf[i]
  <1> DEFINE batch == Batch(page, pages)
             keys == {KeyOf[j] : j \in page} \ {NoKey}
             Same(k) == {j \in page : KeyOf[j] = k}
             rows == {Leading(pages, Same(k)) : k \in keys}
  <1>1. ASSUME NEW k \in keys
        PROVE  Leading(pages, Same(k)) \in page /\ KeyOf[Leading(pages, Same(k))] = k
    <2> DEFINE same == Same(k)
    <2>1. same \in SUBSET DOMAIN source /\ same # {}
      OBVIOUS
    <2> HIDE DEF same
    <2>2. Leading(pages, same) \in same
      BY <2>1, Ends DEF Leading
    <2> QED BY <2>2 DEF same
  <1>2. batch = [i \in rows |-> source[i]]
    BY DEF Batch
  <1> HIDE DEF batch
  <1>3. /\ batch = [i \in rows |-> source[i]]
        /\ rows \subseteq page
        /\ \A i \in rows : KeyOf[i] # NoKey
        /\ \A k \in keys : \E i \in rows : KeyOf[i] = k
    <2> HIDE DEF Same
    <2>1. \A i \in rows : i \in page /\ KeyOf[i] # NoKey
      BY <1>1
    <2>2. \A k \in keys : \E i \in rows : KeyOf[i] = k
      BY <1>1
    <2> QED BY <1>2, <2>1, <2>2
  <1> HIDE DEF rows
  <1>4. batch \in Published
    <2>1. rows \in SUBSET Row /\ batch \in [rows -> Fetched]
      BY <1>3, Dates
    <2> QED BY <2>1 DEF Published
  <1> QED BY <1>3, <1>4 DEF batch

-----------------------------------------------------------------------------
(* The steps.                                                                *)

(* What others may do to the source and the store.                           *)
WorldStep ==
    /\ rolling' = rolling
    /\ \A i \in DOMAIN source : i \in DOMAIN source' /\ source'[i].date = source[i].date
    /\ Floor(today) <= Floor(today)'
    /\ \A k \in DOMAIN store \ DOMAIN store' :
         \A i \in DOMAIN source : KeyOf[i] = k => source[i].date < Floor(today)'

LEMMA Floors ==
  ASSUME IngestType
  PROVE  Floor(today) \in Nat
  BY IngestAssumption DEF IngestType, Floor, Later

LEMMA HoldsStays ==
  ASSUME IngestType, WorldStep, NEW table, Holds(table)
  PROVE  Holds(table)'
  BY DEF WorldStep, Holds, KeyOf

LEMMA OthersStay ==
  ASSUME IngestInv, WorldStep, IngestType', NEW u \in Run, run'[u] = run[u]
  PROVE  RequestInv(u)'
  <1>1. IngestType /\ RequestInv(u) /\ run[u] \in Request
    BY DEF IngestInv, IngestType
  <1>2. KeyOf' = KeyOf
    BY DEF KeyOf, WorldStep
  <1>7. Floor(today)' \in Nat
    <2>1. PICK d \in Nat : d = today'
      BY DEF IngestType
    <2>2. Floor(today)' = 0 \/ Floor(today)' = d - Window
      BY <2>1 DEF Floor, Later
    <2>3. Floor(today)' = d - Window => ~(0 >= d - Window) \/ Floor(today)' = 0
      BY <2>1 DEF Floor, Later
    <2>4. d - Window \in Int
      BY IngestAssumption
    <2> QED BY <2>2, <2>3, <2>4
  <1>3. run'[u].floor <= Floor(today)'
    <2>1. /\ Floor(today) \in Nat /\ Floor(today)' \in Nat /\ run[u].floor \in Nat
          /\ run[u].floor <= Floor(today) /\ Floor(today) <= Floor(today)'
      BY <1>1, <1>7, Floors DEF Request, RequestInv, WorldStep
    <2> QED BY <2>1
  <1>4. Holds(run[u].wrote)'
    <2>1. Holds(run[u].wrote)
      BY <1>1 DEF RequestInv
    <2> QED BY <1>2, <2>1 DEF Holds, WorldStep
  <1>5. PageInv(u)' /\ run'[u].owes \subseteq DOMAIN source'
    BY <1>1, <1>2 DEF RequestInv, PageInv, WorldStep
  <1>6. ASSUME NEW i \in run[u].owes, Accounted(u, i)
        PROVE  Accounted(u, i)'
    <2>1. i \in DOMAIN source /\ source'[i].date = source[i].date /\ source[i].date \in Nat
      BY <1>1, Dates DEF RequestInv, WorldStep
    <2>2. CASE Below(i)
      <3>1. source[i].date < Floor(today)'
        BY <1>1, <1>7, <2>1, <2>2, Floors DEF Below, WorldStep
      <3> QED BY <2>1, <3>1 DEF Accounted, Below
    <2>3. CASE KeyOf[i] \in DOMAIN store
      <3>1. KeyOf[i] \notin DOMAIN store' => source[i].date < Floor(today)'
        BY <2>1, <2>3 DEF WorldStep
      <3> QED BY <1>2, <2>1, <3>1 DEF Accounted, Below
    <2>4. CASE Ahead(u, i)
      BY <2>1, <2>4 DEF Accounted, Ahead, At, After
    <2> QED BY <1>2, <1>6, <2>2, <2>3, <2>4 DEF Accounted
  <1> QED BY <1>1, <1>3, <1>4, <1>5, <1>6 DEF RequestInv, At

LEMMA WorldChanges ==
  ASSUME IngestInv, WorldStep, IngestType', OneDate', Holds(store)', UNCHANGED run
  PROVE  IngestInv'
  BY OthersStay DEF IngestInv

LEMMA OneRequest ==
  ASSUME IngestInv, WorldStep, IngestType', OneDate', Holds(store)', NEW r \in Run,
         \A u \in Run \ {r} : run'[u] = run[u], RequestInv(r)'
  PROVE  IngestInv'
  BY OthersStay DEF IngestInv

(* A step of a request that leaves the store alone.                          *)
LEMMA QuietRequest ==
  ASSUME IngestInv, NEW r \in Run, NEW q \in Request, Set(r, q), RequestInv(r)',
         UNCHANGED <<rolling, today, source, store, limit>>
  PROVE  IngestInv'
  <1>1. IngestType /\ OneDate /\ Holds(store)
    BY DEF IngestInv
  <1>2. WorldStep
    BY <1>1, Floors DEF WorldStep, Floor
  <1>3. IngestType' /\ \A u \in Run \ {r} : run'[u] = run[u]
    BY <1>1 DEF IngestType, Set
  <1>4. OneDate' /\ Holds(store)'
    BY <1>1 DEF OneDate, Holds, KeyOf
  <1> QED BY <1>2, <1>3, <1>4, OneRequest

LEMMA EmptyTables == Empty \in Published /\ Empty \in Table /\ DOMAIN Empty = {}
  <1>1. {} \in SUBSET Row /\ {} \in SUBSET Keys
    OBVIOUS
  <1>2. Empty \in [{} -> Fetched] /\ Empty \in [{} -> Stored] /\ DOMAIN Empty = {}
    BY DEF Empty
  <1> QED BY <1>1, <1>2 DEF Published, Table

LEMMA IdleRequest ==
  /\ Idle \in Request /\ Idle.at = "idle" /\ Idle.owes = {} /\ Idle.floor = 0
  /\ DOMAIN Idle.page = {} /\ DOMAIN Idle.wrote = {} /\ Idle.more = FALSE
  <1>1. /\ Idle.page = Empty /\ Idle.wrote = Empty
        /\ Idle.at = "idle" /\ Idle.owes = {} /\ Idle.floor = 0 /\ Idle.more = FALSE
    BY DEF Idle
  <1>2. Idle \in Request
    BY EmptyTables DEF Idle, Request
  <1> QED BY <1>1, <1>2, EmptyTables

(* A request with nothing at hand and nothing owed.                          *)
LEMMA RestedRequest ==
  ASSUME IngestType, NEW r \in Run, UNCHANGED <<rolling, today, source>>,
         run'[r].floor <= Floor(today), run'[r].owes = {},
         DOMAIN run'[r].page = {}, DOMAIN run'[r].wrote = {}
  PROVE  RequestInv(r)'
  BY DEF RequestInv, PageInv, Holds, Floor

LEMMA FailStep ==
  ASSUME IngestInv, NEW r \in Run, Fail(r)
  PROVE  IngestInv'
  <1>1. IngestType /\ Set(r, Idle) /\ UNCHANGED <<rolling, today, source, store, limit>>
    BY DEF IngestInv, Fail
  <1>2. run'[r] = Idle
    BY <1>1 DEF IngestType, Set
  <1>3. RequestInv(r)'
    BY <1>1, <1>2, IdleRequest, RestedRequest, Floors
  <1> QED BY <1>1, <1>3, IdleRequest, QuietRequest

LEMMA BeginStep ==
  ASSUME IngestInv, NEW r \in Run, NEW since \in Nat, NEW upto \in Nat, Begin(r, since, upto),
         UNCHANGED <<rolling, today, source, store, limit>>
  PROVE  IngestInv'
  <1> DEFINE cursor == <<Later(Floor(today), since), 0>>
             owes == Due(cursor, upto)
             q == [Idle EXCEPT !.at = "walk", !.floor = Floor(today), !.upto = upto,
                     !.cursor = cursor, !.began = today, !.owes = owes]
  <1>1. IngestType /\ Floor(today) \in Nat
    BY Floors DEF IngestInv
  <1>2. cursor \in Nat \X Nat
    BY <1>1 DEF Later
  <1>3. owes \subseteq DOMAIN source /\ \A i \in owes : After(i, cursor) /\ source[i].date <= upto
    BY DEF Due
  <1>4. owes \in SUBSET Row
    BY <1>1, <1>3, Dates
  <1> HIDE DEF owes, cursor
  <1>5. /\ q \in Request /\ q.at = "walk" /\ q.floor = Floor(today) /\ q.upto = upto
        /\ q.cursor = cursor /\ q.owes = owes /\ q.page = Idle.page /\ q.wrote = Idle.wrote
    BY <1>1, <1>2, <1>4, IdleRequest DEF Request, IngestType
  <1>6. Set(r, q)
    BY DEF Begin, owes, cursor
  <1> HIDE DEF q
  <1>7. run'[r] = q
    BY <1>1, <1>6 DEF IngestType, Set
  <1>8. Floor(today)' = Floor(today) /\ KeyOf' = KeyOf
    BY DEF Floor, KeyOf
  <1>9. ASSUME NEW i \in owes
        PROVE  Accounted(r, i)'
    BY <1>3, <1>5, <1>7 DEF Accounted, Ahead, At, After
  <1>10. RequestInv(r)'
    BY <1>1, <1>3, <1>5, <1>7, <1>8, <1>9, IdleRequest DEF RequestInv, PageInv, Holds, At
  <1> QED BY <1>5, <1>6, <1>10, QuietRequest

(* The newest stored date is the date of a row of the source.                *)
LEMMA WatermarkIsADate ==
  ASSUME IngestInv, store # Empty
  PROVE  Watermark \in Nat
  <1>1. IngestType /\ OneDate /\ Holds(store)
    BY DEF IngestInv
  <1> DEFINE S == {i \in DOMAIN source : KeyOf[i] \in DOMAIN store}
  <1>2. DOMAIN store # {}
    <2>1. PICK K : store \in [K -> Stored]
      BY <1>1 DEF IngestType, Table
    <2> QED BY <2>1 DEF Empty
  <1>3. \A k \in DOMAIN store : \E i \in S : KeyOf[i] = k /\ store[k].date = source[i].date
    BY <1>1 DEF Holds
  <1>4. S \in SUBSET DOMAIN source /\ S # {}
    BY <1>2, <1>3
  <1> HIDE DEF S
  <1>5. PICK last \in S : \A j \in S \ {last} : Before(j, last)
    BY <1>1, <1>4, Ends
  <1>6. \A j \in S : source[j].date \in Nat /\ source[j].date <= source[last].date
    BY <1>1, <1>4, <1>5, Dates DEF Before
  <1>7. PICK k \in DOMAIN store : store[k].date = source[last].date
    <2>1. KeyOf[last] \in DOMAIN store /\ KeyOf[last] # NoKey
      BY <1>1, <1>5 DEF S, Holds
    <2>2. PICK i \in S : /\ KeyOf[i] = KeyOf[last]
                         /\ store[KeyOf[last]].date = source[i].date
      BY <1>3, <2>1
    <2> QED BY <1>1, <1>4, <1>5, <2>1, <2>2 DEF OneDate
  <1>8. \A m \in DOMAIN store : store[m].date <= store[k].date /\ store[m].date \in Nat
    BY <1>3, <1>6, <1>7
  <1> QED BY <1>8 DEF Watermark

LEMMA BackfillStep ==
  ASSUME IngestInv, NEW r \in Run, Backfill(r)
  PROVE  IngestInv'
  <1>1. IngestType /\ Floor(today) \in Nat
    BY Floors DEF IngestInv
  <1> DEFINE since == IncrementalStart(Floor(today))
  <1>2. since \in Nat
    BY <1>1, IngestAssumption, WatermarkIsADate DEF IncrementalStart, Later
  <1>3. Begin(r, since, MaxDay) /\ UNCHANGED <<rolling, today, source, store, limit>>
    BY DEF Backfill
  <1> HIDE DEF since
  <1> QED BY <1>2, <1>3, IngestAssumption, BeginStep

LEMMA PullPageStep ==
  ASSUME IngestInv, NEW r \in Run, PullPage(r)
  PROVE  IngestInv'
  <1> DEFINE due == Due(<<Floor(today), 0>>, MaxDay)
             page == {i \in due : Cardinality({j \in due : Before(i, j)}) < limit[r]}
             batch == Batch(page, 0)
             q == [Idle EXCEPT !.at = "apply", !.floor = Floor(today), !.began = today,
                     !.page = batch]
  <1>1. IngestType /\ Floor(today) \in Nat /\ today \in Nat
    BY Floors DEF IngestInv, IngestType
  <1>2. page \in SUBSET DOMAIN source
    BY DEF Due
  <1>3. Set(r, q) /\ UNCHANGED <<rolling, today, source, store, limit>>
    BY DEF PullPage
  <1> HIDE DEF page
  <1>4. /\ batch \in Published
        /\ \A i \in DOMAIN batch :
             i \in DOMAIN source /\ KeyOf[i] # NoKey /\ batch[i].date = source[i].date
    BY <1>1, <1>2, 0 \in Nat, BatchKeys
  <1> HIDE DEF batch
  <1>5. /\ q \in Request /\ q.at = "apply" /\ q.floor = Floor(today) /\ q.owes = {}
        /\ q.page = batch /\ DOMAIN q.wrote = {}
    BY <1>1, <1>4, IdleRequest DEF Request
  <1> HIDE DEF q
  <1>6. run'[r] = q
    BY <1>1, <1>3 DEF IngestType, Set
  <1>7. Floor(today)' = Floor(today) /\ KeyOf' = KeyOf
    BY <1>3 DEF Floor, KeyOf
  <1>8. RequestInv(r)'
    BY <1>1, <1>3, <1>4, <1>5, <1>6, <1>7 DEF RequestInv, PageInv, Holds, At
  <1> QED BY <1>3, <1>5, <1>8, QuietRequest

(* The walk is over, with every owed row accounted for or more to come.      *)
LEMMA Purging ==
  ASSUME IngestType, NEW r \in Run, NEW more \in BOOLEAN
  PROVE  LET q == ToPurge(r, more)
         IN  /\ q \in Request /\ q.at = "purge" /\ q.more = more /\ q.floor = run[r].floor
             /\ q.owes = run[r].owes /\ DOMAIN q.page = {} /\ DOMAIN q.wrote = {}
  <1>1. run[r].floor \in Nat /\ run[r].began \in Nat /\ run[r].owes \in SUBSET Row
    BY DEF IngestType, Request
  <1> QED BY <1>1, IdleRequest DEF ToPurge, Request

LEMMA FetchStep ==
  ASSUME IngestInv, NEW r \in Run, Fetch(r)
  PROVE  IngestInv'
  <1> DEFINE due == Due(run[r].cursor, run[r].upto)
             page == {i \in due : Cardinality({j \in due : Before(j, i)}) < limit[r]}
             cursor == <<source[Newest(page)].date, Newest(page)>>
             batch == Batch(page, run[r].pages + 1)
             full == Cardinality(page) = limit[r]
             q == [run[r] EXCEPT !.at = "apply", !.pages = @ + 1, !.more = full,
                     !.cursor = cursor, !.page = batch]
  <1>1. /\ IngestType /\ RequestInv(r) /\ run[r] \in Request /\ limit[r] \in Nat \ {0}
        /\ At(r, "walk") /\ UNCHANGED <<rolling, today, source, store, limit>>
    BY DEF IngestInv, IngestType, Fetch
  <1>2. Floor(today)' = Floor(today) /\ KeyOf' = KeyOf
    BY <1>1 DEF Floor, KeyOf
  <1>3. due \in SUBSET DOMAIN source
    BY DEF Due
  <1>4. page = {} => Set(r, ToPurge(r, FALSE))
    BY DEF Fetch
  <1>5. page # {} => Set(r, q)
    BY DEF Fetch
  <1>6. /\ page \subseteq due
        /\ page = {} => due = {}
        /\ page # due => full
        /\ \A i \in due \ page : Before(Newest(page), i)
    <2> HIDE DEF due
    <2>1. page = FirstOf(due, limit[r])
      BY DEF FirstOf, Rank
    <2> HIDE DEF page
    <2> QED BY <1>1, <1>3, <2>1, PageIsFirst
  <1>7. \A i \in run[r].owes : /\ i \in DOMAIN source /\ Accounted(r, i)
                               /\ Ahead(r, i) => i \in due
    BY <1>1 DEF RequestInv, At, Ahead, Due
  <1>8. DOMAIN run[r].page = {} /\ DOMAIN run[r].wrote = {}
    BY <1>1 DEF RequestInv, At
  <1> HIDE DEF due, page
  <1>9. CASE page = {}
    <2>1. Set(r, ToPurge(r, FALSE))
      BY <1>4, <1>9
    <2>2. run'[r] = ToPurge(r, FALSE)
      BY <1>1, <2>1 DEF IngestType, Set
    <2>3. ASSUME NEW i \in run[r].owes
          PROVE  KeyOf[i] = NoKey \/ Below(i) \/ KeyOf[i] \in DOMAIN store
      BY <1>6, <1>7, <1>8, <1>9 DEF Accounted
    <2>4. \A i \in run[r].owes : Accounted(r, i)'
      BY <1>1, <1>2, <2>3 DEF Accounted, Below
    <2>5. RequestInv(r)'
      BY <1>1, <1>2, <2>2, <2>4, Purging DEF RequestInv, PageInv, Holds, At
    <2> QED BY <1>1, <2>1, <2>5, Purging, QuietRequest
  <1>10. CASE page # {}
    <2>1. Set(r, q)
      BY <1>5, <1>10
    <2>2. page \in SUBSET DOMAIN source
      BY <1>3, <1>6
    <2>3. /\ batch \in Published
          /\ \A i \in DOMAIN batch :
               i \in DOMAIN source /\ KeyOf[i] # NoKey /\ batch[i].date = source[i].date
          /\ \A i \in page : KeyOf[i] # NoKey => \E j \in DOMAIN batch : KeyOf[j] = KeyOf[i]
      <3>1. run[r].pages + 1 \in Nat
        BY <1>1 DEF Request
      <3> QED BY <1>1, <2>2, <3>1, BatchKeys
    <2>4. Newest(page) \in page /\ Newest(page) \in DOMAIN source
      BY <1>1, <1>10, <2>2, Ends
    <2>5. cursor \in Nat \X Nat
      BY <1>1, <2>4, Dates
    <2>6. \A i \in due \ page : After(i, cursor)
      BY <1>6 DEF Before, After
    <2>7. \A i \in due : source[i].date <= run[r].upto
      BY DEF due, Due
    <2> HIDE DEF batch, cursor
    <2>8. full \in BOOLEAN
      OBVIOUS
    <2> HIDE DEF full
    <2>9. /\ q \in Request /\ q.at = "apply" /\ q.floor = run[r].floor /\ q.upto = run[r].upto
          /\ q.cursor = cursor /\ q.owes = run[r].owes /\ q.page = batch
          /\ q.wrote = run[r].wrote /\ q.more = full
      <3>1. run[r].pages + 1 \in Nat
        BY <1>1 DEF Request
      <3> QED BY <1>1, <2>3, <2>5, <2>8, <3>1 DEF Request
    <2> HIDE DEF q
    <2>10. run'[r] = q
      BY <1>1, <2>1 DEF IngestType, Set
    <2>11. ASSUME NEW i \in run[r].owes
           PROVE  Accounted(r, i)'
      <3>1. CASE i \in page /\ KeyOf[i] # NoKey
        BY <1>2, <2>3, <2>9, <2>10, <3>1 DEF Accounted
      <3>2. CASE i \in due \ page
        <4>1. full
          BY <1>6, <3>2
        <4> QED BY <1>1, <2>6, <2>7, <2>9, <2>10, <3>2, <4>1
                DEF Accounted, Ahead, At, After
      <3>3. CASE i \notin due \/ KeyOf[i] = NoKey
        <4>1. KeyOf[i] = NoKey \/ Below(i) \/ KeyOf[i] \in DOMAIN store
          BY <1>7, <1>8, <3>3 DEF Accounted
        <4> QED BY <1>1, <1>2, <4>1 DEF Accounted, Below
      <3> QED BY <3>1, <3>2, <3>3
    <2>12. RequestInv(r)'
      BY <1>1, <1>2, <1>8, <2>3, <2>9, <2>10, <2>11 DEF RequestInv, PageInv, Holds, At
    <2> QED BY <1>1, <2>1, <2>9, <2>12, QuietRequest
  <1> QED BY <1>9, <1>10

LEMMA BackfillWindowStep ==
  ASSUME IngestInv, NEW r \in Run, NEW since \in 0 .. MaxDay, NEW upto \in 0 .. MaxDay,
         BackfillWindow(r, since, upto)
  PROVE  IngestInv'
  <1>1. since \in Nat /\ upto \in Nat
    BY IngestAssumption
  <1>2. Begin(r, since, upto) /\ UNCHANGED <<rolling, today, source, store, limit>>
    BY DEF BackfillWindow
  <1> QED BY <1>1, <1>2, BeginStep

(* A written row is off the page and in the transaction.                     *)
LEMMA WriteStep ==
  ASSUME IngestInv, NEW r \in Run, At(r, "apply"), run[r].page # Empty, Write(r),
         UNCHANGED <<rolling, today, source, store, limit>>
  PROVE  IngestInv'
  <1> DEFINE i == AtHand(r)
             page == run[r].page
             wrote == run[r].wrote
             row == [of |-> i, date |-> page[i].date, ver |-> page[i].ver]
             left == Restrict(page, DOMAIN page \ {i})
             table == [k \in DOMAIN wrote \cup {KeyOf[i]} |->
                         IF k = KeyOf[i] THEN row ELSE wrote[k]]
             q == [run[r] EXCEPT !.page = left, !.stage = "update", !.wrote = table]
  <1>1. /\ IngestType /\ RequestInv(r) /\ run[r] \in Request
        /\ page \in Published /\ wrote \in Table
    BY DEF IngestInv, IngestType, Request
  <1>2. Floor(today)' = Floor(today) /\ KeyOf' = KeyOf
    BY DEF Floor, KeyOf
  <1>3. PICK S \in SUBSET Row : page \in [S -> Fetched]
    BY <1>1 DEF Published
  <1>4. DOMAIN page # {} /\ DOMAIN page \in SUBSET DOMAIN source
    BY <1>1, <1>3 DEF Empty, RequestInv, PageInv
  <1>5. i \in DOMAIN page
    BY <1>1, <1>4, Ends DEF AtHand, Leading
  <1>6. Set(r, q)
    BY DEF Write
  <1> HIDE DEF i
  <1>7. /\ left \in Published /\ DOMAIN left = DOMAIN page \ {i}
        /\ \A j \in DOMAIN left : left[j] = page[j]
    <2>1. DOMAIN page \ {i} \in SUBSET Row /\ left \in [DOMAIN page \ {i} -> Fetched]
      BY <1>3 DEF Restrict
    <2> QED BY <2>1 DEF Published, Restrict
  <1>8. table \in Table
    <2>1. PICK T \in SUBSET Keys : wrote \in [T -> Stored]
      BY <1>1 DEF Table
    <2>2. i \in Row /\ page[i] \in Fetched
      BY <1>3, <1>5
    <2>3. row \in Stored
      BY <2>2 DEF Stored, Fetched
    <2>4. KeyOf[i] \in Keys
      BY <1>1, <2>2 DEF IngestType, KeyOf, Keys
    <2> HIDE DEF row
    <2>5. T \cup {KeyOf[i]} \in SUBSET Keys /\ table \in [T \cup {KeyOf[i]} -> Stored]
      BY <2>1, <2>3, <2>4
    <2> QED BY <2>5 DEF Table
  <1>9. /\ DOMAIN table = DOMAIN wrote \cup {KeyOf[i]}
        /\ table[KeyOf[i]].date = page[i].date
        /\ \A k \in DOMAIN wrote : k # KeyOf[i] => table[k] = wrote[k]
    OBVIOUS
  <1> HIDE DEF left, table
  <1>10. /\ q \in Request /\ q.at = "apply" /\ q.floor = run[r].floor /\ q.upto = run[r].upto
         /\ q.cursor = run[r].cursor /\ q.owes = run[r].owes /\ q.page = left
         /\ q.wrote = table /\ q.more = run[r].more
    BY <1>1, <1>7, <1>8 DEF Request, At
  <1> HIDE DEF q
  <1>11. run'[r] = q
    BY <1>1, <1>6 DEF IngestType, Set
  <1>12. PageInv(r) /\ Holds(wrote)
    BY <1>1 DEF RequestInv
  <1>13. Holds(run[r].wrote)'
    <2>1. ASSUME NEW k \in DOMAIN table
          PROVE  /\ k # NoKey
                 /\ \E j \in DOMAIN source : KeyOf[j] = k /\ table[k].date = source[j].date
      <3>1. CASE k = KeyOf[i]
        BY <1>5, <1>9, <1>12, <3>1 DEF PageInv
      <3>2. CASE k # KeyOf[i]
        BY <1>9, <1>12, <3>2 DEF Holds
      <3> QED BY <3>1, <3>2
    <2> QED BY <1>2, <1>10, <1>11, <2>1 DEF Holds
  <1>14. PageInv(r)'
    BY <1>2, <1>7, <1>10, <1>11, <1>12 DEF PageInv
  <1>15. ASSUME NEW j \in run[r].owes, Accounted(r, j)
         PROVE  Accounted(r, j)'
    <2>1. CASE \E m \in DOMAIN page : KeyOf[m] = KeyOf[j]
      <3>1. PICK m \in DOMAIN page : KeyOf[m] = KeyOf[j]
        BY <2>1
      <3> QED BY <1>2, <1>7, <1>9, <1>10, <1>11, <3>1 DEF Accounted
    <2>2. CASE Ahead(r, j)
      BY <1>10, <1>11, <2>2 DEF Accounted, Ahead, At, After
    <2>3. CASE \/ KeyOf[j] = NoKey \/ Below(j)
               \/ KeyOf[j] \in DOMAIN store \/ KeyOf[j] \in DOMAIN wrote
      BY <1>2, <1>9, <1>10, <1>11, <2>3 DEF Accounted, Below
    <2> QED BY <1>15, <2>1, <2>2, <2>3 DEF Accounted
  <1>16. RequestInv(r)'
    BY <1>1, <1>2, <1>10, <1>11, <1>13, <1>14, <1>15 DEF RequestInv, At
  <1> QED BY <1>6, <1>10, <1>16, QuietRequest

(* The next statement for the row at hand.                                   *)
LEMMA StageStep ==
  ASSUME IngestInv, NEW r \in Run, NEW stage \in {"insert", "again"},
         Set(r, [run[r] EXCEPT !.stage = stage]),
         UNCHANGED <<rolling, today, source, store, limit>>
  PROVE  IngestInv'
  <1> DEFINE q == [run[r] EXCEPT !.stage = stage]
  <1>1. IngestType /\ RequestInv(r) /\ run[r] \in Request
    BY DEF IngestInv, IngestType
  <1>2. Floor(today)' = Floor(today) /\ KeyOf' = KeyOf
    BY DEF Floor, KeyOf
  <1>3. /\ q \in Request /\ q.at = run[r].at /\ q.floor = run[r].floor
        /\ q.upto = run[r].upto /\ q.cursor = run[r].cursor /\ q.owes = run[r].owes
        /\ q.page = run[r].page /\ q.wrote = run[r].wrote /\ q.more = run[r].more
    BY <1>1 DEF Request
  <1>4. Set(r, q)
    OBVIOUS
  <1> HIDE DEF q
  <1>5. run'[r] = q
    BY <1>1, <1>4 DEF IngestType, Set
  <1>6. PageInv(r)' /\ Holds(run[r].wrote)'
    BY <1>1, <1>2, <1>3, <1>5 DEF RequestInv, PageInv, Holds
  <1>7. \A i \in run[r].owes : Accounted(r, i) => Accounted(r, i)'
    BY <1>2, <1>3, <1>5 DEF Accounted, Below, Ahead, At, After
  <1>8. RequestInv(r)'
    BY <1>1, <1>2, <1>3, <1>5, <1>6, <1>7 DEF RequestInv, At
  <1> QED BY <1>3, <1>4, <1>8, QuietRequest

LEMMA StatementStep ==
  ASSUME IngestInv, NEW r \in Run, Update(r) \/ Insert(r) \/ UpdateAgain(r)
  PROVE  IngestInv'
  <1>1. /\ At(r, "apply") /\ run[r].page # Empty
        /\ UNCHANGED <<rolling, today, source, store, limit>>
    BY DEF Update, Insert, UpdateAgain, Statement
  <1>2. \/ Write(r) \/ Set(r, Idle)
        \/ \E stage \in {"insert", "again"} : Set(r, [run[r] EXCEPT !.stage = stage])
    BY DEF Update, Insert, UpdateAgain
  <1>3. CASE Set(r, Idle)
    <2>1. IngestType /\ run'[r] = Idle
      BY <1>3 DEF IngestInv, IngestType, Set
    <2>2. RequestInv(r)'
      BY <1>1, <2>1, IdleRequest, RestedRequest, Floors
    <2> QED BY <1>1, <1>3, <2>2, IdleRequest, QuietRequest
  <1> QED BY <1>1, <1>2, <1>3, WriteStep, StageStep

LEMMA CommitStep ==
  ASSUME IngestInv, NEW r \in Run, Commit(r)
  PROVE  IngestInv'
  <1> DEFINE wrote == run[r].wrote
             more == run[r].more
             q == IF more /\ run[r].pages < MaxPages
                  THEN [run[r] EXCEPT !.wrote = Empty, !.at = "walk"]
                  ELSE ToPurge(r, more)
  <1>1. /\ IngestType /\ OneDate /\ Holds(store) /\ RequestInv(r) /\ run[r] \in Request
        /\ wrote \in Table /\ more \in BOOLEAN /\ Holds(wrote)
        /\ At(r, "apply") /\ DOMAIN run[r].page = {}
        /\ UNCHANGED <<rolling, today, source, limit>>
    BY EmptyTables DEF IngestInv, IngestType, Request, RequestInv, Commit
  <1>2. Floor(today)' = Floor(today) /\ KeyOf' = KeyOf
    BY <1>1 DEF Floor, KeyOf
  <1>3. /\ DOMAIN store' = DOMAIN store \cup DOMAIN wrote
        /\ \A k \in DOMAIN store' :
             store'[k] = IF k \in DOMAIN wrote THEN wrote[k] ELSE store[k]
    BY DEF Commit
  <1>4. store' \in Table
    <2>1. PICK S \in SUBSET Keys, T \in SUBSET Keys :
            store \in [S -> Stored] /\ wrote \in [T -> Stored]
      BY <1>1 DEF IngestType, Table
    <2>2. S \cup T \in SUBSET Keys /\ store' \in [S \cup T -> Stored]
      BY <2>1 DEF Commit
    <2> QED BY <2>2 DEF Table
  <1>5. Holds(store)'
    BY <1>1, <1>2, <1>3 DEF Holds
  <1>6. WorldStep
    BY <1>1, <1>2, <1>3, Floors DEF WorldStep
  <1>7. Set(r, q)
    BY DEF Commit
  <1>8. /\ q \in Request /\ q.floor = run[r].floor /\ q.owes = run[r].owes
        /\ DOMAIN q.page = {} /\ DOMAIN q.wrote = {} /\ q.at # "apply"
        /\ q.at = "purge" => q.more = more
        /\ q.at # "purge" => /\ q.at = "walk"
                             /\ q.cursor = run[r].cursor /\ q.upto = run[r].upto
    <2>1. CASE more /\ run[r].pages < MaxPages
      <3>1. q = [run[r] EXCEPT !.wrote = Empty, !.at = "walk"]
        BY <2>1
      <3> HIDE DEF q
      <3> QED BY <1>1, <3>1, EmptyTables DEF Request
    <2>2. CASE ~(more /\ run[r].pages < MaxPages)
      <3>1. q = ToPurge(r, more)
        BY <2>2
      <3> HIDE DEF q
      <3> QED BY <1>1, <3>1, Purging
    <2> QED BY <2>1, <2>2
  <1> HIDE DEF q
  <1>9. run'[r] = q /\ \A u \in Run \ {r} : run'[u] = run[u]
    BY <1>1, <1>7 DEF IngestType, Set
  <1>10. IngestType' /\ OneDate'
    <2>1. run' \in [Run -> Request]
      BY <1>1, <1>7, <1>8 DEF IngestType, Set
    <2> QED BY <1>1, <1>2, <1>4, <2>1 DEF IngestType, OneDate
  <1>11. ASSUME NEW i \in run[r].owes, ~(q.at = "purge" /\ more)
         PROVE  Accounted(r, i)'
    <2>1. Accounted(r, i)
      BY <1>1 DEF RequestInv, At
    <2>2. CASE Ahead(r, i)
      <3>1. q.at = "walk"
        BY <1>1, <1>11, <1>8, <2>2 DEF Ahead, At
      <3> QED BY <1>1, <1>8, <1>9, <2>2, <3>1 DEF Accounted, Ahead, At, After
    <2>3. CASE \/ KeyOf[i] = NoKey \/ Below(i)
               \/ KeyOf[i] \in DOMAIN store \/ KeyOf[i] \in DOMAIN wrote
      BY <1>1, <1>2, <1>3, <2>3 DEF Accounted, Below
    <2> QED BY <1>1, <2>1, <2>2, <2>3 DEF Accounted
  <1>12. RequestInv(r)'
    BY <1>1, <1>2, <1>8, <1>9, <1>11 DEF RequestInv, PageInv, Holds, At
  <1> QED BY <1>5, <1>6, <1>9, <1>10, <1>12, OneRequest

(* What is deleted is below the floor the request began with, which is not   *)
(* above today's.                                                            *)
LEMMA PurgeStep ==
  ASSUME IngestInv, NEW r \in Run, Purge(r)
  PROVE  IngestInv'
  <1>1. /\ IngestType /\ OneDate /\ Holds(store) /\ RequestInv(r) /\ run[r] \in Request
        /\ Set(r, Idle) /\ UNCHANGED <<rolling, today, source, limit>>
    BY DEF IngestInv, IngestType, Purge
  <1>2. Floor(today)' = Floor(today) /\ KeyOf' = KeyOf
    BY <1>1 DEF Floor, KeyOf
  <1>3. /\ DOMAIN store' \subseteq DOMAIN store
        /\ \A k \in DOMAIN store' : store'[k] = store[k]
        /\ \A k \in DOMAIN store \ DOMAIN store' : store[k].date < run[r].floor
    BY DEF Purge
  <1>4. store' \in Table
    <2>1. PICK S \in SUBSET Keys : store \in [S -> Stored]
      BY <1>1 DEF IngestType, Table
    <2>2. DOMAIN store' \in SUBSET Keys /\ store' \in [DOMAIN store' -> Stored]
      BY <1>3, <2>1 DEF Purge
    <2> QED BY <2>2 DEF Table
  <1>5. Holds(store)'
    BY <1>1, <1>2, <1>3 DEF Holds
  <1>6. ASSUME NEW k \in DOMAIN store \ DOMAIN store', NEW i \in DOMAIN source, KeyOf[i] = k
        PROVE  source[i].date < Floor(today)
    <2>1. PICK j \in DOMAIN source : KeyOf[j] = k /\ store[k].date = source[j].date /\ k # NoKey
      BY <1>1 DEF Holds
    <2>2. source[i].date = source[j].date
      BY <1>1, <1>6, <2>1 DEF OneDate
    <2>3. /\ source[i].date < run[r].floor /\ run[r].floor <= Floor(today)
          /\ source[i].date \in Nat /\ run[r].floor \in Nat /\ Floor(today) \in Nat
      BY <1>1, <1>3, <2>1, <2>2, Dates, Floors DEF RequestInv, Request
    <2> QED BY <2>3
  <1>7. WorldStep
    BY <1>1, <1>2, <1>6, Floors DEF WorldStep
  <1>8. run'[r] = Idle /\ \A u \in Run \ {r} : run'[u] = run[u]
    BY <1>1 DEF IngestType, Set
  <1>9. IngestType' /\ OneDate'
    <2>1. run' \in [Run -> Request]
      BY <1>1, IdleRequest DEF IngestType, Set
    <2> QED BY <1>1, <1>2, <1>4, <2>1 DEF IngestType, OneDate
  <1>10. RequestInv(r)'
    BY <1>1, <1>8, IdleRequest, RestedRequest, Floors
  <1> QED BY <1>5, <1>7, <1>8, <1>9, <1>10, OneRequest

LEMMA PublishStep ==
  ASSUME IngestInv, NEW i \in Row, NEW date \in 0 .. MaxDay, Publish(i, date)
  PROVE  IngestInv'
  <1>1. /\ IngestType /\ OneDate /\ Holds(store) /\ date \in Nat
        /\ UNCHANGED <<rolling, today, store, run, limit>>
    BY IngestAssumption DEF IngestInv, Publish
  <1>2. Floor(today)' = Floor(today) /\ KeyOf' = KeyOf
    BY <1>1 DEF Floor, KeyOf
  <1>3. /\ i \notin DOMAIN source /\ DOMAIN source' = DOMAIN source \cup {i}
        /\ source'[i].date = date /\ \A j \in DOMAIN source : source'[j] = source[j]
        /\ \A j \in DOMAIN source :
             KeyOf[j] = KeyOf[i] /\ KeyOf[i] # NoKey => source[j].date = date
    BY DEF Publish
  <1>4. source' \in Published /\ IsFiniteSet(DOMAIN source')
    <2>1. PICK S \in SUBSET Row : source \in [S -> Fetched]
      BY <1>1 DEF IngestType, Published
    <2>2. [date |-> date, ver |-> 1] \in Fetched
      BY <1>1 DEF Fetched
    <2>3. S \cup {i} \in SUBSET Row /\ source' \in [S \cup {i} -> Fetched]
      BY <2>1, <2>2 DEF Publish
    <2>4. source' \in Published
      BY <2>3 DEF Published
    <2>5. IsFiniteSet(DOMAIN source)
      BY <1>1 DEF IngestType
    <2> QED BY <1>3, <2>4, <2>5, FS_AddElement
  <1>5. IngestType'
    BY <1>1, <1>4 DEF IngestType
  <1>6. WorldStep
    BY <1>1, <1>2, <1>3, Floors DEF WorldStep
  <1>7. OneDate'
    BY <1>1, <1>2, <1>3 DEF OneDate
  <1>8. Holds(store)'
    BY <1>1, <1>2, <1>3 DEF Holds
  <1> QED BY <1>1, <1>5, <1>6, <1>7, <1>8, WorldChanges

LEMMA CorrectStep ==
  ASSUME IngestInv, NEW i \in Row, Correct(i)
  PROVE  IngestInv'
  <1>1. /\ IngestType /\ OneDate /\ Holds(store) /\ i \in DOMAIN source
        /\ UNCHANGED <<rolling, today, store, run, limit>>
    BY DEF IngestInv, Correct
  <1>2. Floor(today)' = Floor(today) /\ KeyOf' = KeyOf
    BY <1>1 DEF Floor, KeyOf
  <1>3. PICK S \in SUBSET Row : source \in [S -> Fetched]
    BY <1>1 DEF IngestType, Published
  <1>4. source' \in [S -> Fetched] /\ \A j \in S : source'[j].date = source[j].date
    BY <1>1, <1>3 DEF Correct, Fetched
  <1>5. IngestType'
    BY <1>1, <1>3, <1>4 DEF IngestType, Published
  <1>6. WorldStep
    BY <1>1, <1>2, <1>3, <1>4, Floors DEF WorldStep
  <1>7. OneDate' /\ Holds(store)'
    BY <1>1, <1>2, <1>3, <1>4 DEF OneDate, Holds
  <1> QED BY <1>1, <1>5, <1>6, <1>7, WorldChanges

LEMMA MidnightStep ==
  ASSUME IngestInv, Midnight
  PROVE  IngestInv'
  <1>1. /\ IngestType /\ OneDate /\ Holds(store) /\ today' = today + 1 /\ today \in Nat
        /\ UNCHANGED <<rolling, source, store, run, limit>>
    BY DEF IngestInv, IngestType, Midnight
  <1>2. IngestType' /\ OneDate' /\ Holds(store)'
    BY <1>1 DEF IngestType, OneDate, Holds, KeyOf
  <1>3. Floor(today) <= Floor(today)'
    <2>1. CASE rolling
      BY <1>1, <2>1, IngestAssumption DEF Floor, Later
    <2>2. CASE ~rolling
      BY <1>1, <2>2 DEF Floor
    <2> QED BY <2>1, <2>2
  <1>4. WorldStep
    BY <1>1, <1>3 DEF WorldStep
  <1> QED BY <1>1, <1>2, <1>4, WorldChanges

LEMMA IngestStart == IngestInit => IngestInv
  <1> SUFFICES ASSUME IngestInit PROVE IngestInv
    OBVIOUS
  <1>1. DOMAIN source = {} /\ DOMAIN store = {} /\ \A r \in Run : run[r] = Idle
    BY EmptyTables DEF IngestInit
  <1>2. IngestType
    BY <1>1, EmptyTables, IdleRequest, IngestAssumption, FS_EmptySet DEF IngestInit, IngestType
  <1>3. OneDate /\ Holds(store)
    BY <1>1 DEF OneDate, Holds
  <1>4. 0 <= Floor(today)
    BY <1>2, Floors
  <1>5. \A r \in Run : RequestInv(r)
    BY <1>1, <1>4, IdleRequest DEF RequestInv, PageInv, Holds
  <1> QED BY <1>2, <1>3, <1>5 DEF IngestInv

LEMMA IngestStep == IngestInv /\ [IngestNext]_ingestVars => IngestInv'
  <1> SUFFICES ASSUME IngestInv, [IngestNext]_ingestVars PROVE IngestInv'
    OBVIOUS
  <1>1. CASE UNCHANGED ingestVars
    <2>1. /\ IngestType' /\ OneDate' /\ Holds(store)' /\ WorldStep /\ UNCHANGED run
      BY <1>1, Floors DEF IngestInv, ingestVars, IngestType, OneDate, Holds, KeyOf, WorldStep, Floor
    <2> QED BY <2>1, WorldChanges
  <1>2. CASE \E i \in Row : Correct(i) \/ \E date \in 0 .. MaxDay : Publish(i, date)
    BY <1>2, CorrectStep, PublishStep
  <1>3. CASE Midnight
    BY <1>3, MidnightStep
  <1>4. CASE \E r \in Run : Backfill(r) \/ PullPage(r) \/ Fail(r) \/ Work(r)
    BY <1>4, BackfillStep, PullPageStep, FailStep, FetchStep, StatementStep, CommitStep,
       PurgeStep DEF Work
  <1>5. CASE \E r \in Run, day \in 0 .. MaxDay : BackfillWindow(r, day, day)
    BY <1>5, BackfillWindowStep
  <1> QED BY <1>1, <1>2, <1>3, <1>4, <1>5 DEF IngestNext

(* No page boundary hides a row: once a walk is over and its request is      *)
(* about to purge, every row due when it began that has a key and is still   *)
(* in the window is in crime_incidents, whatever the source published or     *)
(* corrected and the other requests wrote, purged or lost meanwhile.         *)
THEOREM WalksAreComplete == IngestSpec => []WalkIsComplete
  <1>1. IngestInv => WalkIsComplete
    <2> SUFFICES ASSUME IngestInv, NEW r \in Run, At(r, "purge"), ~run[r].more,
                        NEW i \in run[r].owes, KeyOf[i] # NoKey,
                        source[i].date >= Floor(today)
                 PROVE  KeyOf[i] \in DOMAIN store
      BY DEF WalkIsComplete
    <2>1. IngestType /\ RequestInv(r)
      BY DEF IngestInv
    <2>2. Accounted(r, i) /\ DOMAIN run[r].page = {} /\ DOMAIN run[r].wrote = {}
      BY <2>1 DEF RequestInv, At
    <2>3. ~Below(i)
      <3>1. source[i].date \in Nat /\ Floor(today) \in Nat
        BY <2>1, Dates, Floors DEF RequestInv
      <3> QED BY <3>1 DEF Below
    <2>4. ~Ahead(r, i)
      BY DEF Ahead, At
    <2> QED BY <2>2, <2>3, <2>4 DEF Accounted
  <1> QED BY <1>1, IngestStart, IngestStep, PTL DEF IngestSpec

-----------------------------------------------------------------------------
(* Requests run down.                                                        *)

(* A row takes up to three statements, a page its rows and a commit.         *)
PageSteps(n) == 3 * n + 4

StatementsLeft(q) ==
    3 * Cardinality(DOMAIN q.page)
        + (IF q.stage = "update" THEN 2 ELSE IF q.stage = "insert" THEN 1 ELSE 0)

(* The most steps a request with pages of n rows still takes.                *)
StepsLeft(q, n) ==
    CASE q.at = "idle" -> 0
      [] q.at = "purge" -> 1
      [] q.at = "walk" -> (MaxPages - q.pages) * PageSteps(n) + 1
      [] q.at = "apply" -> (MaxPages - q.pages) * PageSteps(n) + StatementsLeft(q) + 2

(* A page is no larger than asked for, and there are no more than allowed.   *)
Limited(q, n) ==
    /\ IsFiniteSet(DOMAIN q.page) /\ Cardinality(DOMAIN q.page) <= n
    /\ q.pages <= MaxPages
    /\ q.at = "walk" => q.pages < MaxPages

LimitedInv == \A r \in Run : Limited(run[r], limit[r])

(* A step of a request brings it nearer to its end, and nobody else's step   *)
(* sets it back, even one that has taken its lock or its rows.               *)
RunsDown ==
    \A r \in Run :
      ~At(r, "idle") => IF Work(r) \/ Fail(r)
                        THEN StepsLeft(run'[r], limit[r]) < StepsLeft(run[r], limit[r])
                        ELSE run'[r] = run[r]

Shrinks(r) ==
    /\ Limited(run'[r], limit[r])
    /\ StepsLeft(run'[r], limit[r]) < StepsLeft(run[r], limit[r])

LEMMA Times ==
  ASSUME NEW a \in Nat, NEW k \in Nat
  PROVE  a * k \in Nat /\ (a + 1) * k = a * k + k
  BY Z3

LEMMA TimesGrows ==
  ASSUME NEW a \in Nat, NEW d \in Nat, NEW k \in Nat
  PROVE  a * k <= (a + d) * k
  <1>1. (a + d) * k = a * k + d * k /\ a * k \in Nat /\ d * k \in Nat
    BY Z3
  <1> QED BY <1>1

(* What pages are left for, and one page less.                               *)
LEMMA PagesLeft ==
  ASSUME NEW m \in Nat, NEW p \in 0 .. m, NEW k \in Nat
  PROVE  /\ (m - p) * k \in Nat /\ (m - p) * k <= m * k /\ m * k \in Nat
         /\ p < m => (m - p) * k = (m - (p + 1)) * k + k
  <1>1. (m - p) * k \in Nat /\ (m - p) * k <= m * k /\ m * k \in Nat
    <2>1. m - p \in Nat /\ m = (m - p) + p
      OBVIOUS
    <2> QED BY <2>1, Times, TimesGrows
  <1>2. ASSUME p < m
        PROVE  (m - p) * k = (m - (p + 1)) * k + k
    <2>1. m - (p + 1) \in Nat /\ m - p = (m - (p + 1)) + 1
      BY <1>2
    <2> QED BY <2>1, Times
  <1> QED BY <1>1, <1>2

LEMMA RequestNumbers ==
  ASSUME NEW q \in Request, NEW n \in Nat \ {0}, Limited(q, n)
  PROVE  /\ Cardinality(DOMAIN q.page) \in 0 .. n
         /\ StatementsLeft(q) \in 0 .. 3 * n + 2
         /\ MaxPages \in Nat /\ q.pages \in 0 .. MaxPages /\ PageSteps(n) \in Nat
  <1>1. Cardinality(DOMAIN q.page) \in 0 .. n
    BY FS_CardinalityType DEF Limited
  <1>2. PICK c, s : /\ c = Cardinality(DOMAIN q.page)
                    /\ s = IF q.stage = "update" THEN 2 ELSE IF q.stage = "insert" THEN 1 ELSE 0
    OBVIOUS
  <1>3. s \in 0 .. 2
    BY <1>2
  <1>4. StatementsLeft(q) = 3 * c + s
    BY <1>2 DEF StatementsLeft
  <1>5. StatementsLeft(q) \in 0 .. 3 * n + 2
    BY <1>1, <1>2, <1>3, <1>4
  <1>6. q.pages \in Nat /\ q.pages <= MaxPages /\ MaxPages \in Nat
    BY IngestAssumption DEF Limited, Request
  <1> QED BY <1>1, <1>5, <1>6 DEF PageSteps

LEMMA StagesLeft ==
  ASSUME NEW q, NEW n
  PROVE  /\ q.at = "idle" => StepsLeft(q, n) = 0
         /\ q.at = "purge" => StepsLeft(q, n) = 1
         /\ q.at = "walk" => StepsLeft(q, n) = (MaxPages - q.pages) * PageSteps(n) + 1
         /\ q.at = "apply" =>
              StepsLeft(q, n) = (MaxPages - q.pages) * PageSteps(n) + StatementsLeft(q) + 2
  <1>1. CASE q.at = "idle"
    BY <1>1 DEF StepsLeft
  <1>2. CASE q.at = "purge"
    BY <1>2 DEF StepsLeft
  <1>3. CASE q.at = "walk"
    BY <1>3 DEF StepsLeft
  <1>4. CASE q.at = "apply"
    BY <1>4 DEF StepsLeft
  <1> QED BY <1>1, <1>2, <1>3, <1>4

LEMMA LeftBounds ==
  ASSUME NEW q \in Request, NEW n \in Nat \ {0}, Limited(q, n)
  PROVE  /\ StepsLeft(q, n) \in 0 .. (MaxPages + 1) * PageSteps(n)
         /\ q.at # "idle" => StepsLeft(q, n) >= 1
         /\ q.at \in {"walk", "apply"} => StepsLeft(q, n) >= 2
  <1>1. PICK m, k, l, s, e :
          /\ m = MaxPages /\ k = PageSteps(n) /\ l = StepsLeft(q, n) /\ s = StatementsLeft(q)
          /\ e = (MaxPages - q.pages) * PageSteps(n)
    OBVIOUS
  <1>2. m \in Nat /\ q.pages \in 0 .. m /\ k \in Nat /\ k = 3 * n + 4 /\ s \in 0 .. 3 * n + 2
    BY <1>1, RequestNumbers DEF PageSteps
  <1>3. /\ e \in Nat /\ e <= m * k /\ m * k \in Nat
        /\ (m + 1) * k = m * k + k
    BY <1>1, <1>2, PagesLeft, Times
  <1>4. q.at = "walk" => e >= 4
    <2> SUFFICES ASSUME q.at = "walk" PROVE e >= 4
      OBVIOUS
    <2>1. q.pages < m
      BY <1>1 DEF Limited
    <2>2. e = (m - (q.pages + 1)) * k + k
      BY <1>1, <1>2, <2>1, PagesLeft
    <2>3. m - (q.pages + 1) \in Nat
      BY <1>2, <2>1
    <2>4. (m - (q.pages + 1)) * k \in Nat
      BY <1>2, <2>3, Times
    <2> QED BY <1>2, <2>2, <2>4
  <1>5. /\ q.at = "idle" => l = 0
        /\ q.at = "purge" => l = 1
        /\ q.at = "walk" => l = e + 1
        /\ q.at = "apply" => l = e + s + 2
    BY <1>1, StagesLeft
  <1>6. q.at \in {"idle", "walk", "apply", "purge"}
    BY DEF Request
  <1>7. PICK all : all = (m + 1) * k
    OBVIOUS
  <1>8. PICK mk : mk = m * k
    OBVIOUS
  <1>9. mk \in Nat /\ all = mk + k /\ e <= mk
    BY <1>3, <1>7, <1>8
  <1>10. CASE q.at \in {"idle", "purge"}
    <2>1. l \in 0 .. all
      BY <1>2, <1>5, <1>9, <1>10
    <2>2. q.at # "idle" => l >= 1
      BY <1>5, <1>10
    <2> QED BY <1>1, <1>7, <1>10, <2>1, <2>2
  <1>11. CASE q.at = "walk"
    <2>1. l \in 0 .. all /\ l >= 2
      BY <1>2, <1>3, <1>4, <1>5, <1>9, <1>11
    <2>2. l >= 1
      BY <2>1
    <2> QED BY <1>1, <1>7, <1>11, <2>1, <2>2
  <1>12. CASE q.at = "apply"
    <2>1. l \in 0 .. all /\ l >= 2
      BY <1>2, <1>3, <1>5, <1>9, <1>12
    <2>2. l >= 1
      BY <2>1
    <2> QED BY <1>1, <1>7, <1>12, <2>1, <2>2
  <1> QED BY <1>6, <1>10, <1>11, <1>12

LEMMA IdleLimited == ASSUME NEW n \in Nat PROVE Limited(Idle, n)
  <1>1. Idle.at = "idle" /\ Idle.pages = 0 /\ DOMAIN Idle.page = {}
    BY IdleRequest DEF Idle
  <1> QED BY <1>1, FS_EmptySet, IngestAssumption DEF Limited

LEMMA SetEffect ==
  ASSUME IngestType, NEW r \in Run, NEW q, Set(r, q)
  PROVE  run'[r] = q /\ \A u \in Run \ {r} : run'[u] = run[u]
  BY DEF IngestType, Set

(* A request that ends has nothing left.                                     *)
LEMMA EndShrinks ==
  ASSUME IngestInv, LimitedInv, NEW r \in Run, ~At(r, "idle"), Set(r, Idle)
  PROVE  Shrinks(r)
  <1>1. /\ IngestType /\ run[r] \in Request /\ limit[r] \in Nat \ {0}
        /\ Limited(run[r], limit[r]) /\ run[r].at # "idle"
    BY DEF IngestInv, IngestType, LimitedInv, At
  <1>2. run'[r] = Idle
    BY <1>1, SetEffect
  <1>3. StepsLeft(Idle, limit[r]) = 0
    BY IdleRequest, StagesLeft
  <1>4. StepsLeft(run[r], limit[r]) \in Int /\ StepsLeft(run[r], limit[r]) >= 1
    BY <1>1, LeftBounds
  <1>5. StepsLeft(Idle, limit[r]) < StepsLeft(run[r], limit[r])
    BY <1>3, <1>4
  <1> QED BY <1>1, <1>2, <1>5, IdleLimited DEF Shrinks

LEMMA PurgeLimited ==
  ASSUME IngestInv, NEW r \in Run, NEW more \in BOOLEAN
  PROVE  /\ Limited(ToPurge(r, more), limit[r])
         /\ StepsLeft(ToPurge(r, more), limit[r]) = 1
  <1>1. IngestType /\ limit[r] \in Nat /\ run[r] \in Request
    BY DEF IngestInv, IngestType
  <1>2. PICK q : q = ToPurge(r, more)
    OBVIOUS
  <1>3. q.at = "purge" /\ DOMAIN q.page = {}
    BY <1>1, <1>2, Purging
  <1>4. q.pages = 0
    BY <1>2 DEF ToPurge, Idle
  <1>5. Limited(q, limit[r])
    BY <1>1, <1>3, <1>4, FS_EmptySet, IngestAssumption DEF Limited
  <1>6. StepsLeft(q, limit[r]) = 1
    BY <1>3, StagesLeft
  <1> QED BY <1>2, <1>5, <1>6

(* A walk or a page that ends has its purge left.                            *)
LEMMA ToPurgeShrinks ==
  ASSUME IngestInv, LimitedInv, NEW r \in Run, At(r, "walk") \/ At(r, "apply"),
         NEW more \in BOOLEAN, Set(r, ToPurge(r, more))
  PROVE  Shrinks(r)
  <1>1. /\ IngestType /\ run[r] \in Request /\ limit[r] \in Nat \ {0}
        /\ Limited(run[r], limit[r]) /\ run[r].at \in {"walk", "apply"}
    BY DEF IngestInv, IngestType, LimitedInv, At
  <1>2. run'[r] = ToPurge(r, more)
    BY <1>1, SetEffect
  <1>3. StepsLeft(run[r], limit[r]) \in Int /\ StepsLeft(run[r], limit[r]) >= 2
    BY <1>1, LeftBounds
  <1>4. StepsLeft(run'[r], limit[r]) < StepsLeft(run[r], limit[r])
    <2>1. StepsLeft(ToPurge(r, more), limit[r]) = 1
      BY PurgeLimited
    <2>2. 1 < StepsLeft(run[r], limit[r])
      BY <1>3
    <2> QED BY <1>2, <2>1, <2>2
  <1>5. Limited(run'[r], limit[r])
    BY <1>2, PurgeLimited
  <1> QED BY <1>4, <1>5 DEF Shrinks

(* The n first or last rows of what is due are n rows at most.               *)
LEMMA FewRows ==
  ASSUME IngestType, NEW due \in SUBSET DOMAIN source, NEW n \in Nat \ {0}
  PROVE  LET first == {i \in due : Cardinality({j \in due : Before(j, i)}) < n}
             last == {i \in due : Cardinality({j \in due : Before(i, j)}) < n}
         IN  /\ IsFiniteSet(first) /\ Cardinality(first) <= n
             /\ IsFiniteSet(last) /\ Cardinality(last) <= n
  <1> DEFINE first == {i \in due : Cardinality({j \in due : Before(j, i)}) < n}
             last == {i \in due : Cardinality({j \in due : Before(i, j)}) < n}
  <1>1. ASSUME NEW Q \in SUBSET DOMAIN source
        PROVE  IsFiniteSet(Q) /\ Cardinality(Q) \in Nat
    BY FS_Subset, FS_CardinalityType DEF IngestType
  <1>2. ASSUME NEW Q \in SUBSET due, NEW i \in Q, NEW S \in SUBSET due,
               Q \ {i} \subseteq S, Cardinality(S) < n
        PROVE  Cardinality(Q) <= n
    <2>1. IsFiniteSet(S) /\ Cardinality(S) \in Nat /\ IsFiniteSet(Q) /\ Cardinality(Q) \in Nat
      BY <1>1
    <2>2. Cardinality(Q \ {i}) <= Cardinality(S)
      BY <1>2, <2>1, FS_Subset
    <2>3. Cardinality(Q \ {i}) = Cardinality(Q) - 1
      BY <2>1, FS_RemoveElement
    <2> QED BY <1>2, <2>1, <2>2, <2>3
  <1>3. Cardinality(first) <= n
    <2>1. CASE first = {}
      <3> HIDE DEF first
      <3> QED BY <2>1, FS_EmptySet
    <2>2. CASE first # {}
      <3>1. PICK i \in first : \A j \in first \ {i} : Before(j, i)
        BY <2>2, Ends
      <3>2. first \ {i} \subseteq {j \in due : Before(j, i)}
        BY <3>1
      <3>3. Cardinality({j \in due : Before(j, i)}) < n
        BY <3>1
      <3>4. first \in SUBSET due /\ {j \in due : Before(j, i)} \in SUBSET due
        OBVIOUS
      <3> HIDE DEF first
      <3> QED BY <1>2, <3>1, <3>2, <3>3, <3>4
    <2> QED BY <2>1, <2>2
  <1>4. Cardinality(last) <= n
    <2>1. CASE last = {}
      <3> HIDE DEF last
      <3> QED BY <2>1, FS_EmptySet
    <2>2. CASE last # {}
      <3>1. PICK i \in last : \A j \in last \ {i} : Before(i, j)
        BY <2>2, Ends
      <3>2. last \ {i} \subseteq {j \in due : Before(i, j)}
        BY <3>1
      <3>3. Cardinality({j \in due : Before(i, j)}) < n
        BY <3>1
      <3>4. last \in SUBSET due /\ {j \in due : Before(i, j)} \in SUBSET due
        OBVIOUS
      <3> HIDE DEF last
      <3> QED BY <1>2, <3>1, <3>2, <3>3, <3>4
    <2> QED BY <2>1, <2>2
  <1>5. first \in SUBSET DOMAIN source /\ last \in SUBSET DOMAIN source
    OBVIOUS
  <1> QED BY <1>1, <1>3, <1>4, <1>5

(* A batch is at most its page.                                              *)
LEMMA BatchIsSmall ==
  ASSUME IngestType, NEW page \in SUBSET DOMAIN source, NEW pages \in Nat, NEW n \in Nat,
         Cardinality(page) <= n
  PROVE  IsFiniteSet(DOMAIN Batch(page, pages)) /\ Cardinality(DOMAIN Batch(page, pages)) <= n
  <1> DEFINE keys == {KeyOf[j] : j \in page} \ {NoKey}
             Same(k) == {j \in page : KeyOf[j] = k}
             rows == {Leading(pages, Same(k)) : k \in keys}
  <1>1. ASSUME NEW k \in keys
        PROVE  Leading(pages, Same(k)) \in page
    <2> DEFINE same == Same(k)
    <2>1. same \in SUBSET DOMAIN source /\ same # {}
      OBVIOUS
    <2> HIDE DEF same
    <2>2. Leading(pages, same) \in same
      BY <2>1, Ends DEF Leading
    <2> QED BY <2>2 DEF same
  <1>2. DOMAIN Batch(page, pages) = rows
    BY DEF Batch
  <1>3. rows \subseteq page
    BY <1>1
  <1> HIDE DEF rows
  <1>4. IsFiniteSet(page) /\ Cardinality(page) \in Nat
    BY FS_Subset, FS_CardinalityType DEF IngestType
  <1>5. IsFiniteSet(rows) /\ Cardinality(rows) <= Cardinality(page) /\ Cardinality(rows) \in Nat
    BY <1>3, <1>4, FS_Subset, FS_CardinalityType
  <1> QED BY <1>2, <1>4, <1>5

LEMMA BeginLimited ==
  ASSUME IngestInv, NEW r \in Run, NEW since, NEW upto, Begin(r, since, upto)
  PROVE  Limited(run'[r], limit[r])
  <1>1. IngestType /\ limit[r] \in Nat
    BY DEF IngestInv, IngestType
  <1>2. PICK q, floor, cursor, owes :
          /\ q = [Idle EXCEPT !.at = "walk", !.floor = floor, !.upto = upto,
                     !.cursor = cursor, !.began = today, !.owes = owes]
          /\ Set(r, q)
    BY DEF Begin
  <1>3. q.pages = 0 /\ q.page = Idle.page
    BY <1>2 DEF Idle
  <1>4. DOMAIN q.page = {}
    BY <1>3, IdleRequest
  <1>5. Limited(q, limit[r])
    BY <1>1, <1>3, <1>4, FS_EmptySet, IngestAssumption DEF Limited
  <1> QED BY <1>1, <1>2, <1>5, SetEffect

LEMMA PullPageLimited ==
  ASSUME IngestInv, NEW r \in Run, PullPage(r)
  PROVE  Limited(run'[r], limit[r])
  <1> DEFINE due == Due(<<Floor(today), 0>>, MaxDay)
             page == {i \in due : Cardinality({j \in due : Before(i, j)}) < limit[r]}
             batch == Batch(page, 0)
             q == [Idle EXCEPT !.at = "apply", !.floor = Floor(today), !.began = today,
                     !.page = batch]
  <1>1. IngestType /\ limit[r] \in Nat \ {0}
    BY DEF IngestInv, IngestType
  <1>2. due \in SUBSET DOMAIN source
    BY DEF Due
  <1>3. Set(r, q)
    BY DEF PullPage
  <1> HIDE DEF due
  <1>4. Cardinality(page) <= limit[r] /\ page \in SUBSET DOMAIN source
    BY <1>1, <1>2, FewRows
  <1> HIDE DEF page
  <1>5. IsFiniteSet(DOMAIN batch) /\ Cardinality(DOMAIN batch) <= limit[r]
    BY <1>1, <1>4, 0 \in Nat, BatchIsSmall
  <1> HIDE DEF batch
  <1>6. q.at = "apply" /\ q.pages = 0 /\ q.page = batch
    BY DEF Idle
  <1>7. Limited(q, limit[r])
    BY <1>5, <1>6, IngestAssumption DEF Limited
  <1> HIDE DEF q
  <1> QED BY <1>1, <1>3, <1>7, SetEffect

(* A page takes one from those left, and its statements fit in its place.    *)
LEMMA FetchShrinks ==
  ASSUME IngestInv, LimitedInv, NEW r \in Run, Fetch(r)
  PROVE  Shrinks(r)
  <1> DEFINE due == Due(run[r].cursor, run[r].upto)
             page == {i \in due : Cardinality({j \in due : Before(j, i)}) < limit[r]}
             batch == Batch(page, run[r].pages + 1)
             cursor == <<source[Newest(page)].date, Newest(page)>>
             full == Cardinality(page) = limit[r]
             q == [run[r] EXCEPT !.at = "apply", !.pages = @ + 1, !.more = full,
                     !.cursor = cursor, !.page = batch]
  <1>1. /\ IngestType /\ run[r] \in Request /\ limit[r] \in Nat \ {0}
        /\ Limited(run[r], limit[r]) /\ At(r, "walk") /\ run[r].at = "walk"
    BY DEF IngestInv, IngestType, LimitedInv, Fetch, At
  <1>2. due \in SUBSET DOMAIN source
    BY DEF Due
  <1>3. Set(r, ToPurge(r, FALSE)) \/ Set(r, q)
    BY DEF Fetch
  <1> HIDE DEF due
  <1>4. Cardinality(page) <= limit[r] /\ page \in SUBSET DOMAIN source
    BY <1>1, <1>2, FewRows
  <1> HIDE DEF page
  <1>5. IsFiniteSet(DOMAIN batch) /\ Cardinality(DOMAIN batch) <= limit[r]
    <2>1. run[r].pages + 1 \in Nat
      BY <1>1 DEF Request
    <2> QED BY <1>1, <1>4, <2>1, BatchIsSmall
  <1> HIDE DEF batch, cursor, full
  <1>6. /\ q.at = "apply" /\ q.pages = run[r].pages + 1 /\ q.page = batch
        /\ q.stage = run[r].stage
    BY <1>1 DEF Request
  <1> HIDE DEF q
  <1>7. CASE Set(r, ToPurge(r, FALSE))
    BY <1>1, <1>7, ToPurgeShrinks
  <1>8. CASE Set(r, q)
    <2>1. run'[r] = q
      BY <1>1, <1>8, SetEffect
    <2>2. PICK m, p, k, s, n, c, z :
            /\ m = MaxPages /\ p = run[r].pages /\ k = PageSteps(limit[r]) /\ n = limit[r]
            /\ c = Cardinality(DOMAIN q.page) /\ s = StatementsLeft(q)
            /\ z = IF q.stage = "update" THEN 2 ELSE IF q.stage = "insert" THEN 1 ELSE 0
      OBVIOUS
    <2>3. /\ m \in Nat /\ p \in 0 .. m /\ p < m /\ n \in Nat /\ k = 3 * n + 4 /\ k \in Nat
          /\ c \in Nat /\ c <= n
      <3>1. c \in Nat
        BY <1>5, <1>6, <2>2, FS_CardinalityType
      <3>2. p < m
        BY <1>1, <2>2 DEF Limited
      <3> QED BY <1>1, <1>5, <1>6, <2>2, <3>1, <3>2, RequestNumbers DEF PageSteps
    <2>4. s = 3 * c + z /\ z \in 0 .. 2
      BY <2>2 DEF StatementsLeft
    <2>5. (m - p) * k = (m - (p + 1)) * k + k /\ (m - (p + 1)) * k \in Nat
      <3>1. p + 1 \in 0 .. m
        BY <2>3
      <3> QED BY <2>3, <3>1, PagesLeft
    <2>6. /\ StepsLeft(run[r], n) = (m - p) * k + 1
          /\ StepsLeft(q, n) = (m - (p + 1)) * k + s + 2
      BY <1>1, <1>6, <2>2, StagesLeft
    <2>7. PICK a : a = (m - (p + 1)) * k
      OBVIOUS
    <2>8. a \in Nat /\ StepsLeft(run[r], n) = a + k + 1 /\ StepsLeft(q, n) = a + s + 2
      BY <2>5, <2>6, <2>7
    <2>9. StepsLeft(q, n) < StepsLeft(run[r], n)
      BY <2>3, <2>4, <2>8
    <2>10. Limited(q, limit[r])
      <3>1. q.pages <= MaxPages
        BY <1>6, <2>2, <2>3
      <3> QED BY <1>5, <1>6, <3>1 DEF Limited
    <2> QED BY <2>1, <2>2, <2>9, <2>10 DEF Shrinks
  <1> QED BY <1>3, <1>7, <1>8

(* On a page, a request comes nearer to its end as its statements do.        *)
LEMMA StatementShrinks ==
  ASSUME IngestInv, LimitedInv, NEW r \in Run, run[r].at = "apply", NEW q, Set(r, q),
         q.at = "apply", q.pages = run[r].pages, DOMAIN q.page \subseteq DOMAIN run[r].page,
         StatementsLeft(q) \in Int, StatementsLeft(q) < StatementsLeft(run[r])
  PROVE  Shrinks(r)
  <1>1. /\ IngestType /\ run[r] \in Request /\ limit[r] \in Nat \ {0}
        /\ Limited(run[r], limit[r])
    BY DEF IngestInv, IngestType, LimitedInv
  <1>2. run'[r] = q
    BY <1>1, SetEffect
  <1>3. Limited(q, limit[r])
    <2>1. IsFiniteSet(DOMAIN run[r].page) /\ Cardinality(DOMAIN run[r].page) <= limit[r]
      BY <1>1 DEF Limited
    <2>2. IsFiniteSet(DOMAIN q.page)
      BY <2>1, FS_Subset
    <2>3. Cardinality(DOMAIN q.page) <= Cardinality(DOMAIN run[r].page)
      BY <2>1, FS_Subset
    <2>4. Cardinality(DOMAIN q.page) \in Nat /\ Cardinality(DOMAIN run[r].page) \in Nat
      BY <2>1, <2>2, FS_CardinalityType
    <2>5. Cardinality(DOMAIN q.page) <= limit[r]
      BY <1>1, <2>1, <2>3, <2>4
    <2> QED BY <1>1, <2>2, <2>5 DEF Limited
  <1>4. PICK a : a = (MaxPages - run[r].pages) * PageSteps(limit[r])
    OBVIOUS
  <1>5. a \in Nat /\ StatementsLeft(run[r]) \in Int
    BY <1>1, <1>4, RequestNumbers, PagesLeft
  <1>6. /\ StepsLeft(run[r], limit[r]) = a + StatementsLeft(run[r]) + 2
        /\ StepsLeft(q, limit[r]) = a + StatementsLeft(q) + 2
    BY <1>4, StagesLeft
  <1>7. StepsLeft(q, limit[r]) < StepsLeft(run[r], limit[r])
    BY <1>5, <1>6
  <1> QED BY <1>2, <1>3, <1>7 DEF Shrinks

LEMMA WriteShrinks ==
  ASSUME IngestInv, LimitedInv, NEW r \in Run, At(r, "apply"), run[r].page # Empty, Write(r)
  PROVE  Shrinks(r)
  <1> DEFINE i == AtHand(r)
             page == run[r].page
             left == Restrict(page, DOMAIN page \ {i})
  <1>1. /\ IngestType /\ RequestInv(r) /\ run[r] \in Request /\ page \in Published
        /\ limit[r] \in Nat \ {0} /\ Limited(run[r], limit[r]) /\ run[r].at = "apply"
    BY DEF IngestInv, IngestType, Request, LimitedInv, At
  <1>2. PICK S \in SUBSET Row : page \in [S -> Fetched]
    BY <1>1 DEF Published
  <1>3. DOMAIN page # {} /\ DOMAIN page \in SUBSET DOMAIN source
    BY <1>1, <1>2 DEF Empty, RequestInv, PageInv
  <1>4. i \in DOMAIN page
    BY <1>1, <1>3, Ends DEF AtHand, Leading
  <1>5. PICK table :
          Set(r, [run[r] EXCEPT !.page = left, !.stage = "update", !.wrote = table])
    BY DEF Write
  <1> HIDE DEF i
  <1>6. DOMAIN left = DOMAIN page \ {i}
    BY DEF Restrict
  <1> HIDE DEF left
  <1>7. PICK q : /\ q = [run[r] EXCEPT !.page = left, !.stage = "update", !.wrote = table]
                 /\ Set(r, q)
    BY <1>5
  <1>8. q.at = "apply" /\ q.pages = run[r].pages /\ q.page = left /\ q.stage = "update"
    BY <1>1, <1>7 DEF Request
  <1>9. PICK c, d, s, z :
          /\ c = Cardinality(DOMAIN page) /\ d = Cardinality(DOMAIN left)
          /\ s = StatementsLeft(run[r])
          /\ z = IF run[r].stage = "update" THEN 2 ELSE IF run[r].stage = "insert" THEN 1 ELSE 0
    OBVIOUS
  <1>10. IsFiniteSet(DOMAIN page) /\ c \in Nat /\ c >= 1 /\ d = c - 1
    <2>1. IsFiniteSet(DOMAIN page)
      BY <1>1 DEF Limited
    <2>2. d = c - 1 /\ IsFiniteSet(DOMAIN left)
      <3>1. PICK all : all = DOMAIN page
        OBVIOUS
      <3>2. i \in all /\ IsFiniteSet(all) /\ DOMAIN left = all \ {i}
        BY <1>4, <1>6, <2>1, <3>1
      <3>3. IsFiniteSet(all \ {i}) /\ Cardinality(all \ {i}) = Cardinality(all) - 1
        BY <3>2, FS_RemoveElement
      <3> QED BY <1>9, <3>1, <3>2, <3>3
    <2>3. c \in Nat /\ d \in Nat
      BY <1>9, <2>1, <2>2, FS_CardinalityType
    <2> QED BY <2>1, <2>2, <2>3
  <1>11. s = 3 * c + z /\ z \in 0 .. 2
    BY <1>9 DEF StatementsLeft
  <1>12. StatementsLeft(q) = 3 * d + 2
    BY <1>8, <1>9 DEF StatementsLeft
  <1>13. StatementsLeft(q) \in Int /\ StatementsLeft(q) < s
    BY <1>10, <1>11, <1>12
  <1> QED BY <1>1, <1>6, <1>7, <1>8, <1>9, <1>13, StatementShrinks

LEMMA NextStageShrinks ==
  ASSUME IngestInv, LimitedInv, NEW r \in Run, At(r, "apply"), NEW stage,
         \/ run[r].stage = "update" /\ stage = "insert"
         \/ run[r].stage = "insert" /\ stage = "again",
         Set(r, [run[r] EXCEPT !.stage = stage])
  PROVE  Shrinks(r)
  <1>1. /\ run[r] \in Request /\ limit[r] \in Nat \ {0} /\ Limited(run[r], limit[r])
        /\ run[r].at = "apply"
    BY DEF IngestInv, IngestType, LimitedInv, At
  <1>2. PICK q : q = [run[r] EXCEPT !.stage = stage] /\ Set(r, q)
    OBVIOUS
  <1>3. /\ q.at = "apply" /\ q.pages = run[r].pages /\ q.page = run[r].page /\ q.stage = stage
    BY <1>1, <1>2 DEF Request
  <1>4. PICK c : c = 3 * Cardinality(DOMAIN run[r].page)
    OBVIOUS
  <1>5. c \in Int
    BY <1>1, <1>4, RequestNumbers
  <1>6. /\ run[r].stage = "update" => StatementsLeft(run[r]) = c + 2
        /\ run[r].stage = "insert" => StatementsLeft(run[r]) = c + 1
        /\ stage = "insert" => StatementsLeft(q) = c + 1
        /\ stage = "again" => StatementsLeft(q) = c + 0
    BY <1>3, <1>4 DEF StatementsLeft
  <1>7. StatementsLeft(q) \in Int /\ StatementsLeft(q) < StatementsLeft(run[r])
    <2>1. CASE run[r].stage = "update" /\ stage = "insert"
      BY <1>5, <1>6, <2>1
    <2>2. CASE run[r].stage = "insert" /\ stage = "again"
      BY <1>5, <1>6, <2>2
    <2> QED BY <2>1, <2>2
  <1> QED BY <1>1, <1>2, <1>3, <1>7, StatementShrinks

LEMMA RowShrinks ==
  ASSUME IngestInv, LimitedInv, NEW r \in Run, Update(r) \/ Insert(r) \/ UpdateAgain(r)
  PROVE  Shrinks(r)
  <1>1. /\ At(r, "apply") /\ run[r].page # Empty /\ ~At(r, "idle")
    BY DEF Update, Insert, UpdateAgain, Statement, At
  <1>2. \/ Write(r) \/ Set(r, Idle)
        \/ \E stage \in {"insert", "again"} :
             /\ \/ run[r].stage = "update" /\ stage = "insert"
                \/ run[r].stage = "insert" /\ stage = "again"
             /\ Set(r, [run[r] EXCEPT !.stage = stage])
    BY DEF Update, Insert, UpdateAgain, Statement
  <1> QED BY <1>1, <1>2, WriteShrinks, NextStageShrinks, EndShrinks

(* After a page that is written, a walk goes on only if a page is left.      *)
LEMMA CommitShrinks ==
  ASSUME IngestInv, LimitedInv, NEW r \in Run, Commit(r)
  PROVE  Shrinks(r)
  <1>1. /\ IngestType /\ run[r] \in Request /\ limit[r] \in Nat \ {0}
        /\ Limited(run[r], limit[r]) /\ At(r, "apply") /\ run[r].at = "apply"
        /\ run[r].more \in BOOLEAN
    BY DEF IngestInv, IngestType, Request, LimitedInv, Commit, At
  <1>2. CASE Set(r, ToPurge(r, run[r].more))
    BY <1>1, <1>2, ToPurgeShrinks
  <1>3. CASE /\ run[r].pages < MaxPages
             /\ Set(r, [run[r] EXCEPT !.wrote = Empty, !.at = "walk"])
    <2>1. PICK q : q = [run[r] EXCEPT !.wrote = Empty, !.at = "walk"] /\ Set(r, q)
      BY <1>3
    <2>2. q.at = "walk" /\ q.pages = run[r].pages /\ q.page = run[r].page
      BY <1>1, <2>1 DEF Request
    <2>3. run'[r] = q
      BY <1>1, <2>1, SetEffect
    <2>4. PICK a : a = (MaxPages - run[r].pages) * PageSteps(limit[r])
      OBVIOUS
    <2>5. a \in Nat /\ StatementsLeft(run[r]) \in Nat
      BY <1>1, <2>4, RequestNumbers, PagesLeft
    <2>6. /\ StepsLeft(run[r], limit[r]) = a + StatementsLeft(run[r]) + 2
          /\ StepsLeft(q, limit[r]) = a + 1
      BY <1>1, <2>2, <2>4, StagesLeft
    <2>7. StepsLeft(q, limit[r]) < StepsLeft(run[r], limit[r])
      BY <2>5, <2>6
    <2>8. Limited(q, limit[r])
      BY <1>1, <1>3, <2>2 DEF Limited
    <2> QED BY <2>3, <2>7, <2>8 DEF Shrinks
  <1> QED BY <1>2, <1>3 DEF Commit

LEMMA RequestShrinks ==
  ASSUME IngestInv, LimitedInv, NEW r \in Run, Work(r) \/ Fail(r)
  PROVE  Shrinks(r)
  <1>1. CASE Fetch(r)
    BY <1>1, FetchShrinks
  <1>2. CASE Update(r) \/ Insert(r) \/ UpdateAgain(r)
    BY <1>2, RowShrinks
  <1>3. CASE Commit(r)
    BY <1>3, CommitShrinks
  <1>4. CASE Purge(r) \/ Fail(r)
    <2>1. ~At(r, "idle") /\ Set(r, Idle)
      BY <1>4 DEF Purge, Fail, At
    <2> QED BY <2>1, EndShrinks
  <1> QED BY <1>1, <1>2, <1>3, <1>4 DEF Work

(* A step touches the record of at most one request.                         *)
LEMMA OneAtATime ==
  ASSUME IngestType, NEW u \in Run, NEW r \in Run, r # u,
         \/ Backfill(u) \/ PullPage(u) \/ Fail(u) \/ Work(u)
         \/ \E day \in 0 .. MaxDay : BackfillWindow(u, day, day)
  PROVE  run'[r] = run[r]
  <1>1. PICK q : Set(u, q)
    BY DEF Backfill, PullPage, Fail, BackfillWindow, Begin, Work, Fetch, Update, Insert,
       UpdateAgain, Write, Commit, Purge
  <1> QED BY <1>1, SetEffect

LEMMA RequestStep ==
  ASSUME IngestInv, LimitedInv, [IngestNext]_ingestVars, NEW r \in Run
  PROVE  /\ limit' = limit /\ Limited(run'[r], limit[r])
         /\ Work(r) \/ Fail(r) =>
              StepsLeft(run'[r], limit[r]) < StepsLeft(run[r], limit[r])
         /\ ~At(r, "idle") /\ ~(Work(r) \/ Fail(r)) => run'[r] = run[r]
  <1>1. IngestType /\ Limited(run[r], limit[r])
    BY DEF IngestInv, LimitedInv
  <1>2. limit' = limit
    BY DEF IngestNext, Correct, Publish, Midnight, Backfill, PullPage, Fail, Work, BackfillWindow,
       Fetch, Update, Insert, UpdateAgain, Commit, Purge, ingestVars
  <1>3. CASE Work(r) \/ Fail(r)
    BY <1>2, <1>3, RequestShrinks DEF Shrinks
  <1>4. CASE ~(Work(r) \/ Fail(r))
    <2>1. CASE \/ Backfill(r) \/ PullPage(r)
               \/ \E day \in 0 .. MaxDay : BackfillWindow(r, day, day)
      <3>1. At(r, "idle")
        BY <2>1 DEF Backfill, PullPage, BackfillWindow
      <3>2. Limited(run'[r], limit[r])
        BY <2>1, BeginLimited, PullPageLimited DEF Backfill, BackfillWindow
      <3> QED BY <1>2, <1>4, <3>1, <3>2
    <2>2. CASE run'[r] = run[r]
      BY <1>1, <1>2, <1>4, <2>2
    <2>3. CASE \E u \in Run \ {r} :
                 \/ Backfill(u) \/ PullPage(u) \/ Fail(u) \/ Work(u)
                 \/ \E day \in 0 .. MaxDay : BackfillWindow(u, day, day)
      BY <1>1, <2>2, <2>3, OneAtATime
    <2>4. CASE UNCHANGED run
      BY <2>2, <2>4
    <2>5. \/ UNCHANGED run
          \/ \E u \in Run : \/ Backfill(u) \/ PullPage(u) \/ Fail(u) \/ Work(u)
                            \/ \E day \in 0 .. MaxDay : BackfillWindow(u, day, day)
      BY DEF IngestNext, Correct, Publish, Midnight, ingestVars
    <2> QED BY <1>4, <2>1, <2>3, <2>4, <2>5
  <1> QED BY <1>3, <1>4

(* The safety half of Settles: each page, statement, retried statement and   *)
(* failure that run_backfill and ingest_crime_incidents take uses up one of  *)
(* finitely many steps, whatever the source publishes ahead of the walk and  *)
(* whatever rows other requests lock, store or purge meanwhile.  A request   *)
(* whose work goes on must therefore end.                                    *)
THEOREM RequestsRunDown ==
  IngestSpec => /\ [][RunsDown]_ingestVars
                /\ [](\A r \in Run :
                        /\ StepsLeft(run[r], limit[r])
                             \in 0 .. (MaxPages + 1) * PageSteps(limit[r])
                        /\ ~At(r, "idle") => StepsLeft(run[r], limit[r]) >= 1)
  <1> DEFINE Bounded ==
        \A r \in Run :
          /\ StepsLeft(run[r], limit[r]) \in 0 .. (MaxPages + 1) * PageSteps(limit[r])
          /\ ~At(r, "idle") => StepsLeft(run[r], limit[r]) >= 1
  <1>1. IngestInit => LimitedInv
    <2> SUFFICES ASSUME IngestInit, NEW r \in Run PROVE Limited(run[r], limit[r])
      BY DEF LimitedInv
    <2>1. run[r] = Idle /\ limit[r] \in Nat
      BY IngestAssumption DEF IngestInit
    <2> QED BY <2>1, IdleLimited
  <1>2. IngestInv /\ LimitedInv /\ [IngestNext]_ingestVars => LimitedInv' /\ [RunsDown]_ingestVars
    <2> SUFFICES ASSUME IngestInv, LimitedInv, [IngestNext]_ingestVars
                 PROVE  LimitedInv' /\ RunsDown
      OBVIOUS
    <2>1. LimitedInv'
      BY RequestStep DEF LimitedInv
    <2>2. RunsDown
      BY RequestStep DEF RunsDown
    <2> QED BY <2>1, <2>2
  <1>3. IngestInv /\ LimitedInv => Bounded
    <2> SUFFICES ASSUME IngestInv, LimitedInv, NEW r \in Run
                 PROVE  /\ StepsLeft(run[r], limit[r])
                             \in 0 .. (MaxPages + 1) * PageSteps(limit[r])
                        /\ ~At(r, "idle") => StepsLeft(run[r], limit[r]) >= 1
      BY DEF Bounded
    <2>1. run[r] \in Request /\ limit[r] \in Nat \ {0} /\ Limited(run[r], limit[r])
      BY DEF IngestInv, IngestType, LimitedInv
    <2> QED BY <2>1, LeftBounds DEF At
  <1> HIDE DEF Bounded
  <1>4. IngestSpec => [][RunsDown]_ingestVars /\ []Bounded
    BY <1>1, <1>2, <1>3, IngestStart, IngestStep, PTL DEF IngestSpec
  <1> QED BY <1>4 DEF Bounded
=============================================================================
