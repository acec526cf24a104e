------------------------------ MODULE AtmProofs ------------------------------
(***************************************************************************)
(* Proofs about the ATMs of BankUI: AtmLoading, the list and what it is    *)
(* downloaded from, and AtmClusters, their grouping on the map.  The two   *)
(* models share no variable; each has its own part below.                  *)
(***************************************************************************)
EXTENDS AtmLoading, AtmClusters, FiniteSetTheorems, SequenceTheorems, TLAPS

-----------------------------------------------------------------------------
(***************************************************************************)
(* Proofs about AtmLoading, for any list of ATMs, any number of stations   *)
(* and any number of loads.                                                *)
(*                                                                         *)
(* The argument turns on what a download may assume of the database.       *)
(* Stations are asked for after all ATMs were written (WholeInv), so that, *)
(* while nothing fails and the process is not killed, the ATMs' database   *)
(* is empty or complete (CompleteInv); what a kill has left stays as it    *)
(* is, and so what a load once listed stays right (ShownInv).  While no    *)
(* two downloads are out, one for ATMs finds both databases empty          *)
(* (OnceInv); with no ATM on the server it would not, and every load would *)
(* store the stations again.  The table lags behind the list only while    *)
(* the block that shows it waits (TableInv).                               *)
(*                                                                         *)
(* A row that is selected stays in range, unless it was selected while the *)
(* table lagged behind (SelectInv): the list of a presenter that is        *)
(* replaced does not change any more, and that of the current one changes  *)
(* only when its one download is listed (AloneInv), before which it is     *)
(* empty (PendingInv).                                                     *)
(***************************************************************************)

In(c, q) == \E k \in DOMAIN q : q[k] = c

\* No download waits twice to be listed.
Single(q) ==
    \A k, l \in DOMAIN q : q[k] = q[l] /\ q[k].kind = "loaded" => k = l

SubsetInv == list \subseteq Stored /\ table \subseteq Stored

WholeInv ==
    /\ \A d \in downloads : d.of = "subways" => Stored = Atm
    /\ \A n \in Load : In(Loaded(n), mainQueue) => Stored = Atm

NoSubways == \A s \in Station : subways[s] = 0

OnceInv ==
    TypeOf # <<>> /\ ~overlapped =>
        /\ \A d, e \in downloads : d = e
        /\ \A d \in downloads : d.of = "atms" => Stored = {}
        /\ \A d \in downloads : d.of = "subways" => NoSubways
        /\ Stored = {} => NoSubways
        /\ \A a \in Atm : atms[a] <= 1
        /\ \A s \in Station : subways[s] <= 1

CompleteInv ==
    ~failed =>
        \/ Stored = {}
        \/ Stored = Atm /\ \E d \in downloads : d.of = "subways"
        \/ Stored = Atm /\ \A s \in Station : subways[s] > 0
        \/ killed /\ Stored # {} /\ downloads = {}

\* No download will change what is stored: all is there, or none is out.
Settled == Stored = Atm \/ (Stored # {} /\ downloads = {})

ShownInv ==
    loads > 0 /\ ~failed =>
        \/ \E d \in downloads : d.load = loads
        \/ In(Loaded(loads), mainQueue)
        \/ Settled /\ list = AtmsListFromRealm(filters)

TableInv == In(Show, mainQueue) \/ table = list

LoadingInv ==
    /\ TypeOK
    /\ SubsetInv
    /\ WholeInv
    /\ OnceInv
    /\ CompleteInv
    /\ ShownInv
    /\ TableInv

AloneInv ==
    /\ \A d \in downloads : d.load <= loads /\ ~In(Loaded(d.load), mainQueue)
    /\ \A d, e \in downloads : d.load = e.load => d = e
    /\ \A n \in Load : In(Loaded(n), mainQueue) => n <= loads
    /\ Single(mainQueue)

PendingInv ==
    (\E d \in downloads : d.load = loads) \/ In(Loaded(loads), mainQueue)
        => list = {}

SelectInv ==
    \A b \in Selected :
        In(b, mainQueue) =>
            b.load <= loads /\ (b.early \/ b.row < Cardinality(ListOf(b.load)))

QueueInv == AloneInv /\ PendingInv /\ SelectInv

CrashInv ==
    crashed => \/ In(Show, mainQueue)
               \/ /\ mainQueue # <<>>
                  /\ Head(mainQueue).kind = "select"
                  /\ Head(mainQueue).early

-----------------------------------------------------------------------------
\* What the constants are.
LEMMA Constants ==
    /\ Len(TypeOf) \in Nat
    /\ Atm = 1..Len(TypeOf)
    /\ Stations \in Nat
    /\ MaxLoads \in Nat
    /\ TypeOf # <<>> => Atm # {}
<1>1. Len(TypeOf) \in Nat /\ Atm = 1..Len(TypeOf)
  BY TypeOfAssumption, LenProperties DEF Atm
<1>2. TypeOf # <<>> => Len(TypeOf) # 0
  BY TypeOfAssumption, EmptySeq
<1>3. TypeOf # <<>> => 1 \in Atm
  BY <1>1, <1>2
<1> QED BY <1>1, <1>3, BoundsAssumption

\* A block that is appended waits, with all that waited before.
LEMMA InAppend ==
    ASSUME NEW S, NEW q \in Seq(S), NEW b \in S
    PROVE  \A c : In(c, Append(q, b)) <=> In(c, q) \/ c = b
<1>1. /\ Len(q) \in Nat
      /\ DOMAIN q = 1..Len(q)
      /\ DOMAIN Append(q, b) = 1..Len(q) + 1
      /\ \A k \in 1..Len(q) : Append(q, b)[k] = q[k]
      /\ Append(q, b)[Len(q) + 1] = b
  BY LenProperties, AppendProperties
<1> QED BY <1>1 DEF In

\* What waits is the first block, or behind it.
LEMMA InTail ==
    ASSUME NEW S, NEW q \in Seq(S), q # <<>>
    PROVE  /\ Tail(q) \in Seq(S)
           /\ Head(q) \in S
           /\ \A c : In(c, q) <=> c = Head(q) \/ In(c, Tail(q))
<1>1. /\ Len(q) \in Nat \ {0}
      /\ DOMAIN q = 1..Len(q)
      /\ Head(q) = q[1]
      /\ Tail(q) \in Seq(S)
      /\ Head(q) \in S
      /\ DOMAIN Tail(q) = 1..Len(q) - 1
      /\ \A k \in 1..Len(q) - 1 : Tail(q)[k] = q[k + 1]
  BY LenProperties, HeadTailProperties, EmptySeq
<1>2. ASSUME NEW c, In(c, q) PROVE c = Head(q) \/ In(c, Tail(q))
  <2>1. PICK k \in 1..Len(q) : q[k] = c
    BY <1>1, <1>2 DEF In
  <2>2. CASE k = 1
    BY <1>1, <2>1, <2>2
  <2>3. CASE k # 1
    <3>1. k - 1 \in 1..Len(q) - 1 /\ (k - 1) + 1 = k
      BY <1>1, <2>3
    <3>2. Tail(q)[k - 1] = c
      BY <1>1, <2>1, <3>1
    <3> QED BY <1>1, <3>1, <3>2 DEF In
  <2> QED BY <2>2, <2>3
<1>3. ASSUME NEW c, c = Head(q) \/ In(c, Tail(q)) PROVE In(c, q)
  BY <1>1, <1>3 DEF In
<1> QED BY <1>1, <1>2, <1>3

\* A block that does not wait yet, or is of no download, may be appended.
LEMMA SingleAppend ==
    ASSUME NEW S, NEW q \in Seq(S), NEW b \in S, Single(q),
           b.kind # "loaded" \/ ~In(b, q)
    PROVE  Single(Append(q, b))
<1>1. /\ Len(q) \in Nat
      /\ DOMAIN q = 1..Len(q)
      /\ DOMAIN Append(q, b) = 1..Len(q) + 1
      /\ \A k \in 1..Len(q) : Append(q, b)[k] = q[k]
      /\ Append(q, b)[Len(q) + 1] = b
  BY LenProperties, AppendProperties
<1>2. \A k \in 1..Len(q) + 1 : k \in 1..Len(q) \/ k = Len(q) + 1
  BY <1>1
<1> QED BY <1>1, <1>2 DEF Single, In

\* When the first block is gone, none like it waits.
LEMMA SingleTail ==
    ASSUME NEW S, NEW q \in Seq(S), q # <<>>, Single(q)
    PROVE  /\ Single(Tail(q))
           /\ Head(q).kind = "loaded" => ~In(Head(q), Tail(q))
<1>1. /\ Len(q) \in Nat \ {0}
      /\ DOMAIN q = 1..Len(q)
      /\ Head(q) = q[1]
      /\ DOMAIN Tail(q) = 1..Len(q) - 1
      /\ \A k \in 1..Len(q) - 1 : Tail(q)[k] = q[k + 1]
  BY LenProperties, HeadTailProperties, EmptySeq
<1>2. \A k \in 1..Len(q) - 1 : k + 1 \in 1..Len(q) /\ k + 1 # 1
  BY <1>1
<1>3. Single(Tail(q))
  <2> SUFFICES ASSUME NEW k \in 1..Len(q) - 1, NEW l \in 1..Len(q) - 1,
                      Tail(q)[k] = Tail(q)[l], Tail(q)[k].kind = "loaded"
               PROVE  k = l
    BY <1>1 DEF Single
  <2>1. k + 1 = l + 1
    BY <1>1, <1>2 DEF Single
  <2> QED BY <2>1
<1>4. Head(q).kind = "loaded" => ~In(Head(q), Tail(q))
  <2> SUFFICES ASSUME Head(q).kind = "loaded", NEW k \in 1..Len(q) - 1,
                      Tail(q)[k] = Head(q)
               PROVE  FALSE
    BY <1>1 DEF In
  <2>1. q[k + 1] = q[1] /\ 1 \in DOMAIN q /\ k + 1 \in DOMAIN q
    BY <1>1, <1>2
  <2> QED BY <1>1, <1>2, <2>1 DEF Single
<1> QED BY <1>3, <1>4

\* The three kinds of blocks differ.
LEMMA BlocksDiffer ==
    /\ Show \in Block /\ Show.kind = "show" /\ Selected \subseteq Block
    /\ \A n : Loaded(n).kind = "loaded" /\ Loaded(n) # Show
    /\ \A b \in Selected : b.kind = "select" /\ b.load \in Load /\ b.row \in Nat
    /\ \A n \in Load : Loaded(n) \in Block /\ Loaded(n) # Show /\ Loaded(n).load = n
    /\ \A m, n \in Load : Loaded(m) = Loaded(n) => m = n
    /\ \A b \in Block : b = Show \/ b \in Selected \/ \E n \in Load : b = Loaded(n)
BY DEF Block, Show, Loaded, Selected

\* Writing rows takes none away.
LEMMA WriteKeeps ==
    ASSUME NEW R, R \subseteq Nat, NEW rows \in [R -> Nat], NEW n \in Nat
    PROVE  /\ Write(rows, n) \in [R -> Nat]
           /\ \A r \in R : Write(rows, n)[r] >= rows[r]
           /\ \A r \in R : Write(rows, n)[r] <= rows[r] + 1
           /\ \A r \in R : r <= n => Write(rows, n)[r] > 0
BY DEF Write

\* The filters choose among what is stored.
LEMMA ListedIsStored == \A f : AtmsListFromRealm(f) \subseteq Stored
BY DEF AtmsListFromRealm

\* How getAtmsList ends: the list and the table stay in step.
LEMMA CompleteKeeps ==
    ASSUME LoadingInv, NEW result \in SUBSET Stored, NEW queue \in Seq(Block),
           NEW turning \in BOOLEAN, Complete(result, queue, turning),
           UNCHANGED atms
    PROVE  /\ mainQueue' \in Seq(Block)
           /\ list' = result
           /\ list' \subseteq Atm
           /\ table' \subseteq Atm
           /\ spinner' \in BOOLEAN
           /\ SubsetInv'
           /\ TableInv'
           /\ \A c : In(c, queue) => In(c, mainQueue')
           /\ \A c : In(c, mainQueue') => In(c, queue) \/ c = Show
<1>1. Stored' = Stored /\ Stored \subseteq Atm
  BY DEF Stored
<1>2. /\ list' = result
      /\ table' = IF result = {} THEN {} ELSE table
      /\ mainQueue' = IF result = {} THEN queue ELSE Append(queue, Show)
  BY DEF Complete
<1>3. spinner' \in BOOLEAN
  BY DEF Complete
<1>4. SubsetInv' /\ list' \subseteq Atm /\ table' \subseteq Atm
  BY <1>1, <1>2 DEF LoadingInv, SubsetInv
<1>5. CASE result = {}
  BY <1>2, <1>3, <1>4, <1>5 DEF TableInv
<1>6. CASE result # {}
  <2>1. mainQueue' = Append(queue, Show) /\ mainQueue' \in Seq(Block)
    BY <1>2, <1>6, BlocksDiffer, AppendProperties
  <2>2. \A c : In(c, mainQueue') <=> In(c, queue) \/ c = Show
    BY <2>1, BlocksDiffer, InAppend
  <2> QED BY <1>2, <1>3, <1>4, <2>1, <2>2 DEF TableInv
<1> QED BY <1>5, <1>6

-----------------------------------------------------------------------------
\* The invariant holds initially.
LEMMA InitHolds == Init => LoadingInv
<1> SUFFICES ASSUME Init PROVE LoadingInv
  OBVIOUS
<1>1. Stored = {} /\ NoSubways
  BY DEF Init, Stored, NoSubways
<1>2. TypeOK
  <2>1. filters \subseteq Type /\ atms \in [Atm -> Nat] /\ subways \in [Station -> Nat]
    BY DEF Init
  <2>2. loads \in 0..MaxLoads /\ downloads \subseteq Download
    BY Constants DEF Init
  <2>3. mainQueue \in Seq(Block) /\ list \subseteq Atm /\ table \subseteq Atm
    BY EmptySeq DEF Init
  <2>4. spinner \in BOOLEAN /\ crashed \in BOOLEAN /\ overlapped \in BOOLEAN
        /\ failed \in BOOLEAN /\ killed \in BOOLEAN
        /\ former \in [Load -> SUBSET Atm]
    BY DEF Init
  <2> QED BY <2>1, <2>2, <2>3, <2>4 DEF TypeOK
<1>3. SubsetInv /\ TableInv
  BY DEF Init, SubsetInv, TableInv
<1>4. WholeInv
  BY DEF Init, WholeInv, In
<1>5. OnceInv
  BY <1>1 DEF Init, OnceInv
<1>6. CompleteInv /\ ShownInv
  BY <1>1 DEF Init, CompleteInv, ShownInv
<1> QED BY <1>2, <1>3, <1>4, <1>5, <1>6 DEF LoadingInv

\* A load that finds no ATMs: the table is empty, and its download is the
\* only one unless it overlaps another.
LEMMA DownloadStep ==
    ASSUME LoadingInv, ~crashed, loads' \in Load, filters' \subseteq Type,
           Stored = {},
           downloads' = downloads \cup {[load |-> loads', of |-> "atms"]},
           overlapped' = (overlapped \/ downloads # {}),
           spinner' = TRUE, list' = {},
           former' \in [Load -> SUBSET Atm],
           UNCHANGED <<mainQueue, table, failed, atms, subways, crashed, killed>>
    PROVE  LoadingInv'
<1> DEFINE new == [load |-> loads', of |-> "atms"]
<1>1. new \in Download /\ new.of = "atms" /\ new.load = loads'
  BY DEF Download
<1>2. Stored' = Stored /\ NoSubways' = NoSubways
  BY DEF Stored, NoSubways
<1>3. table = {}
  BY DEF LoadingInv, SubsetInv
<1>4. TypeOK'
  <2>1. overlapped' \in BOOLEAN /\ failed' \in BOOLEAN /\ crashed' \in BOOLEAN
        /\ spinner' \in BOOLEAN
    BY DEF LoadingInv, TypeOK
  <2>2. loads' \in 0..MaxLoads /\ downloads' \subseteq Download
    BY <1>1 DEF LoadingInv, TypeOK, Load
  <2> QED BY <2>1, <2>2 DEF LoadingInv, TypeOK
<1>5. SubsetInv' /\ TableInv'
  BY <1>3 DEF SubsetInv, TableInv
<1>6. WholeInv'
  BY <1>1, <1>2 DEF LoadingInv, WholeInv
<1>7. OnceInv'
  <2> SUFFICES ASSUME TypeOf # <<>>, ~overlapped' PROVE OnceInv'
    BY DEF OnceInv
  <2>1. ~overlapped /\ downloads = {}
    OBVIOUS
  <2>2. downloads' = {new}
    BY <2>1
  <2>3. /\ NoSubways
        /\ \A a \in Atm : atms[a] <= 1
        /\ \A s \in Station : subways[s] <= 1
    BY <2>1 DEF LoadingInv, OnceInv
  <2> QED BY <1>1, <1>2, <2>2, <2>3 DEF OnceInv
<1>8. CompleteInv'
  BY <1>2 DEF CompleteInv
<1>9. ShownInv'
  BY <1>1 DEF ShownInv
<1> QED BY <1>4, <1>5, <1>6, <1>7, <1>8, <1>9 DEF LoadingInv

\* A list that is completed, from Realm or because Realm does not open.
LEMMA ListedStep ==
    ASSUME LoadingInv, ~crashed, loads' \in 0..MaxLoads, filters' \subseteq Type,
           NEW result \in SUBSET Stored, NEW queue \in Seq(Block),
           NEW turning \in BOOLEAN, Complete(result, queue, turning),
           \A c : In(c, queue) => In(c, mainQueue),
           failed' \in BOOLEAN, failed => failed',
           ~failed' => result = AtmsListFromRealm(filters') /\ Settled,
           former' \in [Load -> SUBSET Atm],
           UNCHANGED <<downloads, atms, subways, crashed, overlapped, killed>>
    PROVE  LoadingInv'
<1>1. /\ mainQueue' \in Seq(Block)
      /\ list' = result
      /\ list' \subseteq Atm
      /\ table' \subseteq Atm
      /\ spinner' \in BOOLEAN
      /\ SubsetInv'
      /\ TableInv'
      /\ \A c : In(c, mainQueue') => In(c, queue) \/ c = Show
  BY CompleteKeeps
<1>2. Stored' = Stored /\ NoSubways' = NoSubways
  BY DEF Stored, NoSubways
<1>3. TypeOK'
  BY <1>1 DEF LoadingInv, TypeOK
<1>4. WholeInv'
  <2>1. \A n \in Load : In(Loaded(n), mainQueue') => In(Loaded(n), mainQueue)
    BY <1>1, BlocksDiffer
  <2> QED BY <1>2, <2>1 DEF LoadingInv, WholeInv
<1>5. OnceInv'
  BY <1>2 DEF LoadingInv, OnceInv
<1>6. CompleteInv'
  BY <1>2 DEF LoadingInv, CompleteInv
<1>7. ShownInv'
  <2> SUFFICES ASSUME ~failed' PROVE Settled' /\ list' = AtmsListFromRealm(filters)'
    BY DEF ShownInv
  <2>1. AtmsListFromRealm(filters)' = AtmsListFromRealm(filters')
    BY <1>2 DEF AtmsListFromRealm
  <2> QED BY <1>1, <1>2, <2>1 DEF Settled
<1> QED BY <1>1, <1>3, <1>4, <1>5, <1>6, <1>7 DEF LoadingInv

\* A load, whichever of its three ways it goes.
LEMMA GetAtmsListStep ==
    ASSUME LoadingInv, ~crashed, loads' \in Load, filters' \subseteq Type,
           former' \in [Load -> SUBSET Atm],
           GetAtmsList(filters'), UNCHANGED <<realmVars, crashed, killed>>
    PROVE  LoadingInv'
<1>1. loads' \in 0..MaxLoads /\ mainQueue \in Seq(Block) /\ UNCHANGED <<atms, subways>>
  BY DEF LoadingInv, TypeOK, Load, realmVars
<1>2. CASE Stored = {} /\ downloads' = downloads \cup {[load |-> loads', of |-> "atms"]}
           /\ overlapped' = (overlapped \/ downloads # {}) /\ spinner' = TRUE
           /\ list' = {} /\ UNCHANGED <<mainQueue, table, failed>>
  BY <1>1, <1>2, DownloadStep
<1>3. CASE Stored # {} /\ Complete(AtmsListFromRealm(filters'), mainQueue, TRUE)
           /\ UNCHANGED <<downloads, overlapped, failed>>
  <2>1. AtmsListFromRealm(filters') \in SUBSET Stored
    BY ListedIsStored
  <2>2. ~failed' => Settled
    BY <1>3 DEF LoadingInv, CompleteInv, Settled
  <2>3. failed' \in BOOLEAN /\ (failed => failed')
    BY <1>3 DEF LoadingInv, TypeOK
  <2> QED BY <1>1, <1>3, <2>1, <2>2, <2>3, ListedStep
<1>4. CASE Complete({}, mainQueue, TRUE) /\ failed' = TRUE
           /\ UNCHANGED <<downloads, overlapped>>
  BY <1>1, <1>4, ListedStep
<1> QED BY <1>2, <1>3, <1>4 DEF GetAtmsList

-----------------------------------------------------------------------------
\* ATMs are written.  If all are, what was empty or complete is complete,
\* and the stations are asked for.
LEMMA AtmsAnswerStep ==
    ASSUME LoadingInv, ~crashed, NEW d \in downloads, AtmsAnswer(d)
    PROVE  LoadingInv'
<1>1. PICK n \in 0..Len(TypeOf) :
        /\ atms' = Write(atms, n)
        /\ failed' = (failed \/ n < Len(TypeOf))
        /\ downloads' = (downloads \ {d}) \cup
              {[d EXCEPT !.of = "subways"] : m \in {n} \cap {Len(TypeOf)}}
  BY DEF AtmsAnswer
<1> DEFINE next == [d EXCEPT !.of = "subways"]
<1>2. /\ d \in Download /\ d.of = "atms" /\ d.load \in Load
      /\ next \in Download /\ next.of = "subways" /\ next.load = d.load
  BY DEF AtmsAnswer, LoadingInv, TypeOK, Download
<1> HIDE DEF next
<1>3. UNCHANGED <<filters, subways, loads, mainQueue, list, former, table, spinner,
                  crashed, overlapped, killed>>
  BY DEF AtmsAnswer, screenVars
<1>4. downloads' \subseteq (downloads \ {d}) \cup {next}
  BY <1>1 DEF next
<1>5. /\ atms' \in [Atm -> Nat]
      /\ \A a \in Atm : atms'[a] >= atms[a] /\ atms'[a] <= atms[a] + 1
      /\ \A a \in Atm : a <= n => atms'[a] > 0
  <2>1. atms \in [Atm -> Nat] /\ Atm \subseteq Nat /\ n \in Nat
    BY Constants DEF LoadingInv, TypeOK
  <2> QED BY <1>1, <2>1, WriteKeeps
<1>6. Stored \subseteq Stored' /\ Stored' \subseteq Atm /\ Stored \subseteq Atm
  BY <1>5 DEF LoadingInv, TypeOK, Stored
<1>7. n = Len(TypeOf) => Stored' = Atm /\ downloads' = (downloads \ {d}) \cup {next}
  BY <1>1, <1>5, Constants DEF Stored, next
<1>8. n # Len(TypeOf) => failed' /\ downloads' = downloads \ {d}
  <2>1. CASE n < Len(TypeOf)
    BY <1>1, <2>1, Constants
  <2>2. n # Len(TypeOf) => n < Len(TypeOf)
    BY Constants
  <2> QED BY <2>1, <2>2
<1>9. ~failed' => ~failed /\ n = Len(TypeOf)
  <2>1. failed => failed'
    BY <1>1
  <2> QED BY <1>8, <2>1
<1>10. NoSubways' <=> NoSubways
  BY <1>3 DEF NoSubways
<1>11. TypeOK'
  <2>1. failed' \in BOOLEAN
    BY <1>1 DEF LoadingInv, TypeOK
  <2>2. downloads' \subseteq Download
    BY <1>2, <1>4 DEF LoadingInv, TypeOK
  <2> QED BY <1>3, <1>5, <2>1, <2>2 DEF LoadingInv, TypeOK
<1>12. SubsetInv' /\ TableInv'
  BY <1>3, <1>6 DEF LoadingInv, SubsetInv, TableInv
<1>13. WholeInv'
  <2>1. ASSUME NEW e \in downloads', e.of = "subways" PROVE Stored' = Atm
    BY <1>1, <1>4, <1>6, <1>7, <1>8, <2>1 DEF LoadingInv, WholeInv
  <2>2. ASSUME NEW k \in Load, In(Loaded(k), mainQueue') PROVE Stored' = Atm
    BY <1>3, <1>6, <2>2 DEF LoadingInv, WholeInv
  <2> QED BY <2>1, <2>2 DEF WholeInv
<1>14. OnceInv'
  <2> SUFFICES ASSUME TypeOf # <<>>, ~overlapped PROVE OnceInv'
    BY <1>3 DEF OnceInv
  <2>1. downloads = {d} /\ Stored = {} /\ NoSubways
        /\ \A s \in Station : subways[s] <= 1
    BY <1>2 DEF LoadingInv, OnceInv
  <2>2. \A a \in Atm : atms[a] = 0
    BY <2>1 DEF LoadingInv, TypeOK, Stored
  <2>3. \A a \in Atm : atms'[a] <= 1
    BY <1>5, <2>2
  <2>4. \A e \in downloads' : e = next
    BY <1>4, <2>1
  <2> QED BY <1>2, <1>3, <1>10, <2>1, <2>3, <2>4 DEF OnceInv
<1>15. CompleteInv'
  BY <1>2, <1>7, <1>9 DEF CompleteInv
<1>16. ShownInv'
  <2> SUFFICES ASSUME loads > 0, ~failed' PROVE ShownInv'
    BY <1>3 DEF ShownInv
  <2>1. ~failed /\ Stored' = Atm /\ downloads' = (downloads \ {d}) \cup {next}
    BY <1>7, <1>9
  <2>2. CASE \E e \in downloads : e.load = loads
    BY <1>2, <1>3, <2>1, <2>2 DEF ShownInv
  <2>3. CASE In(Loaded(loads), mainQueue)
    BY <1>3, <2>3 DEF ShownInv
  <2>4. CASE Settled /\ list = AtmsListFromRealm(filters)
    <3>1. Stored = Atm
      BY <2>4 DEF Settled
    <3>2. AtmsListFromRealm(filters)' = AtmsListFromRealm(filters)
      BY <1>3, <2>1, <3>1 DEF AtmsListFromRealm
    <3> QED BY <1>3, <2>1, <2>4, <3>2 DEF ShownInv, Settled
  <2> QED BY <2>1, <2>2, <2>3, <2>4 DEF LoadingInv, ShownInv
<1> QED BY <1>3, <1>11, <1>12, <1>13, <1>14, <1>15, <1>16 DEF LoadingInv

\* Stations are written.  If all are, the download is handed to its block.
LEMMA SubwaysAnswerStep ==
    ASSUME LoadingInv, ~crashed, NEW d \in downloads, SubwaysAnswer(d)
    PROVE  LoadingInv'
<1>1. PICK n \in 0..Stations :
        /\ subways' = Write(subways, n)
        /\ failed' = (failed \/ n < Stations)
        /\ mainQueue' = IF n < Stations THEN mainQueue
                        ELSE Append(mainQueue, Loaded(d.load))
  BY DEF SubwaysAnswer
<1>2. d.of = "subways" /\ d.load \in Load /\ Stored = Atm /\ downloads' = downloads \ {d}
  BY DEF SubwaysAnswer, LoadingInv, TypeOK, Download, WholeInv
<1>3. UNCHANGED <<filters, atms, loads, list, former, table, spinner, crashed,
                  overlapped, killed>>
  BY DEF SubwaysAnswer
<1>4. Stored' = Stored
  BY <1>3 DEF Stored
<1>5. /\ subways' \in [Station -> Nat]
      /\ \A s \in Station : subways'[s] >= subways[s] /\ subways'[s] <= subways[s] + 1
      /\ \A s \in Station : s <= n => subways'[s] > 0
  <2>1. subways \in [Station -> Nat] /\ Station \subseteq Nat /\ n \in Nat
    BY Constants DEF LoadingInv, TypeOK, Station
  <2> QED BY <1>1, <2>1, WriteKeeps
<1>6. /\ mainQueue' \in Seq(Block)
      /\ \A c : In(c, mainQueue) => In(c, mainQueue')
      /\ \A c : In(c, mainQueue') => In(c, mainQueue) \/ c = Loaded(d.load)
      /\ n = Stations => In(Loaded(d.load), mainQueue')
  <2>1. Loaded(d.load) \in Block /\ mainQueue \in Seq(Block)
    BY <1>2, BlocksDiffer DEF LoadingInv, TypeOK
  <2>2. CASE n < Stations
    BY <1>1, <2>1, <2>2, Constants
  <2>3. CASE n = Stations
    <3>1. mainQueue' = Append(mainQueue, Loaded(d.load))
      BY <1>1, <2>3, Constants
    <3>2. mainQueue' \in Seq(Block)
      BY <2>1, <3>1, AppendProperties
    <3> QED BY <2>1, <3>1, <3>2, InAppend
  <2> QED BY <2>2, <2>3, Constants
<1>7. ~failed' => ~failed /\ n = Stations
  <2>1. failed => failed'
    BY <1>1
  <2>2. n < Stations => failed'
    BY <1>1
  <2>3. n # Stations => n < Stations
    BY Constants
  <2> QED BY <2>1, <2>2, <2>3
<1>8. TypeOK'
  <2>1. failed' \in BOOLEAN
    BY <1>1 DEF LoadingInv, TypeOK
  <2> QED BY <1>2, <1>3, <1>5, <1>6, <2>1 DEF LoadingInv, TypeOK
<1>9. SubsetInv' /\ TableInv'
  BY <1>3, <1>4, <1>6 DEF LoadingInv, SubsetInv, TableInv
<1>10. WholeInv'
  BY <1>2, <1>4 DEF WholeInv
<1>11. OnceInv'
  <2> SUFFICES ASSUME TypeOf # <<>>, ~overlapped PROVE OnceInv'
    BY <1>3 DEF OnceInv
  <2>1. downloads = {d} /\ NoSubways /\ \A a \in Atm : atms[a] <= 1
    BY <1>2 DEF LoadingInv, OnceInv
  <2>2. downloads' = {} /\ Stored' # {}
    BY <1>2, <1>4, <2>1, Constants
  <2>3. \A s \in Station : subways'[s] <= 1
    BY <1>5, <2>1 DEF NoSubways, LoadingInv, TypeOK
  <2> QED BY <1>3, <2>1, <2>2, <2>3 DEF OnceInv
<1>12. CompleteInv'
  <2> SUFFICES ASSUME ~failed' PROVE CompleteInv'
    BY DEF CompleteInv
  <2>1. \A s \in Station : subways'[s] > 0
    BY <1>5, <1>7, Constants DEF Station
  <2> QED BY <1>2, <1>4, <2>1 DEF CompleteInv
<1>13. ShownInv'
  <2> SUFFICES ASSUME loads > 0, ~failed' PROVE ShownInv'
    BY <1>3 DEF ShownInv
  <2>1. ~failed /\ In(Loaded(d.load), mainQueue')
    BY <1>6, <1>7
  <2>2. CASE \E e \in downloads : e.load = loads
    BY <1>2, <1>3, <2>1, <2>2 DEF ShownInv
  <2>3. CASE In(Loaded(loads), mainQueue)
    BY <1>3, <1>6, <2>3 DEF ShownInv
  <2>4. CASE list = AtmsListFromRealm(filters)
    <3>1. AtmsListFromRealm(filters)' = AtmsListFromRealm(filters)
      BY <1>3, <1>4 DEF AtmsListFromRealm
    <3> QED BY <1>2, <1>3, <1>4, <2>4, <3>1 DEF ShownInv, Settled
  <2> QED BY <2>1, <2>2, <2>3, <2>4 DEF LoadingInv, ShownInv
<1> QED BY <1>3, <1>8, <1>9, <1>10, <1>11, <1>12, <1>13 DEF LoadingInv

\* A request that fails only leaves the set of those that are out.
LEMMA AnswerFailsStep ==
    ASSUME LoadingInv, ~crashed, NEW d \in downloads, AnswerFails(d)
    PROVE  LoadingInv'
<1>1. downloads' = downloads \ {d} /\ failed' = TRUE
  BY DEF AnswerFails
<1>2. UNCHANGED <<filters, atms, subways, loads, mainQueue, list, former, table,
                  spinner, crashed, overlapped, killed>>
  BY DEF AnswerFails, realmVars, screenVars
<1>3. Stored' = Stored /\ (NoSubways' <=> NoSubways)
  BY <1>2 DEF Stored, NoSubways
<1>4. TypeOK' /\ SubsetInv' /\ TableInv'
  BY <1>1, <1>2, <1>3 DEF LoadingInv, TypeOK, SubsetInv, TableInv
<1>5. WholeInv'
  BY <1>1, <1>2, <1>3 DEF LoadingInv, WholeInv
<1>6. OnceInv'
  BY <1>1, <1>2, <1>3 DEF LoadingInv, OnceInv
<1>7. CompleteInv' /\ ShownInv'
  BY <1>1 DEF CompleteInv, ShownInv
<1> QED BY <1>2, <1>4, <1>5, <1>6, <1>7 DEF LoadingInv

-----------------------------------------------------------------------------
\* The first block of the queue runs: what else waits goes on waiting.
LEMMA BlockRuns ==
    ASSUME LoadingInv, mainQueue # <<>>
    PROVE  /\ Tail(mainQueue) \in Seq(Block)
           /\ Head(mainQueue) \in Block
           /\ \A c : In(c, mainQueue) <=> c = Head(mainQueue) \/ In(c, Tail(mainQueue))
BY InTail DEF LoadingInv, TypeOK

\* The block of a presenter that is gone: that of the current one still waits.
LEMMA RunLoadedReleasedStep ==
    ASSUME LoadingInv, ~crashed, RunLoadedReleased
    PROVE  LoadingInv'
<1>1. /\ mainQueue' = Tail(mainQueue) /\ mainQueue # <<>>
      /\ Head(mainQueue) # Show /\ Head(mainQueue).load # loads
  BY BlocksDiffer DEF RunLoadedReleased
<1>2. /\ mainQueue' \in Seq(Block)
      /\ \A c : In(c, mainQueue) <=> c = Head(mainQueue) \/ In(c, mainQueue')
  BY <1>1, BlockRuns
<1>3. UNCHANGED <<filters, atms, subways, loads, downloads, list, former, table,
                  spinner, crashed, overlapped, failed, killed>>
  BY DEF RunLoadedReleased, realmVars
<1>4. Stored' = Stored /\ (NoSubways' <=> NoSubways)
      /\ AtmsListFromRealm(filters)' = AtmsListFromRealm(filters)
  BY <1>3 DEF Stored, NoSubways, AtmsListFromRealm
<1>5. TypeOK' /\ SubsetInv'
  BY <1>2, <1>3, <1>4 DEF LoadingInv, TypeOK, SubsetInv
<1>6. TableInv' /\ WholeInv'
  BY <1>1, <1>2, <1>3, <1>4 DEF LoadingInv, TableInv, WholeInv
<1>7. OnceInv' /\ CompleteInv'
  BY <1>3, <1>4 DEF LoadingInv, OnceInv, CompleteInv
<1>8. ShownInv'
  <2>1. loads > 0 => loads \in Load
    BY Constants DEF LoadingInv, TypeOK, Load
  <2>2. loads > 0 => Loaded(loads) # Head(mainQueue)
    BY <1>1, <2>1, BlocksDiffer
  <2> QED BY <1>2, <1>3, <1>4, <2>2 DEF LoadingInv, ShownInv, Settled
<1> QED BY <1>3, <1>5, <1>6, <1>7, <1>8 DEF LoadingInv

\* The block of the current presenter lists what Realm holds: all ATMs.
LEMMA RunLoadedStep ==
    ASSUME LoadingInv, ~crashed, RunLoaded
    PROVE  LoadingInv'
<1>1. mainQueue # <<>> /\ Head(mainQueue) = Loaded(loads)
  BY DEF RunLoaded
<1>2. /\ Tail(mainQueue) \in Seq(Block)
      /\ \A c : In(c, Tail(mainQueue)) => In(c, mainQueue)
      /\ In(Loaded(loads), mainQueue)
      /\ Loaded(loads) \in Block
  BY <1>1, BlockRuns
<1>3. Stored = Atm /\ Settled
  <2>1. PICK n \in Load : Loaded(loads) = Loaded(n)
    <3>1. Loaded(loads) # Show /\ Loaded(loads) \notin Selected
      BY BlocksDiffer
    <3> QED BY <1>2, <3>1, BlocksDiffer
  <2> QED BY <1>2, <2>1 DEF LoadingInv, WholeInv, Settled
<1>4. UNCHANGED <<filters, atms, subways, loads, downloads, former, crashed,
                  overlapped, killed>>
  BY DEF RunLoaded, realmVars
<1>5. loads' \in 0..MaxLoads /\ filters' \subseteq Type /\ spinner \in BOOLEAN
      /\ failed \in BOOLEAN /\ former' \in [Load -> SUBSET Atm]
  BY <1>4 DEF LoadingInv, TypeOK
<1>6. CASE Complete(AtmsListFromRealm(filters), Tail(mainQueue), spinner)
           /\ UNCHANGED failed
  <2>1. AtmsListFromRealm(filters) \in SUBSET Stored
    BY ListedIsStored
  <2>2. AtmsListFromRealm(filters) = AtmsListFromRealm(filters')
    BY <1>4
  <2> QED BY <1>2, <1>3, <1>4, <1>5, <1>6, <2>1, <2>2, ListedStep
<1>7. CASE Complete({}, Tail(mainQueue), spinner) /\ failed' = TRUE
  BY <1>2, <1>3, <1>4, <1>5, <1>7, ListedStep
<1> QED BY <1>6, <1>7 DEF RunLoaded

\* The block that shows the list makes the table equal to it.
LEMMA RunShowStep ==
    ASSUME LoadingInv, ~crashed, RunShow
    PROVE  LoadingInv'
<1>1. mainQueue # <<>> /\ Head(mainQueue) = Show /\ mainQueue' = Tail(mainQueue)
      /\ spinner' = FALSE /\ table' = list
  BY DEF RunShow
<1>2. /\ mainQueue' \in Seq(Block)
      /\ \A c : In(c, mainQueue) <=> c = Show \/ In(c, mainQueue')
  BY <1>1, BlockRuns
<1>3. UNCHANGED <<filters, atms, subways, loads, downloads, list, former, crashed,
                  overlapped, failed, killed>>
  BY DEF RunShow, realmVars
<1>4. Stored' = Stored /\ (NoSubways' <=> NoSubways)
      /\ AtmsListFromRealm(filters)' = AtmsListFromRealm(filters)
  BY <1>3 DEF Stored, NoSubways, AtmsListFromRealm
<1>5. TypeOK' /\ SubsetInv' /\ TableInv'
  BY <1>1, <1>2, <1>3, <1>4 DEF LoadingInv, TypeOK, SubsetInv, TableInv
<1>6. WholeInv' /\ OnceInv' /\ CompleteInv'
  BY <1>2, <1>3, <1>4 DEF LoadingInv, WholeInv, OnceInv, CompleteInv
<1>7. ShownInv'
  <2>1. Loaded(loads) # Show
    BY BlocksDiffer
  <2> QED BY <1>2, <1>3, <1>4, <2>1 DEF LoadingInv, ShownInv, Settled
<1> QED BY <1>3, <1>5, <1>6, <1>7 DEF LoadingInv

\* Cells, selected rows and their cards leave all this alone.
LEMMA SelectionStep ==
    ASSUME LoadingInv,
           UNCHANGED <<filters, atms, subways, loads, downloads, list, former, table,
                       spinner, overlapped, failed, killed>>,
           mainQueue' \in Seq(Block), crashed' \in BOOLEAN,
           In(Show, mainQueue') <=> In(Show, mainQueue),
           \A n : In(Loaded(n), mainQueue') <=> In(Loaded(n), mainQueue)
    PROVE  LoadingInv'
<1>1. Stored' = Stored /\ (NoSubways' <=> NoSubways) /\ (Settled' <=> Settled)
      /\ AtmsListFromRealm(filters)' = AtmsListFromRealm(filters)
  BY DEF Stored, NoSubways, AtmsListFromRealm, Settled
<1>2. TypeOK' /\ SubsetInv' /\ TableInv'
  BY <1>1 DEF LoadingInv, TypeOK, SubsetInv, TableInv
<1>3. WholeInv' /\ OnceInv' /\ CompleteInv' /\ ShownInv'
  BY <1>1 DEF LoadingInv, WholeInv, OnceInv, CompleteInv, ShownInv
<1> QED BY <1>2, <1>3 DEF LoadingInv

\* After a kill nothing is out, and the databases have grown by one write.
LEMMA RestartStep ==
    ASSUME LoadingInv, Restart
    PROVE  LoadingInv'
<1>1. /\ killed' = TRUE /\ loads' = 0 /\ downloads' = {} /\ mainQueue' = <<>>
      /\ list' = {} /\ former' = [n \in Load |-> {}] /\ table' = {} /\ spinner' = FALSE
      /\ UNCHANGED <<filters, crashed, overlapped, failed>>
  BY DEF Restart
<1>2. \A c : ~In(c, mainQueue')
  BY <1>1 DEF In
<1> DEFINE Grown ==
      /\ atms' \in [Atm -> Nat] /\ subways' \in [Station -> Nat]
      /\ \A a \in Atm : atms'[a] >= atms[a]
      /\ \A a \in Atm : atms'[a] <= atms[a] + 1
      /\ \A s \in Station : subways'[s] <= subways[s] + 1
      /\ \/ UNCHANGED <<atms, subways>>
         \/ (\E d \in downloads : d.of = "atms") /\ subways' = subways
         \/ (\E d \in downloads : d.of = "subways") /\ atms' = atms
<1>3. Grown
  <2>1. /\ atms \in [Atm -> Nat] /\ Atm \subseteq Nat
        /\ subways \in [Station -> Nat] /\ Station \subseteq Nat
        /\ 0..Len(TypeOf) \subseteq Nat /\ 0..Stations \subseteq Nat
    BY Constants DEF LoadingInv, TypeOK, Station
  <2>2. CASE UNCHANGED <<atms, subways>>
    BY <2>1, <2>2
  <2>3. ASSUME NEW d \in downloads, NEW n \in 0..Len(TypeOf), d.of = "atms",
               atms' = Write(atms, n), UNCHANGED subways
        PROVE  Grown
    <3>1. /\ atms' \in [Atm -> Nat]
          /\ \A a \in Atm : atms'[a] >= atms[a] /\ atms'[a] <= atms[a] + 1
      BY <2>1, <2>3, WriteKeeps
    <3>2. \A s \in Station : subways'[s] <= subways[s] + 1
      BY <2>1, <2>3
    <3> QED BY <2>1, <2>3, <3>1, <3>2
  <2>4. ASSUME NEW d \in downloads, NEW n \in 0..Stations, d.of = "subways",
               subways' = Write(subways, n), UNCHANGED atms
        PROVE  Grown
    <3>1. /\ subways' \in [Station -> Nat]
          /\ \A s \in Station : subways'[s] <= subways[s] + 1
      BY <2>1, <2>4, WriteKeeps
    <3>2. \A a \in Atm : atms'[a] >= atms[a] /\ atms'[a] <= atms[a] + 1
      BY <2>1, <2>4
    <3> QED BY <2>1, <2>4, <3>1, <3>2
  <2> QED BY <2>2, <2>3, <2>4 DEF Restart, realmVars
<1>4. TypeOK'
  <2>1. loads' \in 0..MaxLoads /\ downloads' \subseteq Download /\ mainQueue' \in Seq(Block)
        /\ former' \in [Load -> SUBSET Atm] /\ spinner' \in BOOLEAN /\ killed' \in BOOLEAN
    <3>1. <<>> \in Seq(Block) /\ 0 \in 0..MaxLoads
      BY Constants, EmptySeq
    <3>2. [n \in Load |-> {}] \in [Load -> SUBSET Atm]
      OBVIOUS
    <3> QED BY <1>1, <3>1, <3>2
  <2> QED BY <1>1, <1>3, <2>1 DEF LoadingInv, TypeOK
<1>5. SubsetInv' /\ TableInv' /\ WholeInv' /\ ShownInv' /\ CompleteInv'
  BY <1>1, <1>2 DEF SubsetInv, TableInv, WholeInv, ShownInv, CompleteInv
<1>6. OnceInv'
  <2> SUFFICES ASSUME TypeOf # <<>>, ~overlapped PROVE OnceInv'
    BY <1>1 DEF OnceInv
  <2>1. Stored \subseteq Stored' /\ (atms' = atms => Stored' = Stored)
    BY <1>3 DEF LoadingInv, TypeOK, Stored
  <2>2. subways' = subways => (NoSubways' <=> NoSubways)
    BY DEF NoSubways
  <2>3. CASE UNCHANGED <<atms, subways>>
    BY <1>1, <2>1, <2>2, <2>3 DEF LoadingInv, OnceInv
  <2>4. CASE (\E d \in downloads : d.of = "atms") /\ subways' = subways
    <3>1. Stored = {} /\ NoSubways /\ \A s \in Station : subways[s] <= 1
      BY <2>4 DEF LoadingInv, OnceInv
    <3>2. \A a \in Atm : atms'[a] <= 1
      BY <1>3, <3>1 DEF LoadingInv, TypeOK, Stored
    <3> QED BY <1>1, <2>2, <2>4, <3>1, <3>2 DEF OnceInv
  <2>5. CASE (\E d \in downloads : d.of = "subways") /\ atms' = atms
    <3>1. Stored' # {} /\ NoSubways /\ \A a \in Atm : atms[a] <= 1
      BY <2>1, <2>5, Constants DEF LoadingInv, OnceInv, WholeInv
    <3>2. \A s \in Station : subways'[s] <= 1
      BY <1>3, <3>1 DEF LoadingInv, TypeOK, NoSubways
    <3> QED BY <1>1, <2>5, <3>1, <3>2 DEF OnceInv
  <2> QED BY <1>3, <2>3, <2>4, <2>5
<1> QED BY <1>4, <1>5, <1>6 DEF LoadingInv

\* A load begins: the presenter is a new one, and the list of the one before
\* stays what it is.
BeginLoad ==
    /\ loads' = loads + 1
    /\ \/ loads = 0 /\ former' = former
       \/ loads \in Load /\ former' = [former EXCEPT ![loads] = list]

LEMMA LoadBegins ==
    ASSUME LoadingInv, ViewDidLoad \/ FiltersWillDisappear
    PROVE  BeginLoad /\ loads' \in Load /\ former' \in [Load -> SUBSET Atm]
<1>1. CASE ViewDidLoad
  BY <1>1, Constants DEF ViewDidLoad, BeginLoad, Load, LoadingInv, TypeOK
<1>2. CASE FiltersWillDisappear
  <2>1. loads \in Load /\ loads' \in Load
    BY <1>2, Constants DEF FiltersWillDisappear, Load
  <2> QED BY <1>2, <2>1 DEF FiltersWillDisappear, BeginLoad, LoadingInv, TypeOK
<1> QED BY <1>1, <1>2

\* The table has so many rows.
LEMMA TableCounted ==
    ASSUME LoadingInv
    PROVE  /\ Cardinality(table) \in Nat
           /\ \A row \in 0..Cardinality(table) - 1 : row \in Nat /\ row < Cardinality(table)
                                                    /\ ~(row >= Cardinality(table))
<1>1. IsFiniteSet(Atm)
  BY Constants, FS_Interval
<1>2. table \subseteq Atm
  BY DEF LoadingInv, TypeOK
<1>3. Cardinality(table) \in Nat
  BY <1>1, <1>2, FS_Subset, FS_CardinalityType
<1> QED BY <1>3

\* The block of a row that is selected.
SelectBlock(row) ==
    [kind |-> "select", load |-> loads, row |-> row, early |-> Waits(Show)]

LEMMA SelectTyped ==
    ASSUME LoadingInv, loads > 0, NEW row \in 0..Cardinality(table) - 1
    PROVE  SelectBlock(row) \in Selected
<1>1. loads \in Load
  BY Constants DEF LoadingInv, TypeOK, Load
<1>2. Waits(Show) \in BOOLEAN
  BY DEF Waits
<1> QED BY <1>1, <1>2, TableCounted DEF SelectBlock, Selected

LEMMA SelectedRow ==
    ASSUME LoadingInv, DidSelectRow
    PROVE  /\ mainQueue' \in Seq(Block)
           /\ \A c : c.kind # "select" => (In(c, mainQueue') <=> In(c, mainQueue))
<1>1. PICK row \in 0..Cardinality(table) - 1 :
        mainQueue' = Append(mainQueue, SelectBlock(row))
  BY DEF DidSelectRow, SelectBlock
<1>2. SelectBlock(row) \in Block /\ SelectBlock(row).kind = "select"
  BY SelectTyped, BlocksDiffer DEF DidSelectRow
<1>3. mainQueue \in Seq(Block)
  BY DEF LoadingInv, TypeOK
<1> QED BY <1>1, <1>2, <1>3, InAppend, AppendProperties

\* The block of a selected row runs, or fails and stays.
LEMMA CardRuns ==
    ASSUME LoadingInv, ShowDetailInfo
    PROVE  /\ mainQueue' \in Seq(Block)
           /\ \A c : c.kind # "select" => (In(c, mainQueue') <=> In(c, mainQueue))
<1>1. /\ mainQueue # <<>> /\ Head(mainQueue).kind = "select"
      /\ mainQueue' = mainQueue \/ mainQueue' = Tail(mainQueue)
  BY DEF ShowDetailInfo
<1> QED BY <1>1, BlockRuns DEF LoadingInv, TypeOK

\* Every step keeps the invariant.
LEMMA StepHolds == LoadingInv /\ [Next]_vars => LoadingInv'
<1> SUFFICES ASSUME LoadingInv, [Next]_vars PROVE LoadingInv'
  OBVIOUS
<1>1. CASE (ViewDidLoad \/ FiltersWillDisappear) /\ ~crashed
  <2>1. BeginLoad /\ loads' \in Load /\ former' \in [Load -> SUBSET Atm]
    BY <1>1, LoadBegins
  <2>2. filters' \subseteq Type /\ GetAtmsList(filters')
        /\ UNCHANGED <<realmVars, crashed, killed>>
    BY <1>1 DEF ViewDidLoad, FiltersWillDisappear, LoadingInv, TypeOK
  <2> QED BY <1>1, <2>1, <2>2, GetAtmsListStep
<1>2. ASSUME ~crashed, NEW d \in Download,
             AtmsAnswer(d) \/ SubwaysAnswer(d) \/ AnswerFails(d)
      PROVE  LoadingInv'
  <2>1. d \in downloads
    BY <1>2 DEF AtmsAnswer, SubwaysAnswer, AnswerFails
  <2> QED BY <1>2, <2>1, AtmsAnswerStep, SubwaysAnswerStep, AnswerFailsStep
<1>3. CASE CellForRow \/ UNCHANGED vars
  <2>1. /\ UNCHANGED <<filters, atms, subways, loads, downloads, list, former, table,
                       spinner, overlapped, failed, killed, mainQueue>>
        /\ crashed' \in BOOLEAN
    <3>1. CASE CellForRow
      BY <3>1 DEF CellForRow, realmVars, screenVars
    <3>2. CASE UNCHANGED vars
      BY <3>2 DEF vars, realmVars, screenVars, LoadingInv, TypeOK
    <3> QED BY <1>3, <3>1, <3>2
  <2> QED BY <2>1, SelectionStep DEF LoadingInv, TypeOK
<1>4. CASE DidSelectRow \/ ShowDetailInfo
  <2>1. /\ UNCHANGED <<filters, atms, subways, loads, downloads, list, former, table,
                       spinner, overlapped, failed, killed>>
        /\ crashed' \in BOOLEAN
    BY <1>4 DEF DidSelectRow, ShowDetailInfo, realmVars, LoadingInv, TypeOK
  <2>2. /\ mainQueue' \in Seq(Block)
        /\ \A c : c.kind # "select" => (In(c, mainQueue') <=> In(c, mainQueue))
    BY <1>4, SelectedRow, CardRuns
  <2> QED BY <2>1, <2>2, SelectionStep, BlocksDiffer
<1> QED
  BY <1>1, <1>2, <1>3, <1>4, RunLoadedReleasedStep, RunLoadedStep, RunShowStep,
     RestartStep DEF Next

-----------------------------------------------------------------------------
\* Downloads are listed and fail, and nothing waits anew for them.
LEMMA NoneWaitsAnew ==
    ASSUME LoadingInv, QueueInv, UNCHANGED <<loads, list, former>>,
           mainQueue' \in Seq(Block), Single(mainQueue'),
           \A c : In(c, mainQueue') => In(c, mainQueue) \/ c = Show,
           \A d, e \in downloads' : d.load = e.load => d = e,
           \A d \in downloads' : \E e \in downloads : e.load = d.load
    PROVE  QueueInv'
<1>1. \A n : In(Loaded(n), mainQueue') => In(Loaded(n), mainQueue)
  BY BlocksDiffer
<1>2. \A b \in Selected : In(b, mainQueue') => In(b, mainQueue)
  BY BlocksDiffer
<1>3. \A n : ListOf(n)' = ListOf(n)
  BY DEF ListOf
<1>4. AloneInv'
  BY <1>1 DEF QueueInv, AloneInv
<1>5. PendingInv'
  BY <1>1 DEF QueueInv, PendingInv
<1>6. SelectInv'
  BY <1>2, <1>3 DEF QueueInv, SelectInv
<1> QED BY <1>4, <1>5, <1>6 DEF QueueInv

\* A load begins: what waits is of the presenters before.
LEMMA LoadBeginsQueue ==
    ASSUME LoadingInv, QueueInv, BeginLoad, loads' \in Load, GetAtmsList(filters')
    PROVE  QueueInv'
<1>1. mainQueue \in Seq(Block) /\ downloads \subseteq Download
      /\ loads \in 0..MaxLoads /\ former \in [Load -> SUBSET Atm]
  BY DEF LoadingInv, TypeOK
<1>2. loads' = loads + 1 /\ loads \in Nat /\ loads' \notin 0..loads
  BY <1>1, Constants DEF BeginLoad
<1>3. \A n \in Load : n <= loads => ListOf(n)' = ListOf(n)
  <2> SUFFICES ASSUME NEW n \in Load, n <= loads PROVE ListOf(n)' = ListOf(n)
    OBVIOUS
  <2>1. n # loads' /\ n \in Nat \ {0}
    BY <1>2, Constants DEF Load
  <2>2. CASE n = loads
    BY <1>1, <2>1, <2>2 DEF ListOf, BeginLoad
  <2>3. CASE n # loads
    BY <1>1, <2>1, <2>3 DEF ListOf, BeginLoad
  <2> QED BY <2>2, <2>3
<1>4. /\ \A c : In(c, mainQueue') => In(c, mainQueue) \/ c = Show
      /\ Single(mainQueue')
  <2>1. CASE mainQueue' = mainQueue
    BY <2>1 DEF QueueInv, AloneInv
  <2>2. CASE mainQueue' = Append(mainQueue, Show)
    BY <1>1, <2>2, InAppend, SingleAppend, BlocksDiffer DEF QueueInv, AloneInv
  <2> QED BY <2>1, <2>2 DEF GetAtmsList, Complete
<1>5. /\ \A n : In(Loaded(n), mainQueue') => In(Loaded(n), mainQueue)
      /\ \A b \in Selected : In(b, mainQueue') => In(b, mainQueue)
  BY <1>4, BlocksDiffer
<1>6. \A n \in Load : In(Loaded(n), mainQueue') => n <= loads
  BY <1>5 DEF QueueInv, AloneInv
<1> DEFINE new == [load |-> loads', of |-> "atms"]
<1>7. \/ downloads' = downloads \cup {new} /\ list' = {}
      \/ downloads' = downloads
  BY DEF GetAtmsList
<1>8. new.load = loads'
  OBVIOUS
<1> HIDE DEF new
<1>9. \A d \in downloads : d.load <= loads /\ d.load \in Load /\ d.load # loads'
  BY <1>1, <1>2, Constants DEF QueueInv, AloneInv, Download, Load
<1>10. ~In(Loaded(loads'), mainQueue')
  BY <1>2, <1>6, Constants DEF Load
<1>11. \A m \in Nat : m <= loads => m <= loads'
  BY <1>2
<1>12. AloneInv'
  <2>1. \A d \in downloads' : d.load <= loads' /\ ~In(Loaded(d.load), mainQueue')
    <3>1. ASSUME NEW d \in downloads PROVE d.load <= loads' /\ ~In(Loaded(d.load), mainQueue')
      <4>1. d.load \in Nat
        BY <1>9, Constants DEF Load
      <4> QED BY <1>5, <1>9, <1>11, <4>1 DEF QueueInv, AloneInv
    <3>2. new.load <= loads' /\ ~In(Loaded(new.load), mainQueue')
      BY <1>2, <1>8, <1>10
    <3> QED BY <1>7, <3>1, <3>2
  <2>2. \A d, e \in downloads' : d.load = e.load => d = e
    BY <1>7, <1>8, <1>9 DEF QueueInv, AloneInv
  <2>3. \A n \in Load : In(Loaded(n), mainQueue') => n <= loads'
    BY <1>6, <1>11, Constants DEF Load
  <2> QED BY <1>4, <2>1, <2>2, <2>3 DEF AloneInv
<1>13. PendingInv'
  BY <1>7, <1>9, <1>10 DEF PendingInv
<1>14. SelectInv'
  <2> SUFFICES ASSUME NEW b \in Selected, In(b, mainQueue')
               PROVE  b.load <= loads' /\ (b.early \/ b.row < Cardinality(ListOf(b.load)'))
    BY DEF SelectInv
  <2>1. b.load <= loads /\ (b.early \/ b.row < Cardinality(ListOf(b.load)))
    BY <1>5 DEF QueueInv, SelectInv
  <2>2. b.load \in Load /\ b.load \in Nat
    BY BlocksDiffer, Constants DEF Load
  <2> QED BY <1>3, <1>11, <2>1, <2>2
<1> QED BY <1>12, <1>13, <1>14 DEF QueueInv

\* The stations are written: the only block of their load is appended.
LEMMA SubwaysAnswerQueue ==
    ASSUME LoadingInv, QueueInv, NEW d \in downloads, SubwaysAnswer(d)
    PROVE  QueueInv'
<1>1. /\ UNCHANGED <<loads, list, former>> /\ downloads' = downloads \ {d}
      /\ mainQueue' = mainQueue \/ mainQueue' = Append(mainQueue, Loaded(d.load))
  BY DEF SubwaysAnswer
<1>2. /\ mainQueue \in Seq(Block) /\ d.load \in Load /\ Loaded(d.load) \in Block
      /\ ~In(Loaded(d.load), mainQueue) /\ d.load <= loads
  BY BlocksDiffer DEF LoadingInv, TypeOK, Download, QueueInv, AloneInv
<1>3. CASE mainQueue' = mainQueue
  BY <1>1, <1>2, <1>3, NoneWaitsAnew DEF QueueInv, AloneInv
<1>4. CASE mainQueue' = Append(mainQueue, Loaded(d.load))
  <2>1. \A c : In(c, mainQueue') <=> In(c, mainQueue) \/ c = Loaded(d.load)
    BY <1>2, <1>4, InAppend
  <2>2. Single(mainQueue')
    BY <1>2, <1>4, SingleAppend DEF QueueInv, AloneInv
  <2>3. \A n \in Load : In(Loaded(n), mainQueue') => In(Loaded(n), mainQueue) \/ n = d.load
    BY <1>2, <2>1, BlocksDiffer
  <2>4. \A b \in Selected : In(b, mainQueue') => In(b, mainQueue)
    BY <2>1, BlocksDiffer
  <2>5. AloneInv'
    <3>1. \A e \in downloads' : e.load \in Load /\ e.load # d.load
      BY <1>1 DEF QueueInv, AloneInv, LoadingInv, TypeOK, Download
    <3>2. \A e \in downloads' : e.load <= loads' /\ ~In(Loaded(e.load), mainQueue')
      BY <1>1, <2>3, <3>1 DEF QueueInv, AloneInv
    <3> QED BY <1>1, <1>2, <2>2, <2>3, <3>2 DEF QueueInv, AloneInv
  <2>6. PendingInv'
    <3>1. In(Loaded(loads), mainQueue') => In(Loaded(loads), mainQueue) \/ loads = d.load
      <4>1. Loaded(loads) = Loaded(d.load) => loads = d.load
        BY DEF Loaded
      <4> QED BY <2>1, <4>1
    <3> QED BY <1>1, <3>1 DEF QueueInv, PendingInv
  <2>7. SelectInv'
    BY <1>1, <2>4 DEF QueueInv, SelectInv, ListOf
  <2> QED BY <2>5, <2>6, <2>7 DEF QueueInv
<1> QED BY <1>1, <1>3, <1>4

\* The first block leaves the queue, and at most one that shows joins it.
LEMMA HeadLeaves ==
    ASSUME LoadingInv, QueueInv, mainQueue # <<>>,
           mainQueue' = Tail(mainQueue) \/ mainQueue' = Append(Tail(mainQueue), Show)
    PROVE  /\ mainQueue' \in Seq(Block)
           /\ Single(mainQueue')
           /\ \A c : In(c, mainQueue') => In(c, mainQueue) \/ c = Show
           /\ Head(mainQueue).kind = "loaded" => ~In(Head(mainQueue), mainQueue')
<1>1. /\ Tail(mainQueue) \in Seq(Block)
      /\ \A c : In(c, Tail(mainQueue)) => In(c, mainQueue)
  BY BlockRuns
<1>2. /\ Single(Tail(mainQueue))
      /\ Head(mainQueue).kind = "loaded" => ~In(Head(mainQueue), Tail(mainQueue))
  BY SingleTail DEF QueueInv, AloneInv, LoadingInv, TypeOK
<1>3. CASE mainQueue' = Append(Tail(mainQueue), Show)
  <2>1. /\ mainQueue' \in Seq(Block)
        /\ \A c : In(c, mainQueue') <=> In(c, Tail(mainQueue)) \/ c = Show
    BY <1>1, <1>3, InAppend, AppendProperties, BlocksDiffer
  <2>2. Single(mainQueue')
    BY <1>1, <1>2, <1>3, SingleAppend, BlocksDiffer
  <2> QED BY <1>1, <1>2, <2>1, <2>2, BlocksDiffer
<1> QED BY <1>1, <1>2, <1>3

\* The list of the current presenter was empty: no row of it was selected.
LEMMA RunLoadedQueue ==
    ASSUME LoadingInv, QueueInv, RunLoaded
    PROVE  QueueInv'
<1>1. /\ mainQueue # <<>> /\ Head(mainQueue) = Loaded(loads)
      /\ UNCHANGED <<loads, downloads, former>>
      /\ mainQueue' = Tail(mainQueue) \/ mainQueue' = Append(Tail(mainQueue), Show)
  BY DEF RunLoaded, Complete
<1>2. In(Loaded(loads), mainQueue)
  BY <1>1, BlockRuns
<1>3. list = {}
  BY <1>2 DEF QueueInv, PendingInv
<1>4. /\ Single(mainQueue')
      /\ \A c : In(c, mainQueue') => In(c, mainQueue) \/ c = Show
      /\ ~In(Loaded(loads), mainQueue')
  BY <1>1, HeadLeaves, BlocksDiffer
<1>5. /\ \A n : In(Loaded(n), mainQueue') => In(Loaded(n), mainQueue)
      /\ \A b \in Selected : In(b, mainQueue') => In(b, mainQueue)
  BY <1>4, BlocksDiffer
<1>6. AloneInv'
  BY <1>1, <1>4, <1>5 DEF QueueInv, AloneInv
<1>7. PendingInv'
  BY <1>1, <1>2, <1>4 DEF QueueInv, AloneInv, PendingInv
<1>8. SelectInv'
  <2> SUFFICES ASSUME NEW b \in Selected, In(b, mainQueue')
               PROVE  b.load <= loads' /\ (b.early \/ b.row < Cardinality(ListOf(b.load)'))
    BY DEF SelectInv
  <2>1. b.load <= loads /\ (b.early \/ b.row < Cardinality(ListOf(b.load)))
    BY <1>5 DEF QueueInv, SelectInv
  <2>2. CASE b.load = loads
    <3>1. Cardinality(ListOf(b.load)) = 0 /\ b.row \in Nat
      BY <1>3, <2>2, FS_EmptySet, BlocksDiffer DEF ListOf
    <3>2. ~(b.row < 0)
      BY <3>1
    <3> QED BY <1>1, <2>1, <3>1, <3>2
  <2>3. CASE b.load # loads
    BY <1>1, <2>1, <2>3 DEF ListOf
  <2> QED BY <2>2, <2>3
<1> QED BY <1>6, <1>7, <1>8 DEF QueueInv

\* A selected row is one of the list, unless the table lags behind it.
LEMMA DidSelectRowQueue ==
    ASSUME LoadingInv, QueueInv, DidSelectRow
    PROVE  QueueInv'
<1>1. PICK row \in 0..Cardinality(table) - 1 :
        mainQueue' = Append(mainQueue, SelectBlock(row))
  BY DEF DidSelectRow, SelectBlock
<1>2. UNCHANGED <<loads, downloads, list, former>> /\ mainQueue \in Seq(Block)
      /\ loads \in Nat
  BY Constants DEF DidSelectRow, LoadingInv, TypeOK
<1>3. SelectBlock(row) \in Selected
  BY <1>1, SelectTyped DEF DidSelectRow
<1>4. /\ \A c : In(c, mainQueue') <=> In(c, mainQueue) \/ c = SelectBlock(row)
      /\ Single(mainQueue')
  BY <1>1, <1>2, <1>3, InAppend, SingleAppend, BlocksDiffer DEF QueueInv, AloneInv
<1>5. \A n : In(Loaded(n), mainQueue') => In(Loaded(n), mainQueue)
  BY <1>3, <1>4, BlocksDiffer
<1>6. AloneInv' /\ PendingInv'
  BY <1>2, <1>4, <1>5 DEF QueueInv, AloneInv, PendingInv
<1>7. SelectInv'
  <2> SUFFICES ASSUME NEW b \in Selected, In(b, mainQueue')
               PROVE  b.load <= loads /\ (b.early \/ b.row < Cardinality(ListOf(b.load)))
    BY <1>2 DEF SelectInv, ListOf
  <2>1. CASE In(b, mainQueue)
    BY <2>1 DEF QueueInv, SelectInv
  <2>2. CASE b = SelectBlock(row)
    <3>1. b.load = loads /\ b.row = row /\ (b.early <=> In(Show, mainQueue))
          /\ ListOf(b.load) = list
      BY <2>2 DEF SelectBlock, Waits, In, ListOf
    <3>2. b.early \/ table = list
      BY <3>1 DEF LoadingInv, TableInv
    <3>3. row < Cardinality(table)
      BY <1>1, TableCounted
    <3> QED BY <1>2, <3>1, <3>2, <3>3
  <2> QED BY <1>4, <2>1, <2>2
<1> QED BY <1>6, <1>7 DEF QueueInv

\* Every step keeps what is said of the waiting blocks.
LEMMA QueueStepHolds == LoadingInv /\ QueueInv /\ [Next]_vars => QueueInv'
<1> SUFFICES ASSUME LoadingInv, QueueInv, [Next]_vars PROVE QueueInv'
  OBVIOUS
<1> USE DEF LoadingInv, TypeOK
<1>1. CASE ViewDidLoad \/ FiltersWillDisappear
  BY <1>1, LoadBegins, LoadBeginsQueue DEF ViewDidLoad, FiltersWillDisappear
<1>2. ASSUME NEW d \in downloads, AtmsAnswer(d) PROVE QueueInv'
  <2>1. UNCHANGED <<loads, list, former, mainQueue>>
    BY <1>2 DEF AtmsAnswer, screenVars
  <2> DEFINE next == [d EXCEPT !.of = "subways"]
  <2>2. downloads' \subseteq (downloads \ {d}) \cup {next} /\ next.load = d.load
    BY <1>2 DEF AtmsAnswer, Download
  <2> HIDE DEF next
  <2>3. \A e \in downloads \ {d} : e.load # d.load
    BY DEF QueueInv, AloneInv
  <2> QED BY <2>1, <2>2, <2>3, NoneWaitsAnew DEF QueueInv, AloneInv
<1>3. ASSUME NEW d \in downloads, AnswerFails(d) PROVE QueueInv'
  <2>1. UNCHANGED <<loads, list, former, mainQueue>> /\ downloads' \subseteq downloads
    BY <1>3 DEF AnswerFails, screenVars
  <2> QED BY <2>1, NoneWaitsAnew DEF QueueInv, AloneInv
<1>4. CASE RunLoadedReleased \/ RunShow
  <2>1. /\ UNCHANGED <<loads, list, former, downloads>> /\ mainQueue # <<>>
        /\ mainQueue' = Tail(mainQueue)
    BY <1>4 DEF RunLoadedReleased, RunShow
  <2> QED BY <2>1, HeadLeaves, NoneWaitsAnew DEF QueueInv, AloneInv
<1>5. CASE ShowDetailInfo \/ CellForRow \/ UNCHANGED vars
  <2>1. /\ UNCHANGED <<loads, list, former, downloads>>
        /\ mainQueue' = mainQueue \/ (mainQueue # <<>> /\ mainQueue' = Tail(mainQueue))
    BY <1>5 DEF ShowDetailInfo, CellForRow, screenVars, vars
  <2>2. CASE mainQueue' = mainQueue
    BY <2>1, <2>2, NoneWaitsAnew DEF QueueInv, AloneInv
  <2>3. CASE mainQueue # <<>> /\ mainQueue' = Tail(mainQueue)
    BY <2>1, <2>3, HeadLeaves, NoneWaitsAnew DEF QueueInv, AloneInv
  <2> QED BY <2>1, <2>2, <2>3
<1>6. CASE Restart
  <2>1. downloads' = {} /\ mainQueue' = <<>> /\ list' = {}
    BY <1>6 DEF Restart
  <2>2. (\A c : ~In(c, mainQueue')) /\ Single(mainQueue')
    BY <2>1 DEF In, Single
  <2> QED BY <2>1, <2>2 DEF QueueInv, AloneInv, PendingInv, SelectInv
<1>7. ASSUME NEW d \in Download, AtmsAnswer(d) \/ SubwaysAnswer(d) \/ AnswerFails(d)
      PROVE  QueueInv'
  <2>1. d \in downloads
    BY <1>7 DEF AtmsAnswer, SubwaysAnswer, AnswerFails
  <2> QED BY <1>2, <1>3, <1>7, <2>1, SubwaysAnswerQueue
<1> QED
  BY <1>1, <1>4, <1>5, <1>6, <1>7, RunLoadedQueue, DidSelectRowQueue DEF Next

\* An index is out of range only before the list is shown.
LEMMA CrashStep == LoadingInv /\ QueueInv /\ CrashInv /\ [Next]_vars => CrashInv'
<1> SUFFICES ASSUME LoadingInv, QueueInv, CrashInv, [Next]_vars PROVE CrashInv'
  OBVIOUS
<1>1. CASE UNCHANGED vars
  BY <1>1 DEF vars, screenVars, CrashInv
<1>2. CASE CellForRow /\ ~crashed
  <2>1. PICK row \in 0..Cardinality(table) - 1 : crashed' = (row >= Cardinality(list))
    BY <1>2 DEF CellForRow
  <2>2. UNCHANGED mainQueue
    BY <1>2 DEF CellForRow, screenVars
  <2>3. table = list => ~crashed'
    BY <2>1, TableCounted
  <2> QED BY <2>2, <2>3 DEF LoadingInv, TableInv, CrashInv
<1>3. CASE ShowDetailInfo /\ ~crashed
  <2> DEFINE b == Head(mainQueue)
  <2>1. /\ mainQueue # <<>> /\ b.kind = "select"
        /\ crashed' => mainQueue' = mainQueue /\ ~(b.row < Cardinality(ListOf(b.load)))
    BY <1>3 DEF ShowDetailInfo
  <2>2. b \in Block /\ In(b, mainQueue)
    BY <2>1, BlockRuns
  <2>3. b \in Selected
    BY <2>1, <2>2, BlocksDiffer
  <2>4. b.early \/ b.row < Cardinality(ListOf(b.load))
    BY <2>2, <2>3 DEF QueueInv, SelectInv
  <2> QED BY <2>1, <2>4 DEF CrashInv
<1>4. CASE Next /\ ~CellForRow /\ ~ShowDetailInfo
  <2>1. crashed' = crashed /\ ~crashed
    BY <1>4 DEF Next, LoadingInv, TypeOK, ViewDidLoad, FiltersWillDisappear, AtmsAnswer,
       SubwaysAnswer, AnswerFails, RunLoadedReleased, RunLoaded, RunShow, DidSelectRow,
       Restart
  <2> QED BY <2>1 DEF CrashInv
<1> QED BY <1>1, <1>2, <1>3, <1>4 DEF Next

\* The inductive invariant of the list of ATMs.
THEOREM Invariant == Spec => [](LoadingInv /\ QueueInv /\ CrashInv)
<1>1. Init => LoadingInv /\ QueueInv /\ CrashInv
  <2> SUFFICES ASSUME Init PROVE QueueInv /\ CrashInv
    BY InitHolds
  <2>1. downloads = {} /\ mainQueue = <<>> /\ list = {} /\ ~crashed
    BY DEF Init
  <2>2. (\A c : ~In(c, mainQueue)) /\ Single(mainQueue)
    BY <2>1 DEF In, Single
  <2> QED BY <2>1, <2>2 DEF QueueInv, AloneInv, PendingInv, SelectInv, CrashInv
<1> QED BY <1>1, StepHolds, QueueStepHolds, CrashStep, PTL DEF Spec

-----------------------------------------------------------------------------
\* Every variable of the list of ATMs keeps its type.
THEOREM TypeCorrect == Spec => []TypeOK
<1>1. LoadingInv => TypeOK
  BY DEF LoadingInv
<1> QED BY <1>1, Invariant, PTL

\* If the server has an ATM at all, nothing is stored twice unless two
\* downloads overlap (NetworkDataFetcher.swift:125-169).
THEOREM StoredOnce ==
    ASSUME TypeOf # <<>>
    PROVE  Spec => []StoredTwiceOnlyByOverlap
<1>1. LoadingInv => StoredTwiceOnlyByOverlap
  BY DEF LoadingInv, OnceInv, StoredTwiceOnlyByOverlap
<1> QED BY <1>1, Invariant, PTL

\* ATMs without their stations are left behind by a failure or a kill only
\* (NetworkDataFetcher.swift:134).
THEOREM BothOrNone == Spec => []BothCompleteUnlessFailedOrKilled
<1>1. LoadingInv => BothCompleteUnlessFailedOrKilled
  BY DEF LoadingInv, TypeOK, CompleteInv, Stored, BothCompleteUnlessFailedOrKilled
<1> QED BY <1>1, Invariant, PTL

\* When all is quiet and nothing has failed the table shows the ATMs that
\* pass the filters (ATMListPresenter.swift:48-92).
THEOREM TableSettles == Spec => []SettledTableShowsRealm
<1>1. LoadingInv => SettledTableShowsRealm
  <2>1. \A c : ~In(c, <<>>)
    BY DEF In
  <2> QED BY <2>1 DEF LoadingInv, ShownInv, TableInv, SettledTableShowsRealm
<1> QED BY <1>1, Invariant, PTL

\* The list is indexed out of its range only by a cell, or the card of a row,
\* that was asked for while the block that shows the list waited
\* (ATMListVC.swift:203-211, 238-248).
THEOREM InRangeOnceShown == Spec => []OutOfRangeOnlyBeforeShow
<1>1. CrashInv => OutOfRangeOnlyBeforeShow
  BY DEF CrashInv, In, Waits, OutOfRangeOnlyBeforeShow
<1> QED BY <1>1, Invariant, PTL

-----------------------------------------------------------------------------
(***************************************************************************)
(* The clustering of the ATMs and the dictionary it is made on, for any    *)
(* ATMs on any sites and any distances of the zoom levels.                 *)
(*                                                                         *)
(* The keys are distinct through the whole first pass and until, in the    *)
(* second, a mid-point is a key already or the last place is joined with   *)
(* one before it.  Then there are more keys than values, the count is -1   *)
(* and ends both loops: that is why no index is out of range (LoopInv).    *)
(***************************************************************************)

\* The dictionary.
DictInv ==
    /\ keys \in Seq(Coordinate)
    /\ DOMAIN values \subseteq Coordinate
    /\ \A x \in DOMAIN values : values[x] \in Seq(AtmIndex)
    /\ Range(keys) = DOMAIN values
    /\ IsFiniteSet(DOMAIN values)
    /\ Cardinality(DOMAIN values) <= (IF pass = "first" THEN index ELSE Len(at))
    /\ pass = "first" \/ (~collided /\ ~reinserted) => IsInjective(keys)

\* The loops.
LoopInv ==
    /\ at \in Seq(Site) /\ Len(at) <= Atms
    /\ {zoom, distance} \subseteq Distances
    /\ pass \in {"first", "second", "done"}
    /\ index \in 0..Atms
    /\ pass = "first" => index <= Len(at)
    /\ location \in Coordinate
    /\ i \in 0..Atms
    /\ bound \in 0..Atms
    /\ pass # "second" => bound = 0
    /\ bound > 0 => index < bound
    /\ InRound /\ Count(keys, values) # -1 => index < Len(keys)
    /\ collided \in BOOLEAN
    /\ reinserted \in BOOLEAN

\* Where the ATMs are.
AtmsInv ==
    /\ \A x \in DOMAIN values : \A n \in DOMAIN values[x] : values[x][n] \in Grouped
    /\ ~collided =>
          \A a \in Grouped : \E x \in DOMAIN values : \E n \in DOMAIN values[x] :
              /\ values[x][n] = a
              /\ \A y \in DOMAIN values : \A m \in DOMAIN values[y] :
                    values[y][m] = a => y = x /\ m = n

\* No place is empty; the one of a single ATM is where the ATM is.
LoneInv ==
    \A x \in DOMAIN values :
        /\ Len(values[x]) # 0
        /\ Len(values[x]) = 1 => \E a \in DOMAIN at : at[a] = x

\* The map: what its blocks have drawn, or will once they have run.
MapInv ==
    /\ pending \in 0..MaxPending
    /\ reloads \in 0..MaxReloads
    /\ redrawn \in BOOLEAN /\ zoomOverlapped \in BOOLEAN
    /\ IsABag(markers)
    /\ pass # "done" => pending < MaxPending
    /\ pass # "done" /\ ~redrawn => markers = EmptyBag
    /\ pass = "done" /\ ~redrawn => BagToSet(markers) \subseteq Groups
    /\ pass = "done" /\ pending = 0 => Groups \subseteq BagToSet(markers)
    /\ pass # "done" /\ ~redrawn /\ ~zoomOverlapped => pending = 0
    /\ pass = "done" /\ ~redrawn /\ ~zoomOverlapped =>
          \/ pending = 0 /\ markers = SetToBag(Groups)
          \/ pending = 1 /\ markers = EmptyBag

ClustersInv == DictInv /\ LoopInv /\ AtmsInv /\ LoneInv /\ MapInv

-----------------------------------------------------------------------------
\* Every set of naturals that is not empty has a least element: induction, in
\* a form that needs no predicate as a parameter.
LEMMA LeastNumber ==
    ASSUME NEW T, T \subseteq Nat, T # {}
    PROVE  \E m \in T : \A k \in T : m <= k
<1> DEFINE R == OpToRel(<, Nat)
<1>1. IsWellFoundedOn(R, Nat)
  BY NatLessThanWellFounded
<1>2. \A k, m \in Nat : k < m => <<k, m>> \in R
  BY DEF OpToRel
<1> HIDE DEF R
<1>3. PICK m \in T : \A k \in T : <<k, m>> \notin R
  BY <1>1, WFMin
<1>4. ASSUME NEW k \in T PROVE m <= k
  <2>1. k \in Nat /\ m \in Nat
    OBVIOUS
  <2>2. ~(k < m)
    BY <1>2, <1>3, <2>1
  <2> QED BY <2>1, <2>2
<1> QED BY <1>4

\* What appending an element does to a list of keys.
LEMMA AppendKey ==
    ASSUME NEW S, NEW ks \in Seq(S), NEW x \in S
    PROVE  /\ Append(ks, x) \in Seq(S)
           /\ Len(Append(ks, x)) = Len(ks) + 1
           /\ Range(Append(ks, x)) = Range(ks) \cup {x}
           /\ IsInjective(ks) /\ x \notin Range(ks) => IsInjective(Append(ks, x))
<1> DEFINE t == Append(ks, x)
<1>1. /\ t \in Seq(S) /\ Len(t) = Len(ks) + 1 /\ Len(ks) \in Nat
      /\ DOMAIN t = 1..Len(ks) + 1 /\ DOMAIN ks = 1..Len(ks)
      /\ \A n \in 1..Len(ks) : t[n] = ks[n]
      /\ t[Len(ks) + 1] = x
  OBVIOUS
<1> HIDE DEF t
<1>2. \A n \in DOMAIN t : n \in DOMAIN ks \/ n = Len(ks) + 1
  BY <1>1
<1>3. Len(ks) + 1 \in DOMAIN t /\ DOMAIN ks \subseteq DOMAIN t
  BY <1>1
<1>4. Range(t) = Range(ks) \cup {x}
  BY <1>1, <1>2, <1>3 DEF Range
<1>5. IsInjective(ks) /\ x \notin Range(ks) => IsInjective(t)
  BY <1>1, <1>2 DEF Range, IsInjective
<1> QED BY <1>1, <1>4, <1>5 DEF t

\* There are as many keys as different keys just if none is there twice.
LEMMA CountOfKeys ==
    ASSUME NEW S, NEW ks \in Seq(S)
    PROVE  /\ IsFiniteSet(Range(ks))
           /\ Cardinality(Range(ks)) \in Nat
           /\ Len(ks) = Cardinality(Range(ks)) <=> IsInjective(ks)
<1>1. Len(ks) \in Nat /\ DOMAIN ks = 1..Len(ks)
  OBVIOUS
<1>2. ks \in Surjection(1..Len(ks), Range(ks))
  BY <1>1 DEF Surjection, Range
<1>3. IsFiniteSet(1..Len(ks)) /\ Cardinality(1..Len(ks)) = Len(ks)
  <2>1. 1 \in Int /\ Len(ks) \in Int
    BY <1>1
  <2> QED BY <1>1, <2>1, FS_Interval
<1>4. /\ IsFiniteSet(Range(ks))
      /\ Cardinality(Range(ks)) = Len(ks) <=> ks \in Injection(1..Len(ks), Range(ks))
  BY <1>2, <1>3, FS_Surjection
<1>5. ks \in Injection(1..Len(ks), Range(ks)) <=> IsInjective(ks)
  BY <1>1, <1>2 DEF Injection, Surjection, IsInjective
<1> QED BY <1>4, <1>5, FS_CardinalityType

\* keys.filter is defined for every list of keys: it drops one key, and keeps
\* the others apart.
LEMMA KeysWithoutKey ==
    ASSUME NEW ks \in Seq(Coordinate), NEW x
    PROVE  /\ KeysWithout(ks, x) \in Seq(Coordinate)
           /\ Range(KeysWithout(ks, x)) = Range(ks) \ {x}
           /\ IsInjective(ks) => IsInjective(KeysWithout(ks, x))
<1> DEFINE N == Len(ks)
           Loop(g, n) == g = [m \in 0..n |-> IF m = 0 THEN <<>>
                                             ELSE IF ks[m] # x THEN Append(g[m - 1], ks[m])
                                             ELSE g[m - 1]]
           Undefined == {n \in 0..N : ~\E g : Loop(g, n)}
<1>1. N \in Nat /\ DOMAIN ks = 1..N /\ \A n \in 1..N : ks[n] \in Coordinate
  OBVIOUS
<1>2. Undefined = {}
  <2> SUFFICES ASSUME Undefined # {} PROVE FALSE
    OBVIOUS
  <2>1. PICK n \in Undefined : \A k \in Undefined : n <= k
    <3>1. Undefined \subseteq Nat
      BY <1>1
    <3> HIDE DEF Undefined
    <3> QED BY <3>1, LeastNumber
  <2>2. n # 0
    <3>1. Loop([m \in 0..0 |-> <<>>], 0)
      OBVIOUS
    <3> QED BY <3>1
  <2>3. PICK g : Loop(g, n - 1)
    <3>1. n - 1 \in 0..N /\ n - 1 < n /\ n \in Nat /\ n - 1 \in Nat
      BY <1>1, <2>1, <2>2
    <3>2. n - 1 \notin Undefined
      <4> HIDE DEF Undefined
      <4> QED BY <2>1, <3>1
    <3> HIDE DEF Loop
    <3> QED BY <3>1, <3>2
  <2> DEFINE h == [m \in 0..n |-> IF m < n THEN g[m]
                                  ELSE IF ks[n] # x THEN Append(g[n - 1], ks[n])
                                  ELSE g[n - 1]]
  <2>4. Loop(h, n)
    <3>1. n \in Nat \ {0}
      BY <1>1, <2>1, <2>2
    <3>2. ASSUME NEW m \in 0..n
          PROVE  h[m] = IF m = 0 THEN <<>>
                        ELSE IF ks[m] # x THEN Append(h[m - 1], ks[m])
                        ELSE h[m - 1]
      <4>1. CASE m = n
        BY <3>1, <4>1
      <4>2. CASE m < n
        <5>1. m \in 0..n - 1 /\ h[m] = g[m] /\ (m # 0 => m - 1 \in 0..n /\ m - 1 < n)
          BY <3>1, <4>2
        <5>2. m # 0 => h[m - 1] = g[m - 1]
          BY <5>1
        <5> HIDE DEF h
        <5> QED BY <2>3, <5>1, <5>2
      <4> QED BY <3>1, <4>1, <4>2
    <3> QED BY <3>2
  <2> QED BY <2>1, <2>4
<1> DEFINE kept == CHOOSE g : Loop(g, N)
<1>3. Loop(kept, N)
  <2>1. \E g : Loop(g, N)
    <3> HIDE DEF Loop
    <3> QED BY <1>1, <1>2
  <2> HIDE DEF Loop
  <2> QED BY <2>1
<1>4. KeysWithout(ks, x) = kept[N]
  BY DEF KeysWithout
<1> HIDE DEF kept
<1> DEFINE Seen(n) == {ks[m] : m \in 1..n}
           Right(n) == /\ kept[n] \in Seq(Coordinate)
                       /\ Range(kept[n]) = Seen(n) \ {x}
                       /\ IsInjective(ks) => IsInjective(kept[n])
           Wrong == {n \in 0..N : ~Right(n)}
<1>5. Wrong = {}
  <2> SUFFICES ASSUME Wrong # {} PROVE FALSE
    OBVIOUS
  <2>1. PICK n \in Wrong : \A k \in Wrong : n <= k
    <3>1. Wrong \subseteq Nat
      BY <1>1
    <3> HIDE DEF Wrong
    <3> QED BY <3>1, LeastNumber
  <2>2. CASE n = 0
    <3>1. kept[0] = <<>>
      BY <1>1, <1>3
    <3>2. Seen(0) = {} /\ Range(<<>>) = {} /\ IsInjective(<<>>)
      BY DEF Range, IsInjective
    <3>3. Right(0)
      <4>1. <<>> \in Seq(Coordinate)
        OBVIOUS
      <4> HIDE DEF Seen
      <4> QED BY <3>1, <3>2, <4>1
    <3> QED BY <2>1, <2>2, <3>3
  <2>3. CASE n # 0
    <3>1. n \in 1..N /\ n - 1 \in 0..N /\ n - 1 < n /\ n \in 0..N /\ n \in Nat
      BY <1>1, <2>1, <2>3
    <3>2. Right(n - 1)
      <4>1. n - 1 \notin Wrong
        <5>1. n - 1 \in Nat
          BY <3>1
        <5> HIDE DEF Wrong
        <5> QED BY <2>1, <3>1, <5>1
      <4> HIDE DEF Right
      <4> QED BY <3>1, <4>1
    <3>3. kept[n] = IF ks[n] # x THEN Append(kept[n - 1], ks[n]) ELSE kept[n - 1]
      <4>1. kept[n] = IF n = 0 THEN <<>>
                      ELSE IF ks[n] # x THEN Append(kept[n - 1], ks[n])
                      ELSE kept[n - 1]
        <5> HIDE DEF N
        <5> QED BY <1>3, <3>1
      <4> QED BY <2>3, <4>1
    <3>4. Seen(n) = Seen(n - 1) \cup {ks[n]}
      <4>1. 1..n = 1..n - 1 \cup {n}
        BY <3>1
      <4> QED BY <4>1
    <3>5. Right(n)
      <4>1. CASE ks[n] = x
        <5> HIDE DEF Seen
        <5> QED BY <3>2, <3>3, <3>4, <4>1
      <4>2. CASE ks[n] # x
        <5>1. IsInjective(ks) => ks[n] \notin Seen(n - 1)
          BY <1>1, <3>1 DEF IsInjective
        <5>2. kept[n] = Append(kept[n - 1], ks[n]) /\ ks[n] \in Coordinate
          BY <1>1, <3>1, <3>3, <4>2
        <5> HIDE DEF Seen, N
        <5>3. /\ kept[n] \in Seq(Coordinate)
              /\ Range(kept[n]) = Range(kept[n - 1]) \cup {ks[n]}
              /\ IsInjective(kept[n - 1]) /\ ks[n] \notin Range(kept[n - 1])
                     => IsInjective(kept[n])
          BY <3>2, <5>2, AppendKey
        <5> QED BY <3>2, <3>4, <4>2, <5>1, <5>3
      <4> QED BY <4>1, <4>2
    <3> HIDE DEF Right
    <3> QED BY <2>1, <3>5
  <2> QED BY <2>2, <2>3
<1>6. Right(N)
  <2> HIDE DEF Right
  <2> QED BY <1>1, <1>5
<1>7. Seen(N) = Range(ks)
  BY <1>1 DEF Range
<1> HIDE DEF N, Seen
<1> QED BY <1>4, <1>6, <1>7

\* Array.insert(at:) within the list.
LEMMA InsertKey ==
    ASSUME NEW ks \in Seq(Coordinate), NEW n \in 0..Len(ks), NEW x \in Coordinate
    PROVE  /\ Insert(ks, n, x) \in Seq(Coordinate)
           /\ Len(Insert(ks, n, x)) = Len(ks) + 1
           /\ Range(Insert(ks, n, x)) = Range(ks) \cup {x}
           /\ IsInjective(ks) /\ x \notin Range(ks) => IsInjective(Insert(ks, n, x))
<1> DEFINE t == Insert(ks, n, x)
           head == SubSeq(ks, 1, n)
           tail == SubSeq(ks, n + 1, Len(ks))
<1>1. Len(ks) \in Nat /\ DOMAIN ks = 1..Len(ks) /\ n \in Nat /\ n <= Len(ks)
  OBVIOUS
<1>2. /\ head \in Seq(Coordinate) /\ Len(head) = n
      /\ \A m \in 1..n : head[m] = ks[m]
  BY <1>1
<1>3. /\ tail \in Seq(Coordinate) /\ Len(tail) = Len(ks) - n
      /\ \A m \in 1..Len(ks) - n : tail[m] = ks[n + m]
  <2>1. CASE n = Len(ks)
    <3>1. tail = <<>> /\ 1..Len(ks) - n = {}
      BY <1>1, <2>1
    <3> QED BY <1>1, <2>1, <3>1
  <2>2. CASE n < Len(ks)
    <3>1. n + 1 \in 1..Len(ks) /\ Len(ks) \in 1..Len(ks)
      BY <1>1, <2>2
    <3>2. tail \in Seq(Coordinate) /\ Len(tail) = Len(ks) - (n + 1) + 1
      BY <1>1, <3>1
    <3>3. ASSUME NEW m \in 1..Len(ks) - n PROVE tail[m] = ks[n + m]
      <4>1. m \in 1..Len(ks) - (n + 1) + 1 /\ (n + 1) + m - 1 = n + m
        BY <1>1
      <4>2. tail[m] = ks[(n + 1) + m - 1]
        BY <1>1, <3>1, <4>1
      <4> QED BY <4>1, <4>2
    <3> HIDE DEF tail
    <3> QED BY <1>1, <3>2, <3>3
  <2>3. n = Len(ks) \/ n < Len(ks)
    <3>1. \A a, b \in Nat : a <= b => a = b \/ a < b
      OBVIOUS
    <3> QED BY <1>1, <3>1
  <2> HIDE DEF tail
  <2> QED BY <2>1, <2>2, <2>3
<1>4. t = head \o <<x>> \o tail
  BY DEF Insert
<1> HIDE DEF head, tail, t
<1>5. /\ t \in Seq(Coordinate) /\ Len(t) = Len(ks) + 1 /\ DOMAIN t = 1..Len(ks) + 1
      /\ \A m \in 1..n : t[m] = head[m]
      /\ t[n + 1] = x
      /\ \A m \in 1..Len(ks) - n : t[n + 1 + m] = tail[m]
  <2> DEFINE u == head \o <<x>>
  <2>1. /\ u \in Seq(Coordinate) /\ Len(u) = n + 1
        /\ \A m \in 1..n : u[m] = head[m]
        /\ u[n + 1] = x
    BY <1>1, <1>2
  <2>2. t = u \o tail
    BY <1>4
  <2> HIDE DEF u
  <2>3. /\ t \in Seq(Coordinate) /\ Len(t) = Len(ks) + 1 /\ DOMAIN t = 1..Len(ks) + 1
    <3>1. t \in Seq(Coordinate) /\ Len(t) = Len(u) + Len(tail)
      <4>1. u \in Seq(Coordinate) /\ tail \in Seq(Coordinate)
        BY <1>3, <2>1
      <4>2. u \o tail \in Seq(Coordinate) /\ Len(u \o tail) = Len(u) + Len(tail)
        BY <4>1
      <4> QED BY <2>2, <4>2
    <3>2. Len(t) = Len(ks) + 1
      BY <1>1, <1>3, <2>1, <3>1
    <3> QED BY <3>1, <3>2
  <2>4. /\ \A m \in 1..n + 1 : t[m] = u[m]
        /\ \A m \in 1..Len(ks) - n : t[n + 1 + m] = tail[m]
    <3>1. /\ \A m \in 1..Len(u) : t[m] = u[m]
          /\ \A m \in 1..Len(tail) : t[Len(u) + m] = tail[m]
      BY <1>3, <2>1, <2>2
    <3> QED BY <1>3, <2>1, <3>1
  <2> QED BY <1>1, <2>1, <2>3, <2>4
<1>6. ASSUME NEW m \in DOMAIN t
      PROVE  \/ m \in 1..n /\ m \in DOMAIN ks /\ t[m] = ks[m]
             \/ m = n + 1 /\ t[m] = x
             \/ m > n + 1 /\ m - 1 \in DOMAIN ks /\ t[m] = ks[m - 1]
  <2>1. CASE m \in 1..n
    BY <1>1, <1>2, <1>5, <2>1
  <2>2. CASE m > n + 1
    <3>0. m \in Nat /\ m <= Len(ks) + 1
      BY <1>1, <1>5
    <3>1. m - n - 1 \in 1..Len(ks) - n /\ n + 1 + (m - n - 1) = m /\ n + (m - n - 1) = m - 1
      BY <1>1, <2>2, <3>0
    <3>2. t[m] = ks[m - 1]
      <4> DEFINE j == m - n - 1
      <4>1. j \in 1..Len(ks) - n /\ n + 1 + j = m /\ n + j = m - 1
        BY <3>1
      <4> HIDE DEF j
      <4>2. t[n + 1 + j] = tail[j]
        BY <1>5, <4>1
      <4>3. tail[j] = ks[n + j]
        BY <1>3, <4>1
      <4> QED BY <4>1, <4>2, <4>3
    <3> QED BY <1>1, <1>5, <2>2, <3>2
  <2>3. m \in 1..n \/ m = n + 1 \/ m > n + 1
    BY <1>1, <1>5
  <2> QED BY <1>5, <2>1, <2>2, <2>3
<1>7. \A m \in DOMAIN ks : \E k \in DOMAIN t : t[k] = ks[m]
  <2> SUFFICES ASSUME NEW m \in DOMAIN ks PROVE \E k \in DOMAIN t : t[k] = ks[m]
    OBVIOUS
  <2>1. CASE m <= n
    BY <1>1, <1>2, <1>5, <2>1
  <2>2. CASE m > n
    <3>1. m - n \in 1..Len(ks) - n /\ n + 1 + (m - n) = m + 1 /\ n + (m - n) = m
          /\ m + 1 \in DOMAIN t
      BY <1>1, <1>5, <2>2
    <3>2. t[m + 1] = ks[m]
      BY <1>3, <1>5, <3>1
    <3> QED BY <3>1, <3>2
  <2> QED BY <1>1, <2>1, <2>2
<1>8. Range(t) = Range(ks) \cup {x}
  <2>1. n + 1 \in DOMAIN t
    BY <1>1, <1>5
  <2>2. \A m \in DOMAIN t : t[m] \in Range(ks) \cup {x}
    BY <1>6 DEF Range
  <2>3. \A y \in Range(ks) \cup {x} : \E m \in DOMAIN t : y = t[m]
    BY <1>5, <1>7, <2>1 DEF Range
  <2> QED BY <2>2, <2>3 DEF Range
<1>9. IsInjective(ks) /\ x \notin Range(ks) => IsInjective(t)
  <2> SUFFICES ASSUME IsInjective(ks), x \notin Range(ks),
                      NEW j \in DOMAIN t, NEW k \in DOMAIN t, t[j] = t[k]
               PROVE  j = k
    BY DEF IsInjective
  <2>1. j \in Nat /\ k \in Nat
    BY <1>1, <1>5
  <2>2. \A m \in DOMAIN ks : ks[m] # x
    BY DEF Range
  <2>3. \A l, m \in DOMAIN ks : ks[l] = ks[m] => l = m
    BY DEF IsInjective
  <2> QED BY <1>1, <1>6, <2>1, <2>2, <2>3
<1> QED BY <1>5, <1>8, <1>9 DEF t

-----------------------------------------------------------------------------
\* The mid-point of two places is a place.
LEMMA MiddleType ==
    ASSUME NEW x \in Coordinate, NEW y \in Coordinate
    PROVE  Middle(x, y) \in Coordinate
<1>1. x[1] \in Nat /\ x[2] \in Nat /\ y[1] \in Nat /\ y[2] \in Nat
  BY DEF Coordinate
<1>2. \A m, n \in Nat : (m + n) \div 2 \in Nat
  OBVIOUS
<1> QED BY <1>1, <1>2 DEF Middle, Coordinate

\* Sites and keys are places; of an ATM that no key is near to the site is no key.
LEMMA NoNearKey ==
    ASSUME keys \in Seq(Coordinate), {zoom, distance} \subseteq Distances,
           NEW x \in Coordinate, NearKeys(x) = {}
    PROVE  x \notin Range(keys)
<1> SUFFICES ASSUME x \in Range(keys) PROVE FALSE
  OBVIOUS
<1> DEFINE T == {k \in DOMAIN keys : Near(x, keys[k])}
<1>1. Near(x, x)
  <2>1. x[1] \in Nat /\ x[2] \in Nat /\ distance \in Nat \ {0}
    BY DistanceAssumption DEF Coordinate
  <2>2. Gap(x, x) = 0
    BY <2>1 DEF Gap, Square
  <2>3. Square(distance) > 0
    <3>1. \A n \in Nat \ {0} : n * n > 0
      OBVIOUS
    <3> QED BY <2>1, <3>1 DEF Square
  <2> QED BY <2>2, <2>3 DEF Near
<1>2. T # {} /\ T \subseteq Nat
  BY <1>1 DEF Range
<1>3. PICK k \in T : \A h \in T : k <= h
  <2> HIDE DEF T
  <2> QED BY <1>2, LeastNumber
<1>4. \A h \in 1..k - 1 : h \in DOMAIN keys /\ ~(k <= h)
  BY <1>2
<1>5. k \in NearKeys(x)
  BY <1>3, <1>4 DEF NearKeys
<1> QED BY <1>5

\* The first block of ATMs at a place, and the second, when two are joined.
LEMMA ConcatAtms ==
    ASSUME NEW A \in Seq(AtmIndex), NEW B \in Seq(AtmIndex)
    PROVE  /\ A \o B \in Seq(AtmIndex)
           /\ \A m \in DOMAIN (A \o B) :
                 \/ m \in DOMAIN A /\ (A \o B)[m] = A[m]
                 \/ m - Len(A) \in DOMAIN B /\ (A \o B)[m] = B[m - Len(A)]
           /\ \A m \in DOMAIN A : m \in DOMAIN (A \o B) /\ (A \o B)[m] = A[m]
           /\ \A m \in DOMAIN B :
                 Len(A) + m \in DOMAIN (A \o B) /\ (A \o B)[Len(A) + m] = B[m]
<1> DEFINE t == A \o B
<1>1. /\ Len(A) \in Nat /\ DOMAIN A = 1..Len(A)
      /\ Len(B) \in Nat /\ DOMAIN B = 1..Len(B)
  OBVIOUS
<1>2. t \in Seq(AtmIndex) /\ Len(t) = Len(A) + Len(B) /\ DOMAIN t = 1..Len(A) + Len(B)
  BY <1>1
<1>3. /\ \A m \in 1..Len(A) : t[m] = A[m]
      /\ \A m \in 1..Len(B) : t[Len(A) + m] = B[m]
  BY <1>1
<1> HIDE DEF t
<1>4. ASSUME NEW m \in DOMAIN t
      PROVE  \/ m \in DOMAIN A /\ t[m] = A[m]
             \/ m - Len(A) \in DOMAIN B /\ t[m] = B[m - Len(A)]
  <2>1. m \in Nat /\ 1 <= m /\ m <= Len(A) + Len(B)
    BY <1>1, <1>2
  <2>2. CASE m <= Len(A)
    BY <1>1, <1>3, <2>1, <2>2
  <2>3. CASE m > Len(A)
    <3>1. m - Len(A) \in 1..Len(B) /\ Len(A) + (m - Len(A)) = m
      BY <1>1, <2>1, <2>3
    <3> QED BY <1>1, <1>3, <3>1
  <2> QED BY <1>1, <2>1, <2>2, <2>3
<1>5. \A m \in DOMAIN A : m \in DOMAIN t /\ t[m] = A[m]
  BY <1>1, <1>2, <1>3
<1>6. \A m \in DOMAIN B : Len(A) + m \in DOMAIN t /\ t[Len(A) + m] = B[m]
  BY <1>1, <1>2, <1>3
<1> QED BY <1>2, <1>4, <1>5, <1>6 DEF t

\* A count that is not -1 is that of keys and of values.
LEMMA CountAgrees ==
    ASSUME DictInv, Count(keys, values) # -1
    PROVE  /\ Count(keys, values) = Len(keys)
           /\ Len(keys) = Cardinality(DOMAIN values)
           /\ Len(keys) \in Nat /\ Cardinality(DOMAIN values) \in Nat
           /\ DOMAIN keys = 1..Len(keys)
           /\ IsInjective(keys)
<1>1. Len(keys) = Cardinality(DOMAIN values) /\ Count(keys, values) = Len(keys)
  BY DEF Count
<1>2. Len(keys) \in Nat /\ DOMAIN keys = 1..Len(keys)
  BY DEF DictInv
<1>3. IsInjective(keys)
  BY <1>1, CountOfKeys DEF DictInv
<1> QED BY <1>1, <1>2, <1>3

\* The map does not change while the ATMs are being grouped.
LEMMA MapWaits ==
    ASSUME MapInv, pass # "done", pass' # "done", UNCHANGED mapVars
    PROVE  MapInv'
BY DEF MapInv, mapVars, mapHistoryVars

-----------------------------------------------------------------------------
\* A grouping begins with an empty dictionary, whatever is to be grouped.
Ungrouped ==
    /\ keys = <<>> /\ values = [x \in {} |-> <<>>]
    /\ pass = "first" /\ index = 0 /\ location = User /\ i = 0 /\ bound = 0
    /\ collided = FALSE /\ reinserted = FALSE
    /\ at \in Seq(Site) /\ Len(at) <= Atms
    /\ {zoom, distance} \subseteq Distances

LEMMA UngroupedHolds == Ungrouped => DictInv /\ LoopInv /\ AtmsInv /\ LoneInv
<1> SUFFICES ASSUME Ungrouped PROVE DictInv /\ LoopInv /\ AtmsInv /\ LoneInv
  OBVIOUS
<1> USE DEF Ungrouped
<1>1. Atms \in Nat /\ User \in Coordinate
  BY AtmsAssumption, SiteAssumption
<1>2. DOMAIN values = {}
  OBVIOUS
<1>3. DictInv
  <2>1. Range(keys) = {} /\ IsInjective(keys) /\ keys \in Seq(Coordinate)
    BY DEF Range, IsInjective
  <2>2. IsFiniteSet({}) /\ Cardinality({}) = 0
    BY FS_EmptySet
  <2> QED BY <1>2, <2>1, <2>2 DEF DictInv
<1>4. LoopInv
  <2>1. ~InRound
    BY DEF InRound
  <2>2. 0 \in 0..Atms /\ 0 <= Len(at) /\ FALSE \in BOOLEAN
    BY <1>1
  <2> QED BY <1>1, <2>1, <2>2 DEF LoopInv
<1>5. AtmsInv
  <2>1. Grouped = {}
    BY DEF Grouped
  <2> QED BY <1>2, <2>1 DEF AtmsInv
<1>6. LoneInv
  BY <1>2 DEF LoneInv
<1> QED BY <1>3, <1>4, <1>5, <1>6

LEMMA GroupingBegins == Ungrouped' => (DictInv /\ LoopInv /\ AtmsInv /\ LoneInv)'
BY UngroupedHolds, PTL

\* The map opens with nothing drawn, and a block for the first of its loads.
LEMMA ClustersInitHolds == ClustersInit => ClustersInv
<1> SUFFICES ASSUME ClustersInit PROVE ClustersInv
  OBVIOUS
<1>1. DictInv /\ LoopInv /\ AtmsInv /\ LoneInv
  <2>1. at \in Seq(Site) /\ Len(at) <= Atms /\ {zoom, distance} \subseteq Distances
    BY ListsAssumption, DistanceAssumption DEF ClustersInit
  <2> QED BY <2>1, UngroupedHolds DEF ClustersInit, Ungrouped
<1>2. MapInv
  <2>1. IsABag(EmptyBag)
    BY DEF IsABag, EmptyBag, SetToBag
  <2>2. pending \in 0..MaxPending /\ pending < MaxPending /\ reloads \in 0..MaxReloads
    BY PendingAssumption, ReloadsAssumption DEF ClustersInit
  <2>3. redrawn = TRUE /\ zoomOverlapped = FALSE /\ pass = "first" /\ markers = EmptyBag
    BY DEF ClustersInit
  <2> QED BY <2>1, <2>2, <2>3 DEF MapInv
<1> QED BY <1>1, <1>2 DEF ClustersInv

\* A change of the zoom empties the dictionary and the map.
LEMMA ChangeZoomStep ==
    ASSUME ClustersInv, NEW d \in Distances, ChangeZoom(d)
    PROVE  ClustersInv'
<1>1. /\ pass = "done" /\ pass' = "first" /\ pending < MaxPending /\ pending' = pending
      /\ markers' = EmptyBag /\ redrawn' = FALSE /\ zoomOverlapped' = (pending > 0)
      /\ reloads' = reloads
  BY DEF ChangeZoom, BeginGrouping, Cleared
<1>2. DictInv' /\ LoopInv' /\ AtmsInv' /\ LoneInv'
  <2>1. at' = at /\ zoom' = d /\ distance' = d
    BY DEF ChangeZoom
  <2>2. bound' = 0 /\ at' \in Seq(Site) /\ Len(at') <= Atms
    BY <1>1, <2>1 DEF ChangeZoom, BeginGrouping, ClustersInv, LoopInv
  <2> QED BY <2>1, <2>2, GroupingBegins DEF ChangeZoom, BeginGrouping, Ungrouped
<1>3. MapInv'
  <2>1. IsABag(EmptyBag)
    BY DEF IsABag, EmptyBag, SetToBag
  <2>2. pending \in 0..MaxPending /\ pending \in Nat /\ reloads \in 0..MaxReloads
    BY PendingAssumption DEF ClustersInv, MapInv
  <2>3. (pending > 0) \in BOOLEAN /\ (~(pending > 0) => pending = 0)
    BY <2>2
  <2>4. zoomOverlapped' \in BOOLEAN /\ (~zoomOverlapped' => pending' = 0)
    BY <1>1, <2>3
  <2> QED BY <1>1, <2>1, <2>2, <2>4 DEF MapInv
<1> QED BY <1>2, <1>3 DEF ClustersInv

\* A reload empties the dictionary and leaves the map alone.
LEMMA ReloadMapStep ==
    ASSUME ClustersInv, NEW l \in Reloaded \cup {at}, ReloadMap(l)
    PROVE  ClustersInv'
<1>1. /\ pass = "done" /\ pass' = "first" /\ pending < MaxPending /\ pending' = pending
      /\ reloads < MaxReloads /\ reloads' = reloads + 1
      /\ markers' = markers /\ redrawn' = TRUE /\ zoomOverlapped' = zoomOverlapped
  BY DEF ReloadMap, BeginGrouping
<1>2. DictInv' /\ LoopInv' /\ AtmsInv' /\ LoneInv'
  <2>1. at' = l /\ zoom' = zoom /\ distance' = Default
    BY DEF ReloadMap
  <2>2. bound' = 0
    BY <1>1 DEF ReloadMap, BeginGrouping, ClustersInv, LoopInv
  <2>3. at' \in Seq(Site) /\ Len(at') <= Atms
    BY <2>1, ListsAssumption DEF ClustersInv, LoopInv
  <2>4. {zoom', distance'} \subseteq Distances
    BY <2>1, DistanceAssumption DEF ClustersInv, LoopInv
  <2> QED BY <2>2, <2>3, <2>4, GroupingBegins DEF ReloadMap, BeginGrouping, Ungrouped
<1>3. MapInv'
  <2>1. /\ pending \in 0..MaxPending /\ zoomOverlapped \in BOOLEAN /\ IsABag(markers)
        /\ reloads \in 0..MaxReloads
    BY DEF ClustersInv, MapInv
  <2>2. reloads' \in 0..MaxReloads
    BY <1>1, <2>1, ReloadsAssumption
  <2> QED BY <1>1, <2>1, <2>2 DEF MapInv
<1> QED BY <1>2, <1>3 DEF ClustersInv

\* A block draws the groups there are.
LEMMA SetAtmsOnMapStep ==
    ASSUME ClustersInv, SetAtmsOnMap
    PROVE  ClustersInv'
<1>1. UNCHANGED <<at, dictVars, loopVars, historyVars, zoom, distance, mapHistoryVars>>
  BY DEF SetAtmsOnMap
<1>2. DictInv' /\ LoopInv' /\ AtmsInv' /\ LoneInv'
  BY <1>1 DEF ClustersInv, DictInv, LoopInv, AtmsInv, LoneInv, InRound, Grouped, Count,
              dictVars, loopVars, historyVars
<1>3. MapInv'
  <2>1. /\ pass = "done" /\ pass' = "done" /\ Groups' = Groups
        /\ pending' = pending - 1 /\ pending > 0
        /\ markers' = markers (+) SetToBag(Groups)
    BY <1>1 DEF SetAtmsOnMap, Groups, dictVars, loopVars
  <2>2. /\ pending' \in 0..MaxPending /\ reloads' \in 0..MaxReloads
        /\ redrawn' = redrawn /\ redrawn \in BOOLEAN
        /\ zoomOverlapped' = zoomOverlapped /\ zoomOverlapped \in BOOLEAN
    BY <1>1, <2>1, PendingAssumption DEF ClustersInv, MapInv, mapHistoryVars
  <2>3. IsABag(markers) /\ (~redrawn => DOMAIN markers \subseteq Groups)
    BY <2>1 DEF ClustersInv, MapInv, BagToSet
  <2>4. /\ DOMAIN markers' = DOMAIN markers \cup Groups
        /\ \A e \in DOMAIN markers' :
              markers'[e] = (IF e \in DOMAIN markers THEN markers[e] ELSE 0)
                            + (IF e \in Groups THEN 1 ELSE 0)
        /\ markers' = [e \in DOMAIN markers' |-> markers'[e]]
    <3> HIDE DEF Groups
    <3> QED BY <2>1 DEF (+), SetToBag
  <2>5. IsABag(markers')
    <3>1. \A e \in DOMAIN markers : markers[e] \in Nat \ {0}
      BY <2>3 DEF IsABag
    <3>2. ASSUME NEW e \in DOMAIN markers' PROVE markers'[e] \in {n \in Nat : n > 0}
      <4> HIDE DEF Groups
      <4> QED BY <2>4, <3>1
    <3> QED BY <2>4, <3>2 DEF IsABag
  <2>6. ASSUME ~redrawn', ~zoomOverlapped'
        PROVE  pending' = 0 /\ markers' = SetToBag(Groups')
    <3>1. pending = 1 /\ markers = EmptyBag
      BY <2>1, <2>2, <2>6 DEF ClustersInv, MapInv
    <3>2. DOMAIN markers = {}
      BY <3>1 DEF EmptyBag, SetToBag
    <3>3. DOMAIN markers' = Groups /\ \A e \in Groups : markers'[e] = 1
      <4> HIDE DEF Groups
      <4> QED BY <2>4, <3>2
    <3>4. markers' = SetToBag(Groups)
      <4> HIDE DEF Groups
      <4> QED BY <2>4, <3>3 DEF SetToBag
    <3> QED BY <2>1, <3>1, <3>4
  <2>7. /\ Groups' \subseteq BagToSet(markers')
        /\ ~redrawn' => BagToSet(markers') \subseteq Groups'
    <3> HIDE DEF Groups
    <3> QED BY <2>1, <2>2, <2>3, <2>4 DEF BagToSet
  <2> QED BY <2>1, <2>2, <2>5, <2>6, <2>7 DEF MapInv
<1> QED BY <1>2, <1>3 DEF ClustersInv

-----------------------------------------------------------------------------
\* The ATM that the first pass is at.
LEMMA IndexedAtm ==
    ASSUME ClustersInv, index < Len(at)
    PROVE  /\ index \in Nat /\ index + 1 \in 1..Atms /\ index + 1 \in Nat
           /\ index + 1 \in DOMAIN at /\ index + 1 <= Len(at)
           /\ at[index + 1] \in Coordinate
<1>1. index \in Nat /\ Len(at) \in Nat /\ DOMAIN at = 1..Len(at) /\ Len(at) <= Atms
  BY AtmsAssumption DEF ClustersInv, LoopInv
<1>2. index + 1 \in DOMAIN at /\ index + 1 \in 1..Atms /\ index + 1 <= Len(at)
  BY <1>1, AtmsAssumption
<1>3. at[index + 1] \in Site
  BY <1>2 DEF ClustersInv, LoopInv
<1> QED BY <1>1, <1>2, <1>3, SiteAssumption

\* An ATM near to no place is a place of its own.
LEMMA NewPlaceStep ==
    ASSUME ClustersInv, NewPlace
    PROVE  ClustersInv'
<1> DEFINE a == index + 1
           x == at[a]
<1>1. /\ index \in Nat /\ a \in 1..Atms /\ a \in Nat /\ x \in Coordinate /\ index < Len(at)
      /\ pass = "first" /\ index' = a /\ NearKeys(x) = {}
      /\ UNCHANGED <<at, pass, location, i, bound, historyVars, mapVars>>
      /\ a \in DOMAIN at /\ a <= Len(at)
  BY IndexedAtm DEF NewPlace
<1>2. x \notin Range(keys) /\ x \notin DOMAIN values
  BY <1>1, NoNearKey DEF ClustersInv, DictInv, LoopInv
<1>3. keys' = Append(keys, x)
  BY <1>2 DEF NewPlace, KeysPut
<1>4. values' = [y \in DOMAIN values \cup {x} |-> IF y = x THEN <<a>> ELSE values[y]]
  BY DEF NewPlace, Put
<1> HIDE DEF x
<1>5. DictInv'
  <2>1. /\ keys' \in Seq(Coordinate) /\ Range(keys') = Range(keys) \cup {x}
        /\ IsInjective(keys')
    BY <1>1, <1>2, <1>3, AppendKey DEF ClustersInv, DictInv
  <2>2. DOMAIN values' = DOMAIN values \cup {x}
    BY <1>4
  <2>3. IsFiniteSet(DOMAIN values') /\ Cardinality(DOMAIN values') = Cardinality(DOMAIN values) + 1
    BY <1>2, <2>2, FS_AddElement DEF ClustersInv, DictInv
  <2>4. Cardinality(DOMAIN values) \in Nat /\ Cardinality(DOMAIN values) <= index
    BY <1>1, FS_CardinalityType DEF ClustersInv, DictInv
  <2>5. Cardinality(DOMAIN values') <= index'
    BY <1>1, <2>3, <2>4
  <2>6. \A y \in DOMAIN values' : values'[y] \in Seq(AtmIndex)
    <3>1. <<a>> \in Seq(AtmIndex)
      BY <1>1 DEF AtmIndex
    <3> QED BY <1>4, <3>1 DEF ClustersInv, DictInv
  <2> QED BY <1>1, <2>1, <2>2, <2>3, <2>5, <2>6 DEF ClustersInv, DictInv
<1>6. LoopInv'
  <2>1. ~InRound' /\ index' \in 0..Atms
    BY <1>1, AtmsAssumption DEF InRound
  <2>2. bound' = 0
    BY <1>1 DEF ClustersInv, LoopInv
  <2> QED BY <1>1, <2>1, <2>2 DEF ClustersInv, LoopInv, historyVars, mapVars
<1>7. Grouped = 1..index /\ Grouped' = 1..index \cup {a} /\ a \notin 1..index
  BY <1>1 DEF Grouped
<1>8. AtmsInv'
  <2>1. \A y \in DOMAIN values' : \A n \in DOMAIN values'[y] : values'[y][n] \in Grouped'
    BY <1>4, <1>7 DEF ClustersInv, AtmsInv
  <2>2. ASSUME ~collided', NEW b \in Grouped'
        PROVE  \E y \in DOMAIN values' : \E n \in DOMAIN values'[y] :
                  /\ values'[y][n] = b
                  /\ \A z \in DOMAIN values' : \A m \in DOMAIN values'[z] :
                        values'[z][m] = b => z = y /\ m = n
    <3>1. values'[x] = <<a>> /\ \A y \in DOMAIN values : y # x /\ values'[y] = values[y]
      BY <1>2, <1>4
    <3>2. DOMAIN values' = DOMAIN values \cup {x}
      BY <1>4
    <3>3. CASE b = a
      <4>1. 1 \in DOMAIN values'[x] /\ values'[x][1] = b
            /\ \A m \in DOMAIN values'[x] : m = 1
        BY <3>1, <3>3
      <4>2. \A y \in DOMAIN values : \A m \in DOMAIN values[y] : values[y][m] # b
        BY <1>7, <3>3 DEF ClustersInv, AtmsInv
      <4> QED BY <3>1, <3>2, <4>1, <4>2
    <3>4. CASE b \in Grouped
      <4>1. PICK y \in DOMAIN values : \E n \in DOMAIN values[y] :
                /\ values[y][n] = b
                /\ \A z \in DOMAIN values : \A m \in DOMAIN values[z] :
                      values[z][m] = b => z = y /\ m = n
        BY <1>1, <2>2, <3>4 DEF ClustersInv, AtmsInv, historyVars
      <4>2. \A m \in DOMAIN values'[x] : values'[x][m] # b
        BY <1>7, <3>1, <3>4
      <4> QED BY <3>1, <3>2, <4>1, <4>2
    <3> QED BY <1>7, <3>3, <3>4
  <2> QED BY <2>1, <2>2 DEF AtmsInv
<1>9. MapInv'
  BY <1>1, MapWaits DEF ClustersInv
<1>10. LoneInv'
  <2>1. ASSUME NEW y \in DOMAIN values'
        PROVE  Len(values'[y]) # 0 /\ (Len(values'[y]) = 1 => \E b \in DOMAIN at' : at'[b] = y)
    <3>1. CASE y = x
      <4>1. Len(values'[y]) = 1
        BY <1>4, <3>1
      <4>2. at'[a] = y /\ a \in DOMAIN at'
        BY <1>1, <3>1 DEF x
      <4> QED BY <4>1, <4>2
    <3>2. CASE y # x
      <4>1. y \in DOMAIN values /\ values'[y] = values[y]
        BY <1>4, <3>2
      <4> QED BY <1>1, <4>1 DEF ClustersInv, LoneInv
    <3> QED BY <3>1, <3>2
  <2> QED BY <2>1 DEF LoneInv
<1> QED BY <1>5, <1>6, <1>8, <1>9, <1>10 DEF ClustersInv

\* An ATM joins the place near it, which moves; the ATMs of a place that was
\* where it moves to are lost (collided).
LEMMA JoinPlaceStep ==
    ASSUME ClustersInv, JoinPlace
    PROVE  ClustersInv'
<1> DEFINE a == index + 1
<1>1. /\ index \in Nat /\ a \in 1..Atms /\ a \in Nat /\ at[a] \in Coordinate /\ index < Len(at)
      /\ pass = "first" /\ index' = a
      /\ UNCHANGED <<at, pass, location, i, bound, reinserted, mapVars>>
      /\ a <= Len(at)
  BY IndexedAtm DEF JoinPlace
<1>2. PICK k \in NearKeys(at[a]) :
          LET x == keys[k]
              middle == Middle(x, at[a])
              joined == Append(values[x], a)
              rest == ValuesWithout(values, {x})
          IN  /\ keys' = KeysPut(KeysWithout(keys, x), rest, middle)
              /\ values' = Put(rest, middle, joined)
              /\ collided' = (collided \/ middle \in DOMAIN rest)
  BY DEF JoinPlace
<1> DEFINE x == keys[k]
           middle == Middle(x, at[a])
           joined == Append(values[x], a)
           rest == ValuesWithout(values, {x})
           Rest == DOMAIN values \ {x}
<1>3. x \in DOMAIN values /\ x \in Coordinate /\ middle \in Coordinate
  <2>1. x \in Range(keys) /\ x \in Coordinate
    BY DEF NearKeys, Range, ClustersInv, DictInv
  <2> QED BY <1>1, <2>1, MiddleType DEF ClustersInv, DictInv
<1>4. DOMAIN rest = Rest
  BY DEF ValuesWithout
<1>5. keys' = IF middle \in Rest THEN KeysWithout(keys, x)
              ELSE Append(KeysWithout(keys, x), middle)
  BY <1>2, <1>4 DEF KeysPut
<1>6. values' = [y \in Rest \cup {middle} |-> IF y = middle THEN joined ELSE values[y]]
  BY <1>2 DEF Put, ValuesWithout
<1>7. collided' = (collided \/ middle \in Rest)
  BY <1>2, <1>4
<1>8. values[x] \in Seq(AtmIndex) /\ joined \in Seq(AtmIndex)
  BY <1>1, <1>3 DEF ClustersInv, DictInv, AtmIndex
<1>9. /\ Len(values[x]) \in Nat
      /\ DOMAIN values[x] = 1..Len(values[x])
      /\ DOMAIN joined = 1..Len(values[x]) + 1
      /\ \A m \in DOMAIN values[x] : m \in DOMAIN joined /\ joined[m] = values[x][m]
      /\ Len(values[x]) + 1 \in DOMAIN joined
      /\ joined[Len(values[x]) + 1] = a
      /\ \A m \in DOMAIN joined : m \in DOMAIN values[x] \/ m = Len(values[x]) + 1
  <2>1. /\ Len(values[x]) \in Nat /\ DOMAIN values[x] = 1..Len(values[x])
        /\ DOMAIN joined = 1..Len(values[x]) + 1
        /\ \A m \in 1..Len(values[x]) : joined[m] = values[x][m]
        /\ joined[Len(values[x]) + 1] = a
    BY <1>1, <1>8 DEF AtmIndex
  <2> HIDE DEF joined
  <2> QED BY <2>1
<1> HIDE DEF x, middle, joined, rest
<1>10. DictInv'
  <2>1. /\ KeysWithout(keys, x) \in Seq(Coordinate)
        /\ Range(KeysWithout(keys, x)) = Rest
        /\ IsInjective(KeysWithout(keys, x))
    BY <1>1, KeysWithoutKey DEF ClustersInv, DictInv
  <2>2. /\ keys' \in Seq(Coordinate) /\ Range(keys') = Rest \cup {middle}
        /\ IsInjective(keys')
    <3>1. CASE middle \in Rest
      BY <1>5, <2>1, <3>1
    <3>2. CASE middle \notin Rest
      BY <1>3, <1>5, <2>1, <3>2, AppendKey
    <3> QED BY <3>1, <3>2
  <2>3. DOMAIN values' = Rest \cup {middle}
    BY <1>6
  <2>4. /\ IsFiniteSet(Rest \cup {middle})
        /\ Cardinality(Rest \cup {middle}) <= Cardinality(DOMAIN values)
    <3>1. IsFiniteSet(DOMAIN values) /\ Cardinality(DOMAIN values) \in Nat
      BY FS_CardinalityType DEF ClustersInv, DictInv
    <3>2. IsFiniteSet(Rest) /\ Cardinality(Rest) = Cardinality(DOMAIN values) - 1
          /\ Cardinality(Rest) \in Nat
      BY <1>3, <3>1, FS_RemoveElement, FS_CardinalityType
    <3>3. Cardinality(Rest \cup {middle}) \in {Cardinality(Rest), Cardinality(Rest) + 1}
          /\ IsFiniteSet(Rest \cup {middle})
      BY <3>2, FS_AddElement
    <3> QED BY <3>1, <3>2, <3>3
  <2>5. Cardinality(DOMAIN values') <= index'
    <3>1. Cardinality(DOMAIN values) \in Nat /\ Cardinality(DOMAIN values) <= index
          /\ Cardinality(DOMAIN values') \in Nat
      BY <1>1, <2>3, <2>4, FS_CardinalityType DEF ClustersInv, DictInv
    <3> QED BY <1>1, <2>3, <2>4, <3>1
  <2>6. \A y \in DOMAIN values' : values'[y] \in Seq(AtmIndex)
    BY <1>6, <1>8 DEF ClustersInv, DictInv
  <2>7. DOMAIN values' \subseteq Coordinate
    BY <1>3, <2>3 DEF ClustersInv, DictInv
  <2> QED BY <1>1, <2>2, <2>3, <2>4, <2>5, <2>6, <2>7 DEF DictInv
<1>11. LoopInv'
  <2>1. ~InRound' /\ index' \in 0..Atms
    BY <1>1, AtmsAssumption DEF InRound
  <2>2. bound' = 0
    BY <1>1 DEF ClustersInv, LoopInv
  <2>3. collided' \in BOOLEAN
    BY <1>7 DEF ClustersInv, LoopInv
  <2> QED BY <1>1, <2>1, <2>2, <2>3 DEF ClustersInv, LoopInv, mapVars
<1>12. Grouped = 1..index /\ Grouped' = 1..index \cup {a} /\ a \notin 1..index
  BY <1>1 DEF Grouped
<1>13. AtmsInv'
  <2>1. ASSUME NEW y \in DOMAIN values', NEW n \in DOMAIN values'[y]
        PROVE  values'[y][n] \in Grouped'
    <3>1. CASE y = middle
      BY <1>3, <1>6, <1>9, <1>12, <3>1 DEF ClustersInv, AtmsInv
    <3>2. CASE y # middle
      BY <1>6, <1>12, <3>2 DEF ClustersInv, AtmsInv
    <3> QED BY <3>1, <3>2
  <2>2. ASSUME ~collided', NEW b \in Grouped'
        PROVE  \E y \in DOMAIN values' : \E n \in DOMAIN values'[y] :
                  /\ values'[y][n] = b
                  /\ \A z \in DOMAIN values' : \A m \in DOMAIN values'[z] :
                        values'[z][m] = b => z = y /\ m = n
    <3>1. ~collided /\ middle \notin Rest
      BY <1>7, <2>2
    <3>2. /\ DOMAIN values' = Rest \cup {middle} /\ values'[middle] = joined
          /\ \A y \in Rest : y # middle /\ y # x /\ y \in DOMAIN values /\ values'[y] = values[y]
      BY <1>6, <3>1
    <3>3. CASE b = a
      <4>1. \A y \in DOMAIN values : \A m \in DOMAIN values[y] : values[y][m] # b
        BY <1>12, <3>3 DEF ClustersInv, AtmsInv
      <4>2. \A m \in DOMAIN joined : joined[m] = b => m = Len(values[x]) + 1
        BY <1>3, <1>9, <4>1
      <4> QED BY <1>9, <3>2, <3>3, <4>1, <4>2
    <3>4. CASE b \in Grouped
      <4>0. PICK y \in DOMAIN values : \E n \in DOMAIN values[y] :
                /\ values[y][n] = b
                /\ \A z \in DOMAIN values : \A m \in DOMAIN values[z] :
                      values[z][m] = b => z = y /\ m = n
        BY <3>1, <3>4 DEF ClustersInv, AtmsInv
      <4>1. PICK n \in DOMAIN values[y] :
                /\ values[y][n] = b
                /\ \A z \in DOMAIN values : \A m \in DOMAIN values[z] :
                      values[z][m] = b => z = y /\ m = n
        BY <4>0
      <4>2. \A m \in DOMAIN joined : joined[m] = b => m \in DOMAIN values[x] /\ values[x][m] = b
        BY <1>9, <1>12, <3>4
      <4>3. CASE y = x
        <5>1. n \in DOMAIN values'[middle] /\ values'[middle][n] = b
          BY <1>9, <3>2, <4>1, <4>3
        <5>2. ASSUME NEW z \in DOMAIN values', NEW m \in DOMAIN values'[z], values'[z][m] = b
              PROVE  z = middle /\ m = n
          BY <1>3, <3>2, <4>1, <4>2, <4>3, <5>2
        <5> QED BY <3>2, <5>1, <5>2
      <4>4. CASE y # x
        <5>1. y \in Rest /\ n \in DOMAIN values'[y] /\ values'[y][n] = b
          BY <3>2, <4>1, <4>4
        <5>2. ASSUME NEW z \in DOMAIN values', NEW m \in DOMAIN values'[z], values'[z][m] = b
              PROVE  z = y /\ m = n
          BY <1>3, <3>2, <4>1, <4>2, <4>4, <5>2
        <5> QED BY <3>2, <5>1, <5>2
      <4> QED BY <4>3, <4>4
    <3> QED BY <1>12, <3>3, <3>4
  <2> QED BY <2>1, <2>2 DEF AtmsInv
<1>14. MapInv'
  BY <1>1, MapWaits DEF ClustersInv
<1>15. LoneInv'
  <2>1. ASSUME NEW y \in DOMAIN values'
        PROVE  Len(values'[y]) # 0 /\ (Len(values'[y]) = 1 => \E b \in DOMAIN at' : at'[b] = y)
    <3>1. CASE y = middle
      <4>1. values'[y] = joined
        BY <1>6, <3>1
      <4>2. Len(values[x]) \in Nat \ {0} /\ Len(joined) = Len(values[x]) + 1
        BY <1>3, <1>8, <1>9 DEF ClustersInv, LoneInv, joined
      <4> QED BY <4>1, <4>2
    <3>2. CASE y # middle
      <4>1. y \in DOMAIN values /\ values'[y] = values[y]
        BY <1>6, <3>2
      <4> QED BY <1>1, <4>1 DEF ClustersInv, LoneInv
    <3> QED BY <3>1, <3>2
  <2> QED BY <2>1 DEF LoneInv
<1> QED BY <1>10, <1>11, <1>13, <1>14, <1>15 DEF ClustersInv

\* The second pass begins with what the first has grouped.
LEMMA EndFirstPassStep ==
    ASSUME ClustersInv, EndFirstPass
    PROVE  ClustersInv'
<1>1. /\ pass = "first" /\ pass' = "second" /\ index = Len(at) /\ index' = 0
      /\ UNCHANGED <<at, dictVars, location, i, bound, historyVars, mapVars>>
  BY DEF EndFirstPass
<1>2. DictInv'
  BY <1>1 DEF ClustersInv, DictInv, dictVars, historyVars
<1>3. LoopInv'
  <2>1. bound' = 0 /\ 0 \in 0..Atms
    BY <1>1, AtmsAssumption DEF ClustersInv, LoopInv
  <2> QED BY <1>1, <2>1 DEF ClustersInv, LoopInv, InRound, historyVars, mapVars
<1>4. Grouped' = Grouped
  <2>1. DOMAIN at = 1..Len(at)
    BY DEF ClustersInv, LoopInv
  <2> QED BY <1>1, <2>1 DEF Grouped
<1>5. AtmsInv'
  BY <1>1, <1>4 DEF ClustersInv, AtmsInv, dictVars, historyVars
<1>6. MapInv'
  BY <1>1, MapWaits DEF ClustersInv
<1>7. LoneInv'
  BY <1>1 DEF ClustersInv, LoneInv, dictVars
<1> QED BY <1>2, <1>3, <1>5, <1>6, <1>7 DEF ClustersInv

-----------------------------------------------------------------------------
\* What the second pass leaves alone when it only moves its variables.
LEMMA GroupingKept ==
    ASSUME ClustersInv, pass = "second", pass' \in {"second", "done"},
           UNCHANGED <<at, dictVars, historyVars>>
    PROVE  DictInv' /\ AtmsInv' /\ LoneInv'
<1>1. Grouped' = Grouped
  BY DEF Grouped
<1>2. DictInv'
  BY DEF ClustersInv, DictInv, dictVars, historyVars
<1>3. AtmsInv'
  BY <1>1 DEF ClustersInv, AtmsInv, dictVars, historyVars
<1>4. LoneInv'
  BY DEF ClustersInv, LoneInv, dictVars
<1> QED BY <1>2, <1>3, <1>4

\* No more than Atms places: no loop variable leaves its range.
LEMMA CountIsBounded ==
    ASSUME ClustersInv, pass = "second"
    PROVE  /\ Count(keys, values) \in Int /\ Count(keys, values) <= Atms
           /\ Count(keys, values) # -1 => Count(keys, values) \in 0..Atms
<1>1. Cardinality(DOMAIN values) \in Nat /\ Cardinality(DOMAIN values) <= Atms
  <2>1. Cardinality(DOMAIN values) \in Nat /\ Cardinality(DOMAIN values) <= Len(at)
    BY FS_CardinalityType DEF ClustersInv, DictInv
  <2>2. Len(at) \in Nat /\ Len(at) <= Atms
    BY DEF ClustersInv, LoopInv
  <2> QED BY <2>1, <2>2, AtmsAssumption
<1>2. Atms \in Nat /\ Len(keys) \in Nat
  BY AtmsAssumption DEF ClustersInv, DictInv
<1> QED BY <1>1, <1>2 DEF Count

\* A round begins within the keys.
LEMMA BeginRoundStep ==
    ASSUME ClustersInv, BeginRound
    PROVE  ClustersInv'
<1> DEFINE count == Count(keys, values)
<1>1. /\ pass = "second" /\ pass' = "second" /\ index < count
      /\ location' = keys[index + 1] /\ i' = 0 /\ bound' = count
      /\ UNCHANGED <<at, dictVars, index, historyVars, mapVars>>
  BY DEF BeginRound
<1>2. index \in Nat /\ index \in 0..Atms
  BY AtmsAssumption DEF ClustersInv, LoopInv
<1>3. count \in 0..Atms /\ count # -1 /\ count \in Nat
  BY <1>1, <1>2, CountIsBounded, AtmsAssumption
<1>4. count = Len(keys) /\ Len(keys) \in Nat /\ DOMAIN keys = 1..Len(keys)
  BY <1>3, CountAgrees DEF ClustersInv
<1> HIDE DEF count
<1>5. location' \in Coordinate
  <2>1. index + 1 \in DOMAIN keys
    BY <1>1, <1>2, <1>4
  <2> QED BY <1>1, <2>1 DEF ClustersInv, DictInv
<1>6. LoopInv'
  <2>1. index' < bound' /\ index' < Len(keys') /\ i' \in 0..Atms
    BY <1>1, <1>4, AtmsAssumption DEF dictVars
  <2> QED BY <1>1, <1>2, <1>3, <1>5, <2>1 DEF ClustersInv, LoopInv, historyVars, mapVars
<1>7. DictInv' /\ AtmsInv' /\ LoneInv'
  BY <1>1, GroupingKept
<1>8. MapInv'
  BY <1>1, MapWaits DEF ClustersInv
<1> QED BY <1>6, <1>7, <1>8 DEF ClustersInv

\* The ATMs are grouped: a block will draw them, if there are any.
LEMMA EndSecondPassStep ==
    ASSUME ClustersInv, EndSecondPass
    PROVE  ClustersInv'
<1>1. /\ pass = "second" /\ pass' = "done" /\ bound = 0
      /\ pending' = IF at = <<>> THEN pending ELSE pending + 1
      /\ UNCHANGED <<at, dictVars, index, location, i, bound, historyVars,
                     zoom, distance, markers, mapHistoryVars>>
  BY DEF EndSecondPass
<1>2. DictInv' /\ AtmsInv' /\ LoneInv'
  BY <1>1, GroupingKept
<1>3. LoopInv'
  <2>1. ~InRound'
    BY <1>1 DEF InRound
  <2> QED BY <1>1, <2>1 DEF ClustersInv, LoopInv, historyVars, mapHistoryVars
<1>4. MapInv'
  <2>1. /\ pending \in 0..MaxPending /\ pending < MaxPending /\ pending \in Nat
        /\ IsABag(markers') /\ markers' = markers
        /\ redrawn' = redrawn /\ redrawn' \in BOOLEAN
        /\ zoomOverlapped' = zoomOverlapped /\ zoomOverlapped' \in BOOLEAN
        /\ reloads' \in 0..MaxReloads
        /\ ~redrawn => markers = EmptyBag
        /\ ~redrawn /\ ~zoomOverlapped => pending = 0
    BY <1>1, PendingAssumption DEF ClustersInv, MapInv, mapHistoryVars
  <2>2. pending' \in 0..MaxPending
    BY <1>1, <2>1, PendingAssumption
  <2>3. at = <<>> => Groups' = {}
    <3> SUFFICES ASSUME at = <<>> PROVE Groups' = {}
      OBVIOUS
    <3>1. Cardinality(DOMAIN values) = 0
      <4>1. Cardinality(DOMAIN values) \in Nat /\ Cardinality(DOMAIN values) <= Len(at)
        BY <1>1, FS_CardinalityType DEF ClustersInv, DictInv
      <4>2. Len(at) = 0
        OBVIOUS
      <4> QED BY <4>1, <4>2
    <3>2. DOMAIN values' = {}
      BY <1>1, <3>1, FS_EmptySet DEF ClustersInv, DictInv, dictVars
    <3> QED BY <3>2 DEF Groups
  <2>4. ~redrawn' => BagToSet(markers') \subseteq Groups'
    BY <2>1 DEF BagToSet, EmptyBag, SetToBag
  <2>5. pending' = 0 => Groups' \subseteq BagToSet(markers')
    BY <1>1, <2>1, <2>3
  <2>6. ASSUME ~redrawn', ~zoomOverlapped'
        PROVE  \/ pending' = 0 /\ markers' = SetToBag(Groups')
               \/ pending' = 1 /\ markers' = EmptyBag
    <3>1. pending = 0 /\ markers' = EmptyBag
      BY <2>1, <2>6
    <3>2. CASE at = <<>>
      BY <1>1, <2>3, <3>1, <3>2 DEF EmptyBag
    <3>3. CASE at # <<>>
      BY <1>1, <3>1, <3>3
    <3> QED BY <3>2, <3>3
  <2> QED BY <1>1, <2>1, <2>2, <2>4, <2>5, <2>6 DEF MapInv
<1> QED BY <1>2, <1>3, <1>4 DEF ClustersInv

\* A round ends.
LEMMA EndRoundStep ==
    ASSUME ClustersInv, EndRound
    PROVE  ClustersInv'
<1>1. /\ pass = "second" /\ pass' = "second" /\ bound > 0 /\ bound' = 0
      /\ index' = index + 1 /\ i' = 0
      /\ UNCHANGED <<at, dictVars, location, historyVars, mapVars>>
  BY DEF EndRound, InRound
<1>2. LoopInv'
  <2>1. index' \in 0..Atms /\ 0 \in 0..Atms
    BY <1>1, AtmsAssumption DEF ClustersInv, LoopInv
  <2>2. ~InRound'
    BY <1>1 DEF InRound
  <2> QED BY <1>1, <2>1, <2>2 DEF ClustersInv, LoopInv, historyVars, mapVars
<1>3. DictInv' /\ AtmsInv' /\ LoneInv'
  BY <1>1, GroupingKept
<1>4. MapInv'
  BY <1>1, MapWaits DEF ClustersInv
<1> QED BY <1>2, <1>3, <1>4 DEF ClustersInv

\* The round goes on to the next place.
LEMMA PassStep ==
    ASSUME ClustersInv, Pass
    PROVE  ClustersInv'
<1>1. /\ pass = "second" /\ pass' = "second" /\ bound > 0 /\ i < bound /\ i' = i + 1
      /\ UNCHANGED <<at, dictVars, index, location, bound, historyVars, mapVars>>
  BY DEF Pass, Remaining, InRound
<1>2. LoopInv'
  <2>1. i' \in 0..Atms
    BY <1>1, AtmsAssumption DEF ClustersInv, LoopInv
  <2> QED BY <1>1, <2>1 DEF ClustersInv, LoopInv, InRound, Count, dictVars, historyVars, mapVars
<1>3. DictInv' /\ AtmsInv' /\ LoneInv'
  BY <1>1, GroupingKept
<1>4. MapInv'
  BY <1>1, MapWaits DEF ClustersInv
<1> QED BY <1>2, <1>3, <1>4 DEF ClustersInv

\* Two different places are joined only while the count is right; what is left
\* without them has two keys less.
LEMMA JoiningPlaces ==
    ASSUME ClustersInv, Joining
    PROVE  /\ pass = "second" /\ bound > 0 /\ i < bound
           /\ index \in Nat /\ i \in Nat
           /\ Len(keys) \in Nat /\ Len(keys) = Cardinality(DOMAIN values) /\ Len(keys) <= Len(at)
           /\ index < Len(keys) /\ i < Len(keys) /\ i # index
           /\ keys[index + 1] \in DOMAIN values /\ keys[index + 1] \in Coordinate
           /\ keys[i + 1] \in DOMAIN values /\ keys[i + 1] \in Coordinate
           /\ keys[index + 1] # keys[i + 1]
           /\ DOMAIN RestValues = DOMAIN values \ {keys[i + 1], keys[index + 1]}
           /\ RestKeys \in Seq(Coordinate)
           /\ Range(RestKeys) = DOMAIN RestValues
           /\ IsInjective(RestKeys)
           /\ Len(RestKeys) = Len(keys) - 2
           /\ IsFiniteSet(DOMAIN RestValues)
           /\ Cardinality(DOMAIN RestValues) = Len(keys) - 2
           /\ Len(keys) - 2 \in Nat
           /\ InsertsTwice <=> index > Len(keys) - 2
<1>1. /\ pass = "second" /\ bound > 0 /\ i < bound /\ InRound
      /\ i < Count(keys, values) /\ i # index /\ i \in Nat /\ index \in Nat
  BY AtmsAssumption DEF Joining, Remaining, InRound, ClustersInv, LoopInv
<1>2. Count(keys, values) # -1
  BY <1>1
<1>3. /\ Count(keys, values) = Len(keys) /\ Len(keys) = Cardinality(DOMAIN values)
      /\ Len(keys) \in Nat /\ DOMAIN keys = 1..Len(keys) /\ IsInjective(keys)
  BY <1>2, CountAgrees DEF ClustersInv
<1>4. index < Len(keys) /\ Len(keys) <= Len(at)
  BY <1>1, <1>2, <1>3 DEF ClustersInv, LoopInv, DictInv
<1>5. i + 1 \in DOMAIN keys /\ index + 1 \in DOMAIN keys /\ i + 1 # index + 1
  BY <1>1, <1>3, <1>4
<1> DEFINE p == keys[index + 1]
           q == keys[i + 1]
           V == DOMAIN values
<1>6. /\ p \in Range(keys) /\ q \in Range(keys) /\ p # q /\ Range(keys) = V
      /\ p \in Coordinate /\ q \in Coordinate /\ keys \in Seq(Coordinate)
  BY <1>3, <1>5 DEF Range, IsInjective, ClustersInv, DictInv
<1>7. DOMAIN RestValues = V \ {q, p}
  BY DEF RestValues, ValuesWithout
<1>8. /\ RestKeys \in Seq(Coordinate)
      /\ Range(RestKeys) = V \ {q, p}
      /\ IsInjective(RestKeys)
  <2> HIDE DEF p, q, V
  <2>1. /\ KeysWithout(keys, q) \in Seq(Coordinate)
        /\ Range(KeysWithout(keys, q)) = V \ {q}
        /\ IsInjective(KeysWithout(keys, q))
    BY <1>3, <1>6, KeysWithoutKey
  <2>2. /\ KeysWithout(KeysWithout(keys, q), p) \in Seq(Coordinate)
        /\ Range(KeysWithout(KeysWithout(keys, q), p)) = (V \ {q}) \ {p}
        /\ IsInjective(KeysWithout(KeysWithout(keys, q), p))
    BY <2>1, KeysWithoutKey
  <2>3. RestKeys = KeysWithout(KeysWithout(keys, q), p)
    BY DEF RestKeys, p, q
  <2>4. (V \ {q}) \ {p} = V \ {q, p}
    OBVIOUS
  <2> QED BY <2>2, <2>3, <2>4
<1>9. IsFiniteSet(V \ {q, p}) /\ Cardinality(V \ {q, p}) = Len(keys) - 2
      /\ Cardinality(V \ {q, p}) \in Nat
  <2>1. IsFiniteSet(V) /\ p \in V /\ q \in V /\ Cardinality(V) = Len(keys)
    BY <1>3, <1>6 DEF ClustersInv, DictInv
  <2> HIDE DEF p, q, V
  <2>2. IsFiniteSet(V \ {q}) /\ Cardinality(V \ {q}) = Len(keys) - 1
    BY <2>1, FS_RemoveElement
  <2>3. p \in V \ {q}
    BY <1>6, <2>1
  <2>4. IsFiniteSet((V \ {q}) \ {p}) /\ Cardinality((V \ {q}) \ {p}) = Cardinality(V \ {q}) - 1
    BY <2>2, <2>3, FS_RemoveElement
  <2>5. (V \ {q}) \ {p} = V \ {q, p}
    OBVIOUS
  <2>6. Cardinality(V \ {q, p}) = Len(keys) - 2
    <3>1. Cardinality(V \ {q, p}) = Cardinality(V \ {q}) - 1
      BY <2>4, <2>5
    <3>2. Cardinality(V \ {q, p}) = (Len(keys) - 1) - 1
      BY <2>2, <3>1
    <3>3. Len(keys) \in Nat
      BY <1>3, LenProperties DEF ClustersInv, DictInv
    <3> QED BY <3>2, <3>3
  <2> QED BY <2>4, <2>5, <2>6, FS_CardinalityType
<1>10. Len(RestKeys) = Len(keys) - 2
  BY <1>8, <1>9, CountOfKeys
<1>11. Count(RestKeys, RestValues) = Len(keys) - 2
  BY <1>7, <1>9, <1>10 DEF Count
<1>12. InsertsTwice <=> index > Len(keys) - 2
  BY <1>11 DEF InsertsTwice
<1> QED BY <1>1, <1>3, <1>4, <1>6, <1>7, <1>8, <1>9, <1>10, <1>12

\* The new place is inserted where the old one was, or at the end of the rest.
LEMMA RestKeysWithPlace ==
    ASSUME ClustersInv, Joining, NEW x \in Coordinate
    PROVE  /\ RestKeysWith(x) \in Seq(Coordinate)
           /\ index \in 0..Len(RestKeysWith(x))
           /\ InsertsTwice => /\ Len(RestKeysWith(x)) = Len(keys) - 1
                              /\ Range(RestKeysWith(x)) = Range(RestKeys) \cup {x}
           /\ ~InsertsTwice => RestKeysWith(x) = RestKeys
<1>1. /\ RestKeys \in Seq(Coordinate) /\ Len(RestKeys) = Len(keys) - 2
      /\ Len(keys) - 2 \in Nat /\ index \in Nat /\ index < Len(keys) /\ Len(keys) \in Nat
      /\ InsertsTwice <=> index > Len(keys) - 2
  BY JoiningPlaces
<1>2. CASE InsertsTwice
  <2>1. RestKeysWith(x) = Insert(RestKeys, 0, x)
    BY <1>2 DEF RestKeysWith
  <2>2. 0 \in 0..Len(RestKeys)
    BY <1>1
  <2>3. /\ Insert(RestKeys, 0, x) \in Seq(Coordinate)
        /\ Len(Insert(RestKeys, 0, x)) = Len(RestKeys) + 1
        /\ Range(Insert(RestKeys, 0, x)) = Range(RestKeys) \cup {x}
    BY <1>1, <2>2, InsertKey
  <2> QED BY <1>1, <1>2, <2>1, <2>3
<1>3. CASE ~InsertsTwice
  <2>1. RestKeysWith(x) = RestKeys
    BY <1>3 DEF RestKeysWith
  <2> QED BY <1>1, <1>3, <2>1
<1> QED BY <1>2, <1>3

\* The places of i and of the round are joined in their mid-point.
LEMMA JoinPlacesStep ==
    ASSUME ClustersInv, JoinPlaces
    PROVE  ClustersInv'
<1> DEFINE p == keys[index + 1]
           q == keys[i + 1]
           middle == Middle(q, location)
           Rest == DOMAIN RestValues
           A == values[p]
           B == values[q]
<1>1. /\ Joining
      /\ keys' = Insert(RestKeysWith(middle), index, middle)
      /\ values' = Put(RestValues, middle, A \o B)
      /\ collided' = (collided \/ middle \in Rest)
      /\ reinserted' = (reinserted \/ InsertsTwice)
      /\ i' = i + 1
      /\ UNCHANGED <<at, pass, index, location, bound, mapVars>>
  BY DEF JoinPlaces
<1>2. /\ pass = "second" /\ bound > 0 /\ i < bound
      /\ index \in Nat /\ i \in Nat
      /\ Len(keys) \in Nat /\ Len(keys) = Cardinality(DOMAIN values) /\ Len(keys) <= Len(at)
      /\ index < Len(keys)
      /\ p \in DOMAIN values /\ q \in DOMAIN values /\ q \in Coordinate /\ p # q
      /\ Rest = DOMAIN values \ {q, p}
      /\ RestKeys \in Seq(Coordinate) /\ Range(RestKeys) = Rest /\ IsInjective(RestKeys)
      /\ Len(RestKeys) = Len(keys) - 2
      /\ IsFiniteSet(Rest) /\ Cardinality(Rest) = Len(keys) - 2 /\ Len(keys) - 2 \in Nat
      /\ InsertsTwice <=> index > Len(keys) - 2
  BY <1>1, JoiningPlaces
<1>3. middle \in Coordinate
  BY <1>2, MiddleType DEF ClustersInv, LoopInv
<1>4. values' = [y \in Rest \cup {middle} |-> IF y = middle THEN A \o B ELSE values[y]]
  BY <1>1, <1>2 DEF Put, RestValues, ValuesWithout
<1>5. A \in Seq(AtmIndex) /\ B \in Seq(AtmIndex)
  BY <1>2 DEF ClustersInv, DictInv
<1>6. /\ RestKeysWith(middle) \in Seq(Coordinate)
      /\ index \in 0..Len(RestKeysWith(middle))
      /\ InsertsTwice => /\ Len(RestKeysWith(middle)) = Len(keys) - 1
                         /\ Range(RestKeysWith(middle)) = Rest \cup {middle}
      /\ ~InsertsTwice => RestKeysWith(middle) = RestKeys
  <2> HIDE DEF middle
  <2> QED BY <1>1, <1>2, <1>3, RestKeysWithPlace
<1> HIDE DEF middle, A, B, p, q
<1>7. /\ keys' \in Seq(Coordinate)
      /\ Len(keys') = Len(RestKeysWith(middle)) + 1
      /\ Range(keys') = Range(RestKeysWith(middle)) \cup {middle}
      /\ IsInjective(RestKeysWith(middle)) /\ middle \notin Range(RestKeysWith(middle))
            => IsInjective(keys')
  BY <1>1, <1>3, <1>6, InsertKey
<1> HIDE DEF Rest
<1>8. Range(keys') = Rest \cup {middle} /\ DOMAIN values' = Rest \cup {middle}
  BY <1>2, <1>4, <1>6, <1>7
<1>9. /\ IsFiniteSet(Rest \cup {middle}) /\ Cardinality(Rest \cup {middle}) \in Nat
      /\ Cardinality(Rest \cup {middle}) <= Len(keys) - 1
  <2>1. /\ IsFiniteSet(Rest \cup {middle})
        /\ Cardinality(Rest \cup {middle}) \in {Len(keys) - 2, Len(keys) - 2 + 1}
    BY <1>2, FS_AddElement
  <2> QED BY <1>2, <2>1, FS_CardinalityType
<1>10. A \o B \in Seq(AtmIndex)
  BY <1>5, ConcatAtms
<1>11. DictInv'
  <2>1. DOMAIN values' \subseteq Coordinate
    BY <1>2, <1>3, <1>8 DEF ClustersInv, DictInv
  <2>2. \A y \in DOMAIN values' : values'[y] \in Seq(AtmIndex)
    BY <1>2, <1>4, <1>10 DEF ClustersInv, DictInv
  <2>3. ASSUME ~collided', ~reinserted' PROVE IsInjective(keys')
    <3>1. middle \notin Rest /\ ~InsertsTwice
      BY <1>1, <2>3 DEF Rest
    <3> QED BY <1>2, <1>6, <1>7, <3>1
  <2>4. Cardinality(DOMAIN values') <= Len(at')
    <3>1. Len(at) \in Nat /\ at' = at
      BY <1>1 DEF ClustersInv, LoopInv
    <3> QED BY <1>2, <1>8, <1>9, <3>1
  <2>5. pass' = "second"
    BY <1>1, <1>2
  <2> QED BY <1>7, <1>8, <1>9, <2>1, <2>2, <2>3, <2>4, <2>5 DEF DictInv
<1>12. LoopInv'
  <2>1. i' \in 0..Atms
    BY <1>1, <1>2, AtmsAssumption DEF ClustersInv, LoopInv
  <2>2. ASSUME Count(keys, values)' # -1 PROVE index' < Len(keys')
    <3>1. Len(keys') = Cardinality(DOMAIN values')
      BY <2>2 DEF Count
    <3>2. Len(keys') <= Len(keys) - 1
      BY <1>8, <1>9, <3>1
    <3>3. ~InsertsTwice
      BY <1>2, <1>6, <1>7, <3>2
    <3> QED BY <1>1, <1>2, <1>6, <1>7, <3>3
  <2>3. collided' \in BOOLEAN
    BY <1>1 DEF ClustersInv, LoopInv
  <2>4. reinserted' \in BOOLEAN
    BY <1>1 DEF ClustersInv, LoopInv
  <2>5. bound' = bound /\ index' = index /\ pass' = "second" /\ UNCHANGED <<at, location, zoom, distance>>
    BY <1>1, <1>2 DEF mapVars
  <2> QED BY <1>2, <2>1, <2>2, <2>3, <2>4, <2>5 DEF ClustersInv, LoopInv
<1>13. Grouped' = Grouped
  BY <1>1, <1>2 DEF Grouped
<1>14. AtmsInv'
  <2>1. ASSUME NEW y \in DOMAIN values', NEW n \in DOMAIN values'[y]
        PROVE  values'[y][n] \in Grouped'
    <3>1. CASE y = middle
      <4>1. values'[y] = A \o B
        BY <1>4, <3>1
      <4>2. \/ n \in DOMAIN A /\ (A \o B)[n] = A[n]
            \/ n - Len(A) \in DOMAIN B /\ (A \o B)[n] = B[n - Len(A)]
        BY <1>5, <4>1, ConcatAtms
      <4>3. /\ \A m \in DOMAIN A : A[m] \in Grouped
            /\ \A m \in DOMAIN B : B[m] \in Grouped
        BY <1>2 DEF ClustersInv, AtmsInv, A, B
      <4> QED BY <1>13, <4>1, <4>2, <4>3
    <3>2. CASE y # middle
      <4>1. y \in DOMAIN values /\ values'[y] = values[y]
        BY <1>2, <1>4, <3>2
      <4> QED BY <1>13, <4>1 DEF ClustersInv, AtmsInv
    <3> QED BY <3>1, <3>2
  <2>2. ASSUME ~collided', NEW b \in Grouped'
        PROVE  \E y \in DOMAIN values' : \E n \in DOMAIN values'[y] :
                  /\ values'[y][n] = b
                  /\ \A z \in DOMAIN values' : \A m \in DOMAIN values'[z] :
                        values'[z][m] = b => z = y /\ m = n
    <3>1. ~collided /\ middle \notin Rest
      BY <1>1, <2>2 DEF Rest
    <3> DEFINE C == A \o B
    <3>2. /\ \A m \in DOMAIN C : \/ m \in DOMAIN A /\ C[m] = A[m]
                                 \/ m - Len(A) \in DOMAIN B /\ C[m] = B[m - Len(A)]
          /\ \A m \in DOMAIN A : m \in DOMAIN C /\ C[m] = A[m]
          /\ \A m \in DOMAIN B : Len(A) + m \in DOMAIN C /\ C[Len(A) + m] = B[m]
          /\ Len(A) \in Nat
          /\ \A m \in DOMAIN C : m \in Nat
          /\ \A m \in DOMAIN B : m \in Nat
      BY <1>5, <1>10, ConcatAtms
    <3>3. /\ DOMAIN values' = Rest \cup {middle} /\ values'[middle] = C
          /\ \A y \in Rest : /\ y # middle /\ y # p /\ y # q
                             /\ y \in DOMAIN values /\ values'[y] = values[y]
      BY <1>2, <1>4, <3>1
    <3> HIDE DEF C
    <3>4. A = values[p] /\ B = values[q]
      BY DEF A, B
    <3>5. PICK y \in DOMAIN values : \E n \in DOMAIN values[y] :
              /\ values[y][n] = b
              /\ \A z \in DOMAIN values : \A m \in DOMAIN values[z] :
                    values[z][m] = b => z = y /\ m = n
      BY <1>13, <3>1 DEF ClustersInv, AtmsInv
    <3>6. PICK n \in DOMAIN values[y] :
              /\ values[y][n] = b
              /\ \A z \in DOMAIN values : \A m \in DOMAIN values[z] :
                    values[z][m] = b => z = y /\ m = n
      BY <3>5
    <3>7. CASE y = p
      <4>1. n \in DOMAIN C /\ C[n] = b
        BY <3>2, <3>4, <3>6, <3>7
      <4>2. \A m \in DOMAIN C : C[m] = b => m = n
        BY <1>2, <3>2, <3>4, <3>6, <3>7
      <4>3. \A z \in Rest : \A m \in DOMAIN values'[z] : values'[z][m] # b
        BY <3>3, <3>6, <3>7
      <4> QED BY <3>3, <4>1, <4>2, <4>3
    <3>8. CASE y = q
      <4>1. Len(A) + n \in DOMAIN C /\ C[Len(A) + n] = b
        BY <3>2, <3>4, <3>6, <3>8
      <4>2. ASSUME NEW m \in DOMAIN C, C[m] = b PROVE m = Len(A) + n
        <5>1. ~(m \in DOMAIN A /\ C[m] = A[m])
          BY <1>2, <3>4, <3>6, <3>8, <4>2
        <5>2. m - Len(A) \in DOMAIN B /\ C[m] = B[m - Len(A)]
          BY <3>2, <5>1
        <5>3. m - Len(A) = n
          BY <1>2, <3>4, <3>6, <4>2, <5>2
        <5>4. m \in Nat /\ Len(A) \in Nat /\ n \in Nat
          BY <3>2, <3>4, <3>8
        <5> QED BY <5>3, <5>4
      <4>3. \A z \in Rest : \A m \in DOMAIN values'[z] : values'[z][m] # b
        BY <3>3, <3>6, <3>8
      <4> QED BY <3>3, <4>1, <4>2, <4>3
    <3>9. CASE y # p /\ y # q
      <4>1. y \in Rest
        BY <1>2, <3>9
      <4>2. \A m \in DOMAIN C : C[m] # b
        BY <1>2, <3>2, <3>4, <3>6, <3>9
      <4>3. n \in DOMAIN values'[y] /\ values'[y][n] = b
        BY <3>3, <3>6, <4>1
      <4>4. ASSUME NEW z \in DOMAIN values', NEW m \in DOMAIN values'[z], values'[z][m] = b
            PROVE  z = y /\ m = n
        BY <3>3, <3>6, <4>2, <4>4
      <4> QED BY <3>3, <4>1, <4>3, <4>4
    <3> QED BY <3>7, <3>8, <3>9
  <2> QED BY <2>1, <2>2 DEF AtmsInv
<1>15. MapInv'
  BY <1>1, <1>2, MapWaits DEF ClustersInv
<1>16. LoneInv'
  <2>1. ASSUME NEW y \in DOMAIN values'
        PROVE  Len(values'[y]) # 0 /\ (Len(values'[y]) = 1 => \E b \in DOMAIN at' : at'[b] = y)
    <3>1. CASE y = middle
      <4>1. values'[y] = A \o B
        BY <1>4, <3>1
      <4>2. Len(A) \in Nat \ {0} /\ Len(B) \in Nat \ {0}
        BY <1>2, <1>5 DEF ClustersInv, LoneInv, A, B
      <4>3. Len(A \o B) = Len(A) + Len(B)
        BY <1>5
      <4> QED BY <4>1, <4>2, <4>3
    <3>2. CASE y # middle
      <4>1. y \in DOMAIN values /\ values'[y] = values[y]
        BY <1>2, <1>4, <3>2
      <4> QED BY <1>1, <4>1 DEF ClustersInv, LoneInv
    <3> QED BY <3>1, <3>2
  <2> QED BY <2>1 DEF LoneInv
<1> QED BY <1>11, <1>12, <1>14, <1>15, <1>16 DEF ClustersInv

-----------------------------------------------------------------------------
\* Every step keeps the invariant.
LEMMA ClustersStepHolds == ClustersInv /\ [ClustersNext]_clustersVars => ClustersInv'
<1> SUFFICES ASSUME ClustersInv, [ClustersNext]_clustersVars PROVE ClustersInv'
  OBVIOUS
<1>1. CASE UNCHANGED clustersVars
  BY <1>1 DEF clustersVars, dictVars, loopVars, historyVars, mapVars, mapHistoryVars,
              ClustersInv, DictInv, LoopInv, AtmsInv, LoneInv, MapInv, InRound, Count,
              Grouped, Groups
<1> QED
  BY <1>1, ChangeZoomStep, ReloadMapStep, SetAtmsOnMapStep, NewPlaceStep, JoinPlaceStep,
     EndFirstPassStep, BeginRoundStep, EndSecondPassStep, EndRoundStep, PassStep,
     JoinPlacesStep DEF ClustersNext

\* The inductive invariant of the clustering and of its map.
THEOREM ClustersInvariant == ClustersSpec => []ClustersInv
BY ClustersInitHolds, ClustersStepHolds, PTL DEF ClustersSpec

\* No index of the second pass is out of range, although it removes keys from
\* under its loops (AtmsMapPresenter.swift:99-137).
THEOREM IndexesInRange == ClustersSpec => []NeverOutOfRange
<1>1. ClustersInv => NeverOutOfRange
  <2> SUFFICES ASSUME ClustersInv PROVE NeverOutOfRange
    OBVIOUS
  <2>1. ClustersTypeOK
    BY DEF ClustersTypeOK, ClustersInv, DictInv, LoopInv, MapInv
  <2>2. ASSUME Joining
        PROVE  /\ index < Len(keys)
               /\ {keys[i + 1], keys[index + 1]} \subseteq DOMAIN values
               /\ index <= Len(RestKeysWith(location))
    <3>1. location \in Coordinate
      BY DEF ClustersInv, LoopInv
    <3>2. index \in 0..Len(RestKeysWith(location)) /\ RestKeysWith(location) \in Seq(Coordinate)
      BY <2>2, <3>1, RestKeysWithPlace
    <3> QED BY <2>2, <3>2, JoiningPlaces
  <2> QED BY <2>1, <2>2 DEF NeverOutOfRange
<1> QED BY <1>1, ClustersInvariant, PTL

\* Each ATM is grouped at one place, once, unless a mid-point was the key of
\* another place (AtmsMapPresenter.swift:61-86, 110-135).
THEOREM EachAtmIsGroupedOnce == ClustersSpec => []EachAtmOnceUnlessCollided
<1>1. ClustersInv => EachAtmOnceUnlessCollided
  <2> SUFFICES ASSUME ClustersInv, ~collided, NEW a \in Grouped
               PROVE  \E x \in DOMAIN values :
                         /\ \E n \in DOMAIN values[x] :
                               {m \in DOMAIN values[x] : values[x][m] = a} = {n}
                         /\ \A y \in DOMAIN values \ {x} : a \notin Range(values[y])
    BY DEF EachAtmOnceUnlessCollided
  <2>1. PICK x \in DOMAIN values : \E n \in DOMAIN values[x] :
            /\ values[x][n] = a
            /\ \A y \in DOMAIN values : \A m \in DOMAIN values[y] :
                  values[y][m] = a => y = x /\ m = n
    BY DEF ClustersInv, AtmsInv
  <2>2. PICK n \in DOMAIN values[x] :
            /\ values[x][n] = a
            /\ \A y \in DOMAIN values : \A m \in DOMAIN values[y] :
                  values[y][m] = a => y = x /\ m = n
    BY <2>1
  <2>3. {m \in DOMAIN values[x] : values[x][m] = a} = {n}
    BY <2>2
  <2>4. \A y \in DOMAIN values \ {x} : a \notin Range(values[y])
    BY <2>2 DEF Range
  <2> QED BY <2>3, <2>4
<1> QED BY <1>1, ClustersInvariant, PTL

\* The keys are those of the values, and as many unless places met or one was
\* inserted twice (OrderedDictionary.swift:20-71).
THEOREM KeysAreThose == ClustersSpec => []KeysAreThoseOfValues
<1>1. ClustersInv => KeysAreThoseOfValues
  <2> SUFFICES ASSUME ClustersInv PROVE KeysAreThoseOfValues
    OBVIOUS
  <2>1. Range(keys) = DOMAIN values /\ keys \in Seq(Coordinate)
    BY DEF ClustersInv, DictInv
  <2>2. ~collided /\ ~reinserted => IsInjective(keys)
    BY DEF ClustersInv, DictInv
  <2> QED BY <2>1, <2>2, CountOfKeys DEF KeysAreThoseOfValues
<1> QED BY <1>1, ClustersInvariant, PTL

\* An ATM grouped with no other is found where its group is, so that no marker
\* is left out (AtmsMapVC.swift:138-149).
THEOREM LoneAtmsAreFound == ClustersSpec => []LoneAtmIsFound
<1>1. ClustersInv => LoneAtmIsFound
  BY DEF ClustersInv, LoneInv, LoneAtmIsFound
<1> QED BY <1>1, ClustersInvariant, PTL

\* In the end each group has a marker; a marker outlives its grouping only after
\* a reload, and is there twice only then or if a block was overtaken by a
\* change of the zoom (AtmsMapVC.swift:122-217).
THEOREM MapShowsGrouping == ClustersSpec => []MapShowsGroupingUnlessRedrawn
<1>1. ClustersInv => MapShowsGroupingUnlessRedrawn
  BY DEF ClustersInv, MapInv, MapShowsGroupingUnlessRedrawn
<1> QED BY <1>1, ClustersInvariant, PTL
=============================================================================
