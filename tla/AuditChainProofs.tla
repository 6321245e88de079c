-------------------------- MODULE AuditChainProofs --------------------------
(***************************************************************************)
(* For any number of pruning tasks, any retention window, any wall clock   *)
(* and any schedule of appends, prunes, re-anchors and kills, a chain that *)
(* starts in the format its stamp says keeps verifying, and the watcher    *)
(* that walks it raises no false alarm.  From any database, while nobody   *)
(* sets the clock back, it implements the abstract log, never deletes more *)
(* rows than it counts and keeps no trace                                  *)
(* of a row that is gone.  From the databases of earlier releases, a       *)
(* process that opens it, one at a time, leaves it verifying.              *)
(***************************************************************************)
EXTENDS AuditBoot, FiniteSetTheorems, WellFoundedInduction, TLAPS

-----------------------------------------------------------------------------
(* Sets of row ids *)

\* Among the ids below i there is a largest one.
LEMMA Predecessor ==
    ASSUME NEW S, S \subseteq Nat, NEW i \in Nat, NEW a \in S, a < i
    PROVE  \E p \in S : p < i /\ \A k \in S : k < i => k <= p
<1> DEFINE T == {i - j : j \in {j \in S : j < i}}
<1> DEFINE R == OpToRel(<, Nat)
<1>1. T \subseteq Nat /\ T # {}
  OBVIOUS
<1>2. IsWellFoundedOn(R, Nat)
  BY NatLessThanWellFounded
<1>3. PICK x \in T : \A y \in T : ~ (<<y, x>> \in R)
  <2> HIDE DEF T, R
  <2> QED BY <1>1, <1>2, WFMin
<1>4. ASSUME NEW y \in T PROVE x <= y
  <2>1. y \in Nat /\ x \in Nat
    BY <1>1, <1>3
  <2>2. y < x => <<y, x>> \in R
    BY <2>1 DEF OpToRel
  <2> HIDE DEF T, R
  <2> QED BY <1>3, <2>1, <2>2
<1>5. PICK p \in {j \in S : j < i} : x = i - p
  BY <1>3
<1>6. ASSUME NEW k \in S, k < i PROVE k <= p
  <2>1. i - k \in T
    BY <1>6
  <2>2. i - p <= i - k
    BY <1>4, <1>5, <2>1
  <2> HIDE DEF T
  <2> QED BY <1>5, <2>2
<1> QED BY <1>5, <1>6

-----------------------------------------------------------------------------
(* Tables *)

\* The re-link of any subset of a table is a table, and its links are sound:
\* the walk of verify_chain passes over what the prune and the re-anchor write.
LEMMA RelinkTable ==
    ASSUME NEW s \in Schemes, NEW t, IsTable(t), NEW S, S \subseteq DOMAIN t
    PROVE  /\ IsTable(Relink(s, t, S))
           /\ DOMAIN Relink(s, t, S) = S
           /\ \A i \in S : /\ Relink(s, t, S)[i].ts = t[i].ts
                           /\ Relink(s, t, S)[i].kind = t[i].kind
<1> DEFINE new(i) == IF Origin(t, S, i)
                       THEN NULL
                       ELSE {<<s, j>> : j \in {j \in S :
                                /\ j < i
                                /\ \A k \in S : j < k /\ k < i => ~ Origin(t, S, k)}}
<1>1. \A i \in S : new(i) \in Hash
  <2> TAKE i \in S
  <2>1. {<<s, j>> : j \in {j \in S :
              /\ j < i
              /\ \A k \in S : j < k /\ k < i => ~ Origin(t, S, k)}} \subseteq Schemes \X Nat
    BY DEF IsTable
  <2> QED BY <2>1 DEF Hash, NULL
<1>2. Relink(s, t, S) = [i \in S |-> [t[i] EXCEPT !.prev = new(i)]]
  BY DEF Relink
<1> HIDE DEF new
<1>3. \A i \in S : /\ [t[i] EXCEPT !.prev = new(i)] \in Row
                   /\ [t[i] EXCEPT !.prev = new(i)].ts = t[i].ts
                   /\ [t[i] EXCEPT !.prev = new(i)].kind = t[i].kind
  <2>1. ASSUME NEW row \in Row, NEW h \in Hash
        PROVE  /\ [row EXCEPT !.prev = h] \in Row
               /\ [row EXCEPT !.prev = h].ts = row.ts /\ [row EXCEPT !.prev = h].kind = row.kind
    BY DEF Row
  <2>2. \A i \in S : t[i] \in Row
    BY DEF IsTable
  <2> QED
    BY <1>1, <2>1, <2>2
<1>4. S \subseteq Nat
  BY DEF IsTable
<1> DEFINE u == [i \in S |-> [t[i] EXCEPT !.prev = new(i)]]
<1>5. DOMAIN u = S /\ \A i \in S : u[i] = [t[i] EXCEPT !.prev = new(i)]
  OBVIOUS
<1>6. IsTable(u)
  BY <1>3, <1>4 DEF IsTable
<1> HIDE DEF u
<1>7. IsTable(u) /\ DOMAIN u = S /\ \A i \in S : u[i].ts = t[i].ts /\ u[i].kind = t[i].kind
  BY <1>3, <1>5, <1>6
<1>8. Relink(s, t, S) = u
  BY <1>2 DEF u
<1> QED BY <1>7, <1>8

\* The back-reference the re-link gives a row, spelled out.
LEMMA RelinkPrev ==
    ASSUME NEW s \in Schemes, NEW t, IsTable(t), NEW S, S \subseteq DOMAIN t, NEW i \in S
    PROVE  Relink(s, t, S)[i].prev =
             IF Origin(t, S, i)
               THEN NULL
               ELSE {<<s, j>> : j \in {j \in S :
                        /\ j < i
                        /\ \A k \in S : j < k /\ k < i => ~ Origin(t, S, k)}}
BY DEF Relink, IsTable, Row

\* The links the re-link writes pass the walk of verify_chain, and rows
\* without a back-reference still come first.
LEMMA RelinkWalk ==
    ASSUME NEW s \in Schemes, NEW t, IsTable(t), NullPrefix(t),
           NEW S, S \subseteq DOMAIN t
    PROVE  /\ Walk(s, Relink(s, t, S))
           /\ NullPrefix(Relink(s, t, S))
<1> DEFINE u == Relink(s, t, S)
<1>1. DOMAIN u = S /\ S \subseteq Nat
  BY RelinkTable DEF IsTable
<1>2. ASSUME NEW p \in S, NEW i \in S, p < i, Origin(t, S, i)
      PROVE  Origin(t, S, p)
  BY <1>1, <1>2 DEF Origin, NullPrefix
<1>3. ASSUME NEW p \in S, NEW i \in S, Adjacent(S, p, i), ~ Origin(t, S, i)
      PROVE  u[i].prev # NULL /\ u[i].prev = Link(s, p, u[p].prev)
  <2> DEFINE before(x) == {j \in S : /\ j < x
                                     /\ \A k \in S : j < k /\ k < x => ~ Origin(t, S, k)}
  <2>1. u[i].prev = {<<s, j>> : j \in before(i)}
    BY <1>3, RelinkPrev
  <2>2. CASE Origin(t, S, p)
    <3>1. before(i) = {p}
      BY <1>1, <1>3, <2>2 DEF Adjacent
    <3>2. u[p].prev = NULL
      BY <2>2, RelinkPrev
    <3> QED BY <2>1, <3>1, <3>2 DEF Link, NULL
  <2>3. CASE ~ Origin(t, S, p)
    <3>1. before(i) = before(p) \cup {p}
      BY <1>1, <1>3, <2>3 DEF Adjacent
    <3>2. u[p].prev = {<<s, j>> : j \in before(p)}
      BY <2>3, RelinkPrev
    <3> HIDE DEF before
    <3> QED BY <2>1, <3>1, <3>2 DEF Link, NULL
  <2> QED BY <2>2, <2>3
<1>4. \A i \in S : Origin(t, S, i) => u[i].prev = NULL
  BY RelinkPrev
<1>5. \A i \in S : u[i].prev = NULL => Origin(t, S, i)
  <2> SUFFICES ASSUME NEW i \in S, ~ Origin(t, S, i), u[i].prev = NULL
               PROVE  FALSE
    OBVIOUS
  <2> DEFINE before == {j \in S : /\ j < i
                                  /\ \A k \in S : j < k /\ k < i => ~ Origin(t, S, k)}
  <2>1. u[i].prev = {<<s, j>> : j \in before}
    BY RelinkPrev
  <2>2. PICK a \in S : a < i
    BY <1>1 DEF Origin
  <2>3. PICK m \in S : m < i /\ \A k \in S : k < i => k <= m
    BY <1>1, <2>2, Predecessor
  <2>4. m \in before
    BY <1>1, <2>3
  <2> HIDE DEF before
  <2> QED BY <2>1, <2>4 DEF NULL
<1> HIDE DEF u
<1>6. NullPrefix(u)
  BY <1>1, <1>2, <1>4, <1>5 DEF NullPrefix
<1>7. Walk(s, u)
  <2> SUFFICES ASSUME NEW p \in S, NEW i \in S, Adjacent(S, p, i)
               PROVE  IF u[i].prev = NULL THEN u[p].prev = NULL
                                          ELSE u[i].prev = Link(s, p, u[p].prev)
    BY <1>1 DEF Walk
  <2> QED BY <1>2, <1>3, <1>4, <1>5 DEF Adjacent
<1> QED BY <1>6, <1>7 DEF u

\* A pin of a row of a table is a pin, and never the absent one.
LEMMA PinForType ==
    ASSUME NEW s \in Schemes, NEW t, IsTable(t), NEW i \in DOMAIN t
    PROVE  /\ PinFor(s, t, i) \in Pin
           /\ PinFor(s, t, i) # NoPin
           /\ PinFor(s, t, i).id = i
           /\ PinFor(s, t, i).hash = Link(s, i, t[i].prev)
           /\ PinFor(s, t, i).mac <=> s = "hmac256"
<1>1. Link(s, i, t[i].prev) \in Hash
  BY DEF IsTable, Row, Hash, Link
<1>2. Link(s, i, t[i].prev) # NULL
  BY DEF Link, NULL
<1> QED BY <1>1, <1>2 DEF PinFor, Pin, NoPin, IsTable

\* refresh_head_pin writes pins.
LEMMA RefreshType ==
    ASSUME NEW s \in Schemes, NEW t, IsTable(t), RefreshPins(s, t)
    PROVE  /\ head' \in Pin /\ genesis' \in Pin
           /\ PinsExact(s, t, head', genesis')
<1>1. CASE DOMAIN t = {} /\ head' = NoPin /\ genesis' = NoPin
  BY <1>1 DEF Pin, NoPin, Hash, NULL, PinsExact
<1>2. CASE \E tip, first \in DOMAIN t :
             /\ IsTip(t, tip)
             /\ IsFirst(t, first)
             /\ head' = PinFor(s, t, tip)
             /\ genesis' = PinFor(s, t, first)
  BY <1>2, PinForType DEF PinsExact
<1> QED BY <1>1, <1>2 DEF RefreshPins

-----------------------------------------------------------------------------
(* Appending a row *)

\* What an append does to the table, whatever scheme it finds.
LEMMA AppendEffect ==
    ASSUME TypeOK, NEW kind \in Kinds, Append(kind)
    PROVE  \E s \in Schemes, p \in Hash :
             /\ s = IF epoch = Unstamped /\ DOMAIN rows = {} THEN "sha7"
                                                            ELSE read_epoch(epoch)
             /\ epoch' = (IF epoch = Unstamped /\ DOMAIN rows = {} THEN "sha7" ELSE epoch)
             /\ rows' = [i \in DOMAIN rows \cup {nextId} |->
                            IF i = nextId THEN [ts |-> now, kind |-> kind, prev |-> p]
                                          ELSE rows[i]]
             /\ nextId' = nextId + 1
             /\ head' = PinFor(s, rows', nextId)
             /\ \/ DOMAIN rows = {} /\ p = NULL /\ genesis' = PinFor(s, rows', nextId)
                \/ /\ \E tip \in DOMAIN rows :
                        IsTip(rows, tip) /\ p = Link(s, tip, rows[tip].prev)
                   /\ genesis' = genesis
<1> DEFINE s == IF epoch = Unstamped /\ DOMAIN rows = {} THEN "sha7" ELSE read_epoch(epoch)
<1>1. s \in Schemes
  BY DEF TypeOK, read_epoch, Schemes, Unstamped
<1>2. \A tip \in DOMAIN rows : Link(s, tip, rows[tip].prev) \in Hash
  BY <1>1 DEF TypeOK, IsTable, Row, Hash, Link
<1>3. NULL \in Hash
  BY DEF NULL, Hash
<1> HIDE DEF s
<1> QED BY <1>1, <1>2, <1>3 DEF Append, s

\* The table after an append, as a table.
LEMMA AppendTable ==
    ASSUME TypeOK, NEW kind \in Kinds, Append(kind)
    PROVE  /\ IsTable(rows')
           /\ DOMAIN rows' = DOMAIN rows \cup {nextId}
           /\ \A i \in DOMAIN rows : i < nextId /\ i \in Nat /\ rows'[i] = rows[i]
           /\ nextId' = nextId + 1
           /\ nextId' \in Nat \ {0} /\ DOMAIN rows' \subseteq 1 .. (nextId' - 1)
           /\ epoch' \in Schemes \cup {Unstamped}
           /\ head' \in Pin /\ genesis' \in Pin
<1>1. PICK s \in Schemes, p \in Hash :
        /\ epoch' = (IF epoch = Unstamped /\ DOMAIN rows = {} THEN "sha7" ELSE epoch)
        /\ rows' = [i \in DOMAIN rows \cup {nextId} |->
                       IF i = nextId THEN [ts |-> now, kind |-> kind, prev |-> p]
                                     ELSE rows[i]]
        /\ nextId' = nextId + 1
        /\ head' = PinFor(s, rows', nextId)
        /\ genesis' = PinFor(s, rows', nextId) \/ genesis' = genesis
  BY AppendEffect
<1>2. DOMAIN rows' = DOMAIN rows \cup {nextId}
  BY <1>1
<1>3. \A i \in DOMAIN rows : i < nextId /\ i \in Nat /\ i # nextId
  BY DEF TypeOK, IsTable
<1>4. \A i \in DOMAIN rows : rows'[i] = rows[i]
  BY <1>1, <1>3
<1>5. IsTable(rows')
  <2>1. [ts |-> now, kind |-> kind, prev |-> p] \in Row
    BY <1>1 DEF TypeOK, Row
  <2>2. \A i \in DOMAIN rows : rows[i] \in Row
    BY DEF TypeOK, IsTable
  <2>3. \A i \in DOMAIN rows' : i \in Nat /\ rows'[i] \in Row
    BY <1>1, <1>2, <1>3, <2>1, <2>2 DEF TypeOK
  <2> QED BY <1>1, <2>3 DEF IsTable
<1>6. nextId' \in Nat \ {0} /\ DOMAIN rows' \subseteq 1 .. (nextId' - 1)
  BY <1>1, <1>2 DEF TypeOK
<1>7. head' \in Pin /\ genesis' \in Pin
  BY <1>1, <1>2, <1>5, PinForType DEF TypeOK
<1>8. epoch' \in Schemes \cup {Unstamped}
  BY <1>1 DEF TypeOK, Schemes
<1> QED BY <1>1, <1>2, <1>3, <1>4, <1>5, <1>6, <1>7, <1>8

\* An append to a chain whose links are in the format of its stamp leaves one,
\* whatever its pins; the pins it writes are those of the new extent.
LEMMA AppendLinks ==
    ASSUME TypeOK, NEW kind \in Kinds, Append(kind),
           NullPrefix(rows), Walk(read_epoch(epoch), rows)
    PROVE  /\ NullPrefix(rows') /\ Walk(read_epoch(epoch'), rows')
           /\ head' = PinFor(read_epoch(epoch'), rows', nextId) /\ IsTip(rows', nextId)
           /\ \/ /\ DOMAIN rows = {}
                 /\ genesis' = PinFor(read_epoch(epoch'), rows', nextId)
                 /\ IsFirst(rows', nextId)
              \/ /\ DOMAIN rows # {} /\ genesis' = genesis /\ epoch' = epoch
                 /\ \A i : IsFirst(rows, i) => IsFirst(rows', i)
<1>1. PICK s \in Schemes, p \in Hash :
        /\ s = IF epoch = Unstamped /\ DOMAIN rows = {} THEN "sha7" ELSE read_epoch(epoch)
        /\ epoch' = (IF epoch = Unstamped /\ DOMAIN rows = {} THEN "sha7" ELSE epoch)
        /\ rows' = [i \in DOMAIN rows \cup {nextId} |->
                       IF i = nextId THEN [ts |-> now, kind |-> kind, prev |-> p]
                                     ELSE rows[i]]
        /\ head' = PinFor(s, rows', nextId)
        /\ \/ DOMAIN rows = {} /\ p = NULL /\ genesis' = PinFor(s, rows', nextId)
           \/ /\ \E tip \in DOMAIN rows :
                   IsTip(rows, tip) /\ p = Link(s, tip, rows[tip].prev)
              /\ genesis' = genesis
  BY AppendEffect
<1>2. /\ IsTable(rows')
      /\ DOMAIN rows' = DOMAIN rows \cup {nextId}
      /\ \A i \in DOMAIN rows : i < nextId /\ i \in Nat /\ rows'[i] = rows[i]
  BY AppendTable
<1>3. read_epoch(epoch') = s
  BY <1>1 DEF read_epoch, Unstamped
<1>4. rows'[nextId].prev = p
  BY <1>1
<1>5. nextId \in Nat
  BY DEF TypeOK
<1>6. head' = PinFor(read_epoch(epoch'), rows', nextId) /\ IsTip(rows', nextId)
  BY <1>1, <1>2, <1>3, <1>5 DEF IsTip
<1>7. CASE DOMAIN rows = {} /\ p = NULL /\ genesis' = PinFor(s, rows', nextId)
  <2>1. DOMAIN rows' = {nextId}
    BY <1>2, <1>7
  <2>2. NullPrefix(rows') /\ Walk(s, rows')
    BY <1>5, <2>1 DEF NullPrefix, Walk, Adjacent
  <2>3. IsFirst(rows', nextId)
    BY <1>5, <2>1 DEF IsFirst
  <2> QED BY <1>3, <1>6, <1>7, <2>2, <2>3
<1>8. CASE /\ \E tip \in DOMAIN rows :
                IsTip(rows, tip) /\ p = Link(s, tip, rows[tip].prev)
           /\ genesis' = genesis
  <2>1. PICK tip \in DOMAIN rows : IsTip(rows, tip) /\ p = Link(s, tip, rows[tip].prev)
    BY <1>8
  <2>2. epoch' = epoch /\ read_epoch(epoch) = s
    BY <1>1, <2>1
  <2>3. p # NULL
    BY <2>1 DEF Link, NULL
  <2>4. NullPrefix(rows')
    <3> SUFFICES ASSUME NEW a \in DOMAIN rows', NEW b \in DOMAIN rows', a < b,
                        rows'[b].prev = NULL
                 PROVE  rows'[a].prev = NULL
      BY DEF NullPrefix
    <3>1. b \in DOMAIN rows
      BY <1>2, <1>4, <2>3
    <3>2. a \in DOMAIN rows
      BY <1>2, <1>5, <3>1
    <3> QED BY <1>2, <3>1, <3>2 DEF NullPrefix
  <2>5. Walk(s, rows')
    <3> SUFFICES ASSUME NEW a \in DOMAIN rows', NEW b \in DOMAIN rows',
                        Adjacent(DOMAIN rows', a, b)
                 PROVE  IF rows'[b].prev = NULL
                          THEN rows'[a].prev = NULL
                          ELSE rows'[b].prev = Link(s, a, rows'[a].prev)
      BY DEF Walk
    <3>1. a \in DOMAIN rows
      BY <1>2, <1>5 DEF Adjacent
    <3>2. CASE b = nextId
      <4>1. a = tip
        BY <1>2, <1>5, <2>1, <3>1, <3>2 DEF Adjacent, IsTip
      <4> QED BY <1>2, <1>4, <2>1, <2>3, <3>2, <4>1
    <3>3. CASE b # nextId
      <4>1. b \in DOMAIN rows /\ Adjacent(DOMAIN rows, a, b)
        BY <1>2, <3>1, <3>3 DEF Adjacent
      <4> QED BY <1>2, <2>2, <3>1, <4>1 DEF Walk
    <3> QED BY <3>2, <3>3
  <2>6. \A i : IsFirst(rows, i) => IsFirst(rows', i)
    BY <1>2, <1>5 DEF IsFirst
  <2> QED BY <1>3, <1>6, <1>8, <2>1, <2>2, <2>4, <2>5, <2>6
<1> QED BY <1>1, <1>7, <1>8

\* An append to a sound chain leaves a sound chain, and never changes the
\* stamp of a stamped one.
LEMMA AppendSound ==
    ASSUME TypeOK, NEW kind \in Kinds, Append(kind), SoundDb(epoch, rows, head, genesis)
    PROVE  /\ SoundDb(epoch', rows', head', genesis')
           /\ epoch' # Unstamped
           /\ epoch # Unstamped => epoch' = epoch
<1>1. epoch' = (IF epoch = Unstamped /\ DOMAIN rows = {} THEN "sha7" ELSE epoch)
  BY AppendEffect
<1>2. /\ IsTable(rows')
      /\ DOMAIN rows' = DOMAIN rows \cup {nextId}
      /\ \A i \in DOMAIN rows : rows'[i] = rows[i]
  BY AppendTable
<1>3. epoch' # Unstamped /\ read_epoch(epoch') = epoch'
  BY <1>1 DEF SoundDb, read_epoch, Unstamped
<1>4. /\ NullPrefix(rows') /\ Walk(epoch', rows')
      /\ head' = PinFor(epoch', rows', nextId) /\ IsTip(rows', nextId)
      /\ \/ /\ DOMAIN rows = {}
            /\ genesis' = PinFor(epoch', rows', nextId)
            /\ IsFirst(rows', nextId)
         \/ /\ DOMAIN rows # {} /\ genesis' = genesis /\ epoch' = epoch
            /\ \A i : IsFirst(rows, i) => IsFirst(rows', i)
  BY <1>3, AppendLinks DEF SoundDb
<1>5. PinsExact(epoch', rows', head', genesis')
  <2>1. CASE genesis' = PinFor(epoch', rows', nextId) /\ IsFirst(rows', nextId)
    BY <1>2, <1>4, <2>1 DEF PinsExact
  <2>2. CASE /\ DOMAIN rows # {} /\ genesis' = genesis /\ epoch' = epoch
             /\ \A i : IsFirst(rows, i) => IsFirst(rows', i)
    <3>1. PICK first \in DOMAIN rows :
            IsFirst(rows, first) /\ genesis = PinFor(epoch, rows, first)
      BY <2>2 DEF SoundDb, PinsExact
    <3>2. PinFor(epoch', rows', first) = PinFor(epoch, rows, first)
      BY <1>2, <2>2, <3>1 DEF PinFor
    <3> QED BY <1>2, <1>4, <2>2, <3>1, <3>2 DEF PinsExact
  <2> QED BY <1>4, <2>1, <2>2
<1> QED BY <1>1, <1>3, <1>4, <1>5 DEF SoundDb

-----------------------------------------------------------------------------
(* Type correctness *)

\* A task that is idle has the type of a task.
LEMMA IdleType ==
    Idle \in [pc : {"idle", "counted", "schemed", "verified", "committed"},
              cutoff : Int, expired : Nat, scheme : Schemes]
BY DEF Idle, Schemes

\* The COUNT of expired rows is a natural number: the table is finite.
LEMMA ExpiredFinite ==
    ASSUME TypeOK, NEW c
    PROVE  IsFiniteSet(Expired(rows, c)) /\ Cardinality(Expired(rows, c)) \in Nat
<1>0. 1 \in Int /\ nextId - 1 \in Int
  BY DEF TypeOK
<1>1. IsFiniteSet(1 .. (nextId - 1))
  BY <1>0, FS_Interval
<1>2. Expired(rows, c) \subseteq 1 .. (nextId - 1)
  BY DEF TypeOK, Expired
<1> QED BY <1>1, <1>2, FS_Subset, FS_CardinalityType

\* The table without rows is a table.
LEMMA EmptyTable == IsTable(Empty)
<1>1. DOMAIN Empty = {} /\ Empty = [i \in DOMAIN Empty |-> Empty[i]]
  BY DEF Empty
<1> QED BY <1>1 DEF IsTable

\* A database in the format its stamp says is a database.
LEMMA StampedTyped == ASSUME StampedSeeds PROVE TypedSeeds
BY DEF StampedSeeds, StampedSeed, TypedSeeds

\* Every database of TypedSeeds is a well-typed start.
LEMMA InitType == ASSUME TypedSeeds, Init PROVE TypeOK
<1>1. PICK seed \in Seeds : InitFrom(seed)
  BY DEF Init
<1>2. /\ IsTable(rows) /\ nextId \in Nat \ {0} /\ DOMAIN rows \subseteq 1 .. (nextId - 1)
      /\ epoch \in Schemes \cup {Unstamped}
      /\ head \in Pin /\ genesis \in Pin
  BY <1>1 DEF TypedSeeds, TypedSeed, InitFrom
<1>3. task \in [Tasks -> [pc : {"idle", "counted", "schemed", "verified", "committed"},
                          cutoff : Int, expired : Nat, scheme : Schemes]]
  BY <1>1, IdleType DEF InitFrom
<1> QED BY <1>1, <1>2, <1>3, EmptyTable DEF TypeOK, InitFrom, NoReaudit

\* Every action, and every stuttering step, keeps the types.
LEMMA NextType == ASSUME TypeOK, [Next]_vars PROVE TypeOK'
<1> USE DEF TypeOK
<1> DEFINE TaskSet == [pc : {"idle", "counted", "schemed", "verified", "committed"},
                       cutoff : Int, expired : Nat, scheme : Schemes]
<1>1. CASE record_tenant
  <2>1. Append("event") /\ "event" \in Kinds
    BY <1>1 DEF record_tenant, Kinds
  <2>2. untraced' \subseteq 1 .. (nextId' - 1) /\ traces' \subseteq 1 .. (nextId' - 1)
    BY <1>1, <2>1, AppendTable DEF record_tenant
  <2> QED BY <1>1, <2>1, <2>2, AppendTable DEF record_tenant
<1>2. CASE record_read_event
  <2>1. Append("event") /\ "event" \in Kinds
    BY <1>2 DEF record_read_event, Kinds
  <2>2. nextId' = nextId + 1
    BY <2>1, AppendTable
  <2>3. untraced' \subseteq 1 .. (nextId' - 1) /\ traces' \subseteq 1 .. (nextId' - 1)
    BY <1>2, <2>2 DEF record_read_event
  <2> QED BY <1>2, <2>1, <2>3, AppendTable DEF record_read_event
<1>3. ASSUME NEW i \in untraced, InsertTrace(i) PROVE TypeOK'
  BY <1>3 DEF InsertTrace, db
<1>4. ASSUME NEW k \in Tasks, PruneCount(k) PROVE TypeOK'
  <2>1. now - Retention \in Int
    BY ConstantsAssumption
  <2>2. [pc |-> "counted", cutoff |-> now - Retention,
         expired |-> Cardinality(Expired(rows, now - Retention)),
         scheme |-> "legacy"] \in TaskSet
    BY <2>1, ExpiredFinite DEF Schemes
  <2> HIDE DEF TaskSet
  <2>3. task' \in [Tasks -> TaskSet]
    BY <1>4, <2>2 DEF PruneCount, TaskSet
  <2> QED BY <1>4, <2>3 DEF PruneCount, db, TaskSet
<1>5. ASSUME NEW k \in Tasks, PruneScheme(k) PROVE TypeOK'
  <2>1. read_epoch(epoch) \in Schemes
    BY DEF read_epoch, Schemes, Unstamped
  <2>2. task' \in [Tasks -> TaskSet]
    BY <1>5, <2>1, IdleType DEF PruneScheme
  <2> QED BY <1>5, <2>2 DEF PruneScheme, db
<1>6. ASSUME NEW k \in Tasks, PruneVerify(k) PROVE TypeOK'
  <2>1. task' \in [Tasks -> TaskSet]
    BY <1>6, IdleType DEF PruneVerify
  <2> QED BY <1>6, <2>1 DEF PruneVerify, db
<1>7. ASSUME NEW k \in Tasks, PruneTx(k) PROVE TypeOK'
  <2> DEFINE gone == Expired(rows, task[k].cutoff)
  <2>1. task[k].scheme \in Schemes
    BY <1>7
  <2>2. IsTable(rows') /\ DOMAIN rows' = DOMAIN rows \ gone
    BY <1>7, <2>1, RelinkTable DEF PruneTx
  <2>3. head' \in Pin /\ genesis' \in Pin
    BY <1>7, <2>1, <2>2, RefreshType DEF PruneTx
  <2>4. deleted' \in [Tasks -> Nat]
    BY <1>7, ExpiredFinite DEF PruneTx
  <2>5. task' \in [Tasks -> TaskSet]
    BY <1>7 DEF PruneTx
  <2> QED BY <1>7, <2>2, <2>3, <2>4, <2>5 DEF PruneTx
<1>8. ASSUME NEW k \in Tasks, PruneAbort(k) PROVE TypeOK'
  <2>1. task' \in [Tasks -> TaskSet]
    BY <1>8, IdleType DEF PruneAbort
  <2> QED BY <1>8, <2>1 DEF PruneAbort, db
<1>9. ASSUME NEW k \in Tasks, PruneEvidence(k) PROVE TypeOK'
  <2>1. Append("retention") /\ "retention" \in Kinds
    BY <1>9 DEF PruneEvidence, Kinds
  <2>2. task' \in [Tasks -> TaskSet]
    BY <1>9, IdleType DEF PruneEvidence
  <2>3. untraced' \subseteq 1 .. (nextId' - 1) /\ traces' \subseteq 1 .. (nextId' - 1)
    BY <1>9, <2>1, AppendTable DEF PruneEvidence
  <2>4. deleted' \in [Tasks -> Nat]
    BY <1>9 DEF PruneEvidence
  <2> QED BY <1>9, <2>1, <2>2, <2>3, <2>4, AppendTable DEF PruneEvidence
<1>10. ASSUME NEW k \in Tasks, PruneWarn(k) PROVE TypeOK'
  <2>1. task' \in [Tasks -> TaskSet]
    BY <1>10, IdleType DEF PruneWarn
  <2> QED BY <1>10, <2>1 DEF PruneWarn, db
<1>11. CASE WatchBegin \/ WatchVerdict \/ WatchUnavailable
  <2> DEFINE s == [e |-> epoch, t |-> rows, h |-> head, g |-> genesis]
  <2>1. CASE WatchBegin
    <3>1. watch' = [watch EXCEPT !.pc = "walking", !.snap = s]
      BY <2>1 DEF WatchBegin
    <3> HIDE DEF s
    <3>2. watch' = [pc |-> "walking", snap |-> s, posture |-> watch.posture]
      BY <3>1
    <3> QED BY <2>1, <3>2 DEF WatchBegin, db
  <2>2. CASE WatchVerdict
    BY <2>2 DEF WatchVerdict, db
  <2>3. CASE WatchUnavailable
    <3>1. watch' = [watch EXCEPT !.posture = "unavailable"]
      BY <2>3 DEF WatchUnavailable
    <3>2. watch' = [pc |-> watch.pc, snap |-> watch.snap, posture |-> "unavailable"]
      BY <3>1
    <3> QED BY <2>3, <3>2 DEF WatchUnavailable, db
  <2> QED BY <1>11, <2>1, <2>2, <2>3
<1>12. CASE ReauditBegin
  BY <1>12, EmptyTable DEF ReauditBegin, NoReaudit, db
<1>13. CASE ReauditVerify
  <2>1. "hmac256" \in Schemes
    BY DEF Schemes
  <2>2. head' \in Pin /\ genesis' \in Pin
    BY <1>13, <2>1, RefreshType DEF ReauditVerify
  <2>3. /\ reaudit' = [pc |-> reaudit'.pc, t |-> reaudit'.t] /\ IsTable(reaudit'.t)
        /\ reaudit'.pc \in {"off", "begun", "collected", "replayed"}
    BY <1>13, EmptyTable DEF ReauditVerify, NoReaudit
  <2> QED BY <1>13, <2>2, <2>3 DEF ReauditVerify
<1>14. CASE ReauditTx
  <2> DEFINE u == Relink("hmac256", reaudit.t, DOMAIN reaudit.t)
  <2>1. "hmac256" \in Schemes
    BY DEF Schemes
  <2>2. IsTable(u) /\ DOMAIN u = DOMAIN reaudit.t
    BY <2>1, RelinkTable
  <2>3. IsTable(rows') /\ DOMAIN rows' = DOMAIN rows
    <3> HIDE DEF u
    <3>1. rows' = [i \in DOMAIN rows |->
                     IF i \in DOMAIN reaudit.t
                       THEN [rows[i] EXCEPT !.prev = u[i].prev]
                       ELSE rows[i]]
      BY <1>14 DEF ReauditTx, u
    <3>2. \A i \in DOMAIN rows : rows[i] \in Row
      BY DEF IsTable
    <3>3. \A i \in DOMAIN u : u[i].prev \in Hash
      BY <2>2 DEF IsTable, Row
    <3>4. \A i \in DOMAIN rows : rows'[i] \in Row
      BY <2>2, <3>1, <3>2, <3>3 DEF Row
    <3> QED BY <3>1, <3>4 DEF IsTable
  <2>4. head' \in Pin /\ genesis' \in Pin
    BY <1>14, <2>1, <2>3, RefreshType DEF ReauditTx
  <2>5. epoch' \in Schemes
    BY <1>14, <2>1 DEF ReauditTx
  <2> QED BY <1>14, <2>3, <2>4, <2>5, EmptyTable DEF ReauditTx, NoReaudit
<1>15. CASE ReauditAnchor
  <2>1. CASE verify_chain(keyed)
    <3>1. Append("anchor") /\ "anchor" \in Kinds
      BY <1>15, <2>1 DEF ReauditAnchor, Kinds
    <3>2. untraced' \subseteq 1 .. (nextId' - 1) /\ traces' \subseteq 1 .. (nextId' - 1)
      BY <1>15, <3>1, AppendTable DEF ReauditAnchor
    <3> QED BY <1>15, <3>1, <3>2, AppendTable, EmptyTable DEF ReauditAnchor, NoReaudit
  <2>2. CASE ~ verify_chain(keyed)
    BY <1>15, <2>2, EmptyTable DEF ReauditAnchor, NoReaudit, db
  <2> QED BY <2>1, <2>2
<1>16. CASE Tick \/ ClockSetBack
  BY <1>16 DEF Tick, ClockSetBack, db
<1>17. CASE Crash
  <2>1. task' \in [Tasks -> TaskSet]
    BY <1>17, IdleType DEF Crash
  <2> QED BY <1>17, <2>1, EmptyTable DEF Crash, NoReaudit, db
<1>18. CASE ReauditAbort
  BY <1>18, EmptyTable DEF ReauditAbort, NoReaudit, db
<1>19. CASE UNCHANGED vars
  BY <1>19 DEF vars
<1> QED
  BY <1>1, <1>2, <1>3, <1>4, <1>5, <1>6, <1>7, <1>8, <1>9, <1>10, <1>11, <1>12, <1>13,
     <1>14, <1>15, <1>16, <1>17, <1>18, <1>19 DEF Next

\* Every variable keeps its type, in every behaviour, from any database.
THEOREM TypeCorrect == ASSUME TypedSeeds PROVE Spec => []TypeOK
<1>1. Init => TypeOK
  BY InitType
<1>2. TypeOK /\ [Next]_vars => TypeOK'
  BY NextType
<1> QED BY <1>1, <1>2, PTL DEF Spec

-----------------------------------------------------------------------------
(* The chain invariant *)

\* Every database of StampedSeeds starts with the chain invariant.
LEMMA InitChain == ASSUME StampedSeeds, Init PROVE ChainInv
<1>1. PICK seed \in Seeds : InitFrom(seed)
  BY DEF Init
<1>2. SoundDb(epoch, rows, head, genesis)
  BY <1>1 DEF StampedSeeds, StampedSeed, InitFrom
<1>3. TasksCurrent
  BY <1>1 DEF TasksCurrent, InitFrom, Idle
<1>4. ReauditCurrent
  BY <1>1 DEF ReauditCurrent, InitFrom, NoReaudit
<1> QED BY <1>2, <1>3, <1>4 DEF ChainInv

\* An append by anybody, with the tasks and the re-anchor as they are or done.
LEMMA AppendChain ==
    ASSUME TypeOK, ChainInv, NEW kind \in Kinds, Append(kind),
           \A k \in Tasks : task'[k] = task[k] \/ task'[k] = Idle,
           reaudit' = reaudit \/ reaudit'.pc = "off",
           reaudit.pc # "collected"
    PROVE  ChainInv'
<1>1. /\ SoundDb(epoch', rows', head', genesis')
      /\ epoch' # Unstamped
      /\ epoch # Unstamped => epoch' = epoch
  BY AppendSound DEF ChainInv
<1>2. TasksCurrent'
  BY <1>1 DEF ChainInv, TasksCurrent, Idle
<1>3. ReauditCurrent'
  BY DEF ReauditCurrent
<1> QED BY <1>1, <1>2, <1>3 DEF ChainInv

\* The prune's transaction, run with the scheme the chain is stamped with.
LEMMA PruneTxChain ==
    ASSUME TypeOK, ChainInv, NEW k \in Tasks, PruneTx(k) PROVE ChainInv'
<1> DEFINE S == DOMAIN rows \ Expired(rows, task[k].cutoff)
<1>1. task[k] # Idle /\ task[k].pc = "verified"
  BY DEF PruneTx, Idle
<1>2. /\ epoch # Unstamped /\ reaudit.pc = "off"
      /\ task[k].scheme = epoch /\ epoch \in Schemes /\ read_epoch(epoch) = epoch
  BY <1>1 DEF ChainInv, TasksCurrent, TypeOK, read_epoch
<1>3. rows' = Relink(epoch, rows, S) /\ RefreshPins(epoch, rows') /\ epoch' = epoch
  BY <1>2 DEF PruneTx
<1>4. IsTable(rows) /\ NullPrefix(rows) /\ S \subseteq DOMAIN rows
  BY DEF TypeOK, ChainInv, SoundDb
<1> HIDE DEF S
<1>5. IsTable(rows') /\ Walk(epoch, rows') /\ NullPrefix(rows')
  BY <1>2, <1>3, <1>4, RelinkTable, RelinkWalk
<1>6. PinsExact(epoch', rows', head', genesis')
  BY <1>2, <1>3, <1>5, RefreshType
<1>7. SoundDb(epoch', rows', head', genesis')
  BY <1>2, <1>3, <1>5, <1>6 DEF SoundDb
<1>8. TasksCurrent'
  BY <1>1, <1>2, <1>3 DEF ChainInv, TasksCurrent, PruneTx, TypeOK
<1>9. ReauditCurrent'
  BY <1>2 DEF ReauditCurrent, PruneTx
<1> QED BY <1>7, <1>8, <1>9 DEF ChainInv

\* The re-anchor's transaction: the rows it collected are the rows it finds.
LEMMA ReauditTxChain ==
    ASSUME TypeOK, ChainInv, ReauditTx PROVE ChainInv'
<1> DEFINE u == Relink("hmac256", rows, DOMAIN rows)
<1>1. reaudit.pc = "collected" /\ reaudit.t = rows
  BY DEF ReauditTx, ChainInv, ReauditCurrent
<1>2. "hmac256" \in Schemes /\ read_epoch("hmac256") = "hmac256" /\ "hmac256" # Unstamped
  BY DEF Schemes, read_epoch, Unstamped
<1>3. IsTable(rows) /\ NullPrefix(rows)
  BY DEF TypeOK, ChainInv, SoundDb
<1>4. /\ IsTable(u) /\ DOMAIN u = DOMAIN rows
      /\ \A i \in DOMAIN rows : u[i].ts = rows[i].ts /\ u[i].kind = rows[i].kind
      /\ Walk("hmac256", u) /\ NullPrefix(u)
  BY <1>2, <1>3, RelinkTable, RelinkWalk
<1>5. rows' = [i \in DOMAIN rows |-> [rows[i] EXCEPT !.prev = u[i].prev]]
  BY <1>1 DEF ReauditTx
<1> HIDE DEF u
<1>6. rows' = u
  <2>1. \A i \in DOMAIN rows : rows[i] \in Row /\ u[i] \in Row
    BY <1>3, <1>4 DEF IsTable
  <2>2. \A i \in DOMAIN rows : [rows[i] EXCEPT !.prev = u[i].prev] = u[i]
    BY <1>4, <2>1 DEF Row
  <2>3. u = [i \in DOMAIN rows |-> u[i]]
    BY <1>4 DEF IsTable
  <2> QED BY <1>5, <2>2, <2>3
<1>7. epoch' = "hmac256" /\ RefreshPins("hmac256", rows')
  BY DEF ReauditTx
<1>8. PinsExact("hmac256", rows', head', genesis')
  BY <1>2, <1>4, <1>6, <1>7, RefreshType
<1>9. SoundDb(epoch', rows', head', genesis')
  BY <1>2, <1>4, <1>6, <1>7, <1>8 DEF SoundDb
<1>10. TasksCurrent'
  BY <1>1 DEF ChainInv, TasksCurrent, ReauditTx, Idle
<1>11. ReauditCurrent'
  BY DEF ReauditTx, ReauditCurrent, NoReaudit
<1> QED BY <1>9, <1>10, <1>11 DEF ChainInv

\* Every action keeps the chain invariant; one step per action.
LEMMA NextChain == ASSUME TypeOK, ChainInv, [Next]_vars PROVE ChainInv'
<1>1. CASE record_tenant \/ record_read_event
  <2>1. Append("event") /\ "event" \in Kinds /\ UNCHANGED <<task, reaudit>>
    BY <1>1 DEF record_tenant, record_read_event, Kinds
  <2>2. reaudit.pc # "collected"
    BY <1>1 DEF record_tenant, record_read_event, Serving
  <2> QED BY <2>1, <2>2, AppendChain
<1>2. ASSUME NEW i \in untraced, InsertTrace(i) PROVE ChainInv'
  BY <1>2 DEF InsertTrace, db, ChainInv, TasksCurrent, ReauditCurrent
<1>3. ASSUME NEW k \in Tasks, PruneCount(k) PROVE ChainInv'
  <2>1. DOMAIN rows # {}
    BY <1>3 DEF PruneCount, Expired
  <2>2. epoch # Unstamped /\ reaudit.pc = "off"
    BY <1>3, <2>1 DEF PruneCount, Serving, ChainInv, SoundDb
  <2>3. TasksCurrent'
    BY <1>3, <2>2 DEF PruneCount, db, ChainInv, TasksCurrent, TypeOK
  <2> QED BY <1>3, <2>3 DEF PruneCount, db, ChainInv, ReauditCurrent
<1>4. ASSUME NEW k \in Tasks, PruneScheme(k) PROVE ChainInv'
  <2>1. epoch # Unstamped /\ reaudit.pc = "off" /\ read_epoch(epoch) = epoch
    BY <1>4 DEF PruneScheme, ChainInv, TasksCurrent, Idle, read_epoch
  <2>2. TasksCurrent'
    BY <1>4, <2>1 DEF PruneScheme, db, ChainInv, TasksCurrent, TypeOK, Idle
  <2> QED BY <1>4, <2>2 DEF PruneScheme, db, ChainInv, ReauditCurrent
<1>5. ASSUME NEW k \in Tasks, PruneVerify(k) PROVE ChainInv'
  <2>1. /\ epoch # Unstamped /\ reaudit.pc = "off"
        /\ task[k].scheme = epoch
    BY <1>5 DEF PruneVerify, ChainInv, TasksCurrent, Idle
  <2>2. TasksCurrent'
    BY <1>5, <2>1 DEF PruneVerify, db, ChainInv, TasksCurrent, TypeOK, Idle
  <2> QED BY <1>5, <2>2 DEF PruneVerify, db, ChainInv, ReauditCurrent
<1>6. ASSUME NEW k \in Tasks, PruneTx(k) PROVE ChainInv'
  BY <1>6, PruneTxChain
<1>7. ASSUME NEW k \in Tasks, PruneAbort(k) \/ PruneWarn(k) PROVE ChainInv'
  <2>1. TasksCurrent'
    BY <1>7 DEF PruneAbort, PruneWarn, db, ChainInv, TasksCurrent, TypeOK, Idle
  <2> QED BY <1>7, <2>1 DEF PruneAbort, PruneWarn, db, ChainInv, ReauditCurrent
<1>8. ASSUME NEW k \in Tasks, PruneEvidence(k) PROVE ChainInv'
  <2>1. Append("retention") /\ "retention" \in Kinds /\ UNCHANGED reaudit
    BY <1>8 DEF PruneEvidence, Kinds
  <2>2. reaudit.pc = "off"
    BY <1>8 DEF PruneEvidence, ChainInv, TasksCurrent, Idle
  <2>3. \A j \in Tasks : task'[j] = task[j] \/ task'[j] = Idle
    BY <1>8 DEF PruneEvidence, TypeOK
  <2> QED BY <2>1, <2>2, <2>3, AppendChain
<1>9. CASE WatchBegin \/ WatchVerdict \/ WatchUnavailable
  BY <1>9 DEF WatchBegin, WatchVerdict, WatchUnavailable, db, ChainInv, TasksCurrent, ReauditCurrent
<1>10. CASE ReauditBegin
  <2>1. \A k \in Tasks : task[k] = Idle
    BY <1>10 DEF ReauditBegin, Busy
  <2>2. TasksCurrent'
    BY <1>10, <2>1 DEF ReauditBegin, TasksCurrent, Idle
  <2>3. ReauditCurrent'
    BY <1>10 DEF ReauditBegin, ReauditCurrent, NoReaudit
  <2> QED BY <1>10, <2>2, <2>3 DEF ReauditBegin, db, ChainInv
<1>11. CASE ReauditVerify
  <2>1. \A k \in Tasks : task[k] = Idle
    BY <1>11 DEF ReauditVerify, ChainInv, TasksCurrent
  <2>2. TasksCurrent'
    BY <1>11, <2>1 DEF ReauditVerify, TasksCurrent, Idle
  <2>3. ReauditCurrent'
    BY <1>11 DEF ReauditVerify, ReauditCurrent, NoReaudit, TypeOK
  <2>4. SoundDb(epoch', rows', head', genesis')
    <3>1. CASE UNCHANGED <<head, genesis>>
      BY <1>11, <3>1 DEF ReauditVerify, ChainInv
    <3>2. CASE read_epoch(epoch) = "hmac256" /\ RefreshPins("hmac256", rows)
      <4>1. epoch = "hmac256" /\ "hmac256" \in Schemes
        BY <3>2 DEF read_epoch, Schemes
      <4>2. PinsExact(epoch, rows, head', genesis')
        BY <3>2, <4>1, RefreshType DEF TypeOK
      <4> QED BY <1>11, <4>2 DEF ReauditVerify, ChainInv, SoundDb
    <3> QED BY <1>11, <3>1, <3>2 DEF ReauditVerify
  <2> QED BY <2>2, <2>3, <2>4 DEF ChainInv
<1>12. CASE ReauditTx
  BY <1>12, ReauditTxChain
<1>13. CASE ReauditAnchor
  <2>1. \A k \in Tasks : task[k] = Idle
    BY <1>13 DEF ReauditAnchor, ChainInv, TasksCurrent
  <2>2. reaudit.pc # "collected" /\ reaudit'.pc = "off" /\ UNCHANGED task
    BY <1>13 DEF ReauditAnchor, NoReaudit
  <2>3. CASE verify_chain(keyed)
    <3>1. Append("anchor") /\ "anchor" \in Kinds
      BY <1>13, <2>3 DEF ReauditAnchor, Kinds
    <3> QED BY <2>2, <3>1, AppendChain
  <2>4. CASE ~ verify_chain(keyed)
    BY <1>13, <2>1, <2>2, <2>4 DEF ReauditAnchor, db, ChainInv, TasksCurrent,
       ReauditCurrent, Idle
  <2> QED BY <2>3, <2>4
<1>14. CASE Tick \/ ClockSetBack
  BY <1>14 DEF Tick, ClockSetBack, db, ChainInv, TasksCurrent, ReauditCurrent
<1>15. CASE Crash
  BY <1>15 DEF Crash, db, ChainInv, TasksCurrent, ReauditCurrent, NoReaudit, Idle
<1>16. CASE ReauditAbort
  BY <1>16 DEF ReauditAbort, db, ChainInv, TasksCurrent, ReauditCurrent, NoReaudit
<1>17. CASE UNCHANGED vars
  BY <1>17 DEF vars, ChainInv, TasksCurrent, ReauditCurrent
<1> QED
  BY <1>1, <1>2, <1>3, <1>4, <1>5, <1>6, <1>7, <1>8, <1>9, <1>10, <1>11, <1>12, <1>13,
     <1>14, <1>15, <1>16, <1>17 DEF Next

\* A sound chain, committed or read in a snapshot, passes every check of
\* verify_chain.
LEMMA SoundVerifies ==
    ASSUME NEW e \in Schemes \cup {Unstamped}, NEW t, NEW h, NEW g,
           IsTable(t), SoundDb(e, t, h, g)
    PROVE  verify_chain_inner(e, t, h, g, TRUE)
<1>1. CASE DOMAIN t = {} /\ h = NoPin /\ g = NoPin
  BY <1>1 DEF verify_chain_inner, Walk, PinsPresent, GenesisMatches, HeadMatches
<1>2. CASE \E tip, first \in DOMAIN t :
             /\ IsTip(t, tip) /\ IsFirst(t, first)
             /\ h = PinFor(e, t, tip) /\ g = PinFor(e, t, first)
  <2>1. PICK tip \in DOMAIN t, first \in DOMAIN t :
             /\ IsTip(t, tip) /\ IsFirst(t, first)
             /\ h = PinFor(e, t, tip) /\ g = PinFor(e, t, first)
    BY <1>2
  <2>2. e \in Schemes /\ read_epoch(e) = e
    BY <2>1 DEF SoundDb, read_epoch
  <2>3. /\ h # NoPin /\ h.id = tip /\ h.hash = Link(e, tip, t[tip].prev)
        /\ e = "hmac256" => h.mac
    BY <2>1, <2>2, PinForType
  <2>4. /\ g # NoPin /\ g.id = first
        /\ g.hash = Link(e, first, t[first].prev)
        /\ e = "hmac256" => g.mac
    BY <2>1, <2>2, PinForType
  <2>5. Walk(e, t)
    BY <2>2 DEF SoundDb
  <2> QED BY <2>1, <2>2, <2>3, <2>4, <2>5 DEF verify_chain_inner, PinsPresent,
     GenesisMatches, HeadMatches
<1> QED BY <1>1, <1>2 DEF SoundDb, PinsExact

\* From every database in the format its stamp says, the committed chain
\* verifies for ever: no interleaving of appends, prunes, re-anchors and kills
\* breaks a link, the NULL prefix, a pin or a pin's MAC.
THEOREM ChainAlwaysVerifies == ASSUME StampedSeeds PROVE Spec => []ChainVerifies
<1>1. Init => TypeOK /\ ChainInv
  BY InitType, InitChain, StampedTyped
<1>2. TypeOK /\ ChainInv /\ [Next]_vars => (TypeOK /\ ChainInv)'
  BY NextType, NextChain
<1>3. TypeOK /\ ChainInv => ChainVerifies
  BY SoundVerifies DEF TypeOK, ChainInv, ChainVerifies, verify_chain, CanCompute
<1> QED BY <1>1, <1>2, <1>3, PTL DEF Spec

-----------------------------------------------------------------------------
(* The watcher's verdict *)

\* A keyed chain stays keyed: no action takes the stamp back.
LEMMA KeyedStays ==
    ASSUME [Next]_vars, epoch = "hmac256" PROVE epoch' = "hmac256"
<1>1. \A kind \in Kinds : Append(kind) => epoch' = epoch
  BY DEF Append, Unstamped
<1> QED
  BY <1>1 DEF Next, vars, db, record_tenant, record_read_event, InsertTrace,
     PruneCount, PruneScheme, PruneVerify, PruneTx, PruneAbort, PruneEvidence, PruneWarn,
     WatchBegin, WatchVerdict, WatchUnavailable, ReauditBegin, ReauditVerify, ReauditTx,
     ReauditAnchor, ReauditAbort, Tick, ClockSetBack, Crash, Kinds

\* Only the watcher, the operator who stops the server and a kill touch the
\* posture; only a kill can take the key away.
LEMMA WatchLeft ==
    ASSUME [Next]_vars
    PROVE  \/ WatchBegin \/ WatchVerdict \/ WatchUnavailable \/ ReauditBegin \/ Crash
           \/ UNCHANGED <<watch, keyed>>
BY DEF Next, vars, record_tenant, record_read_event, InsertTrace,
   PruneCount, PruneScheme, PruneVerify, PruneTx, PruneAbort, PruneEvidence, PruneWarn,
   ReauditVerify, ReauditTx, ReauditAnchor, ReauditAbort, Tick, ClockSetBack

\* The snapshot stays sound while the watcher walks it, and so its verdict never
\* reads broken for a chain that is not.
LEMMA WatchStep ==
    ASSUME TypeOK, ChainInv, WatchCurrent, NoFalseAlarm, [Next]_vars
    PROVE  WatchCurrent' /\ NoFalseAlarm'
<1>0. watch = [pc |-> watch.pc, snap |-> watch.snap, posture |-> watch.posture]
  BY DEF TypeOK
<1>1. CASE WatchBegin
  <2> DEFINE s == [e |-> epoch, t |-> rows, h |-> head, g |-> genesis]
  <2>1. watch' = [watch EXCEPT !.pc = "walking", !.snap = s] /\ UNCHANGED <<db, keyed>>
    BY <1>1 DEF WatchBegin
  <2>2. /\ s.e = epoch /\ s.t = rows /\ s.h = head /\ s.g = genesis
    OBVIOUS
  <2> HIDE DEF s
  <2>3. watch'.snap = s /\ watch'.posture = watch.posture
    BY <1>0, <2>1
  <2>4. WatchCurrent'
    BY <2>1, <2>2, <2>3 DEF WatchCurrent, db, TypeOK, ChainInv
  <2> QED
    BY <2>1, <2>3, <2>4 DEF NoFalseAlarm, db
<1>2. CASE WatchVerdict
  <2>1. /\ watch.pc = "walking" /\ watch'.pc = "idle" /\ UNCHANGED <<db, keyed>>
        /\ watch'.posture = IF Verdict(watch.snap) THEN "ok" ELSE "broken"
    BY <1>2 DEF WatchVerdict
  <2>2. WatchCurrent'
    BY <2>1 DEF WatchCurrent
  <2>3. ASSUME ~ Verdict(watch.snap) PROVE epoch = "hmac256" /\ ~ keyed
    <3> DEFINE s == watch.snap
    <3>1. /\ IsTable(s.t) /\ s.e \in Schemes \cup {Unstamped}
          /\ SoundDb(s.e, s.t, s.h, s.g)
          /\ s.e = "hmac256" => epoch = "hmac256"
      BY <2>1 DEF WatchCurrent
    <3>2. verify_chain_inner(s.e, s.t, s.h, s.g, TRUE)
      BY <3>1, SoundVerifies
    <3>3. ~ CanCompute(s.e, keyed)
      BY <2>3, <3>2 DEF Verdict
    <3> QED
      BY <3>1, <3>3 DEF CanCompute, read_epoch
  <2> QED
    BY <2>1, <2>2, <2>3 DEF NoFalseAlarm, db
<1>3. CASE WatchUnavailable \/ ReauditBegin
  BY <1>0, <1>3 DEF WatchUnavailable, ReauditBegin, WatchCurrent, NoFalseAlarm, db
<1>4. CASE Crash
  BY <1>4 DEF Crash, WatchCurrent, NoFalseAlarm
<1>5. CASE UNCHANGED <<watch, keyed>>
  BY <1>5, KeyedStays DEF WatchCurrent, NoFalseAlarm
<1> QED
  BY <1>1, <1>2, <1>3, <1>4, <1>5, WatchLeft

\* From every database in the format its stamp says, the watcher reports a
\* broken chain only when it lacks the key of a keyed one: no append, prune or
\* re-anchor that commits between its snapshot and its verdict, by any number
\* of tasks, makes it raise a false alarm.
THEOREM NoFalseAlarmEver == ASSUME StampedSeeds PROVE Spec => []NoFalseAlarm
<1>1. Init => TypeOK /\ ChainInv /\ WatchCurrent /\ NoFalseAlarm
  <2>1. Init => WatchCurrent /\ NoFalseAlarm
    BY DEF Init, InitFrom, WatchCurrent, NoFalseAlarm
  <2> QED
    BY <2>1, InitType, InitChain, StampedTyped
<1>2. TypeOK /\ ChainInv /\ WatchCurrent /\ NoFalseAlarm /\ [Next]_vars
        => (TypeOK /\ ChainInv /\ WatchCurrent /\ NoFalseAlarm)'
  BY NextType, NextChain, WatchStep
<1> QED BY <1>1, <1>2, PTL DEF Spec

-----------------------------------------------------------------------------
(* What an action does to the content of the table *)

\* The prune's transaction deletes the expired rows and no other, and leaves
\* the content of the survivors alone.
LEMMA PruneTxTable ==
    ASSUME TypeOK, NEW k \in Tasks, PruneTx(k)
    PROVE  /\ DOMAIN rows' = {i \in DOMAIN rows : rows[i].ts >= task[k].cutoff}
           /\ \A i \in DOMAIN rows' : rows'[i].ts = rows[i].ts /\ rows'[i].kind = rows[i].kind
           /\ task[k] # Idle /\ task[k].pc = "verified"
           /\ UNCHANGED <<nextId, now>>
<1> DEFINE S == DOMAIN rows \ Expired(rows, task[k].cutoff)
<1>1. task[k].scheme \in Schemes /\ task[k].cutoff \in Int /\ IsTable(rows)
  BY DEF TypeOK
<1>2. /\ rows' = Relink(task[k].scheme, rows, S) /\ task[k].pc = "verified"
      /\ UNCHANGED <<nextId, now>>
  BY DEF PruneTx
<1>3. S = {i \in DOMAIN rows : rows[i].ts >= task[k].cutoff}
  <2>1. \A i \in DOMAIN rows : rows[i].ts \in Nat
    BY <1>1 DEF IsTable, Row
  <2> QED
    BY <1>1, <2>1 DEF Expired
<1>4. S \subseteq DOMAIN rows
  OBVIOUS
<1> HIDE DEF S
<1>5. /\ DOMAIN rows' = S
      /\ \A i \in S : rows'[i].ts = rows[i].ts /\ rows'[i].kind = rows[i].kind
  BY <1>1, <1>2, <1>4, RelinkTable
<1>6. task[k] # Idle
  BY <1>2 DEF Idle
<1> QED
  BY <1>2, <1>3, <1>5, <1>6

\* The re-anchor's transaction changes links only.
LEMMA ReauditTxTable ==
    ASSUME TypeOK, ReauditTx
    PROVE  /\ DOMAIN rows' = DOMAIN rows
           /\ \A i \in DOMAIN rows : rows'[i].ts = rows[i].ts /\ rows'[i].kind = rows[i].kind
<1> DEFINE u == Relink("hmac256", reaudit.t, DOMAIN reaudit.t)
<1>1. rows' = [i \in DOMAIN rows |->
                 IF i \in DOMAIN reaudit.t THEN [rows[i] EXCEPT !.prev = u[i].prev]
                                           ELSE rows[i]]
  BY DEF ReauditTx
<1> HIDE DEF u
<1>2. \A i \in DOMAIN rows : rows[i] \in Row
  BY DEF TypeOK, IsTable
<1> QED
  BY <1>1, <1>2 DEF Row

\* A row is appended, the expired rows leave, or every row keeps its content.
LEMMA ContentStep ==
    ASSUME TypeOK, [Next]_vars
    PROVE  \/ \E kind \in Kinds : Append(kind) /\ UNCHANGED now
           \/ \E k \in Tasks : PruneTx(k)
           \/ /\ DOMAIN rows' = DOMAIN rows /\ UNCHANGED nextId
              /\ \A i \in DOMAIN rows : rows'[i].ts = rows[i].ts /\ rows'[i].kind = rows[i].kind
<1>1. CASE record_tenant \/ record_read_event
  BY <1>1 DEF record_tenant, record_read_event, Kinds
<1>2. CASE \E k \in Tasks : PruneEvidence(k)
  BY <1>2 DEF PruneEvidence, Kinds
<1>3. CASE ReauditAnchor
  BY <1>3 DEF ReauditAnchor, Kinds, db
<1>4. CASE ReauditTx
  BY <1>4, ReauditTxTable DEF ReauditTx
<1>5. CASE \E k \in Tasks : PruneTx(k)
  BY <1>5
<1>6. CASE UNCHANGED <<rows, nextId>>
  BY <1>6
<1>7. CASE \/ \E i \in untraced : InsertTrace(i)
           \/ \E k \in Tasks : PruneCount(k) \/ PruneScheme(k) \/ PruneVerify(k)
                               \/ PruneAbort(k) \/ PruneWarn(k)
           \/ WatchBegin \/ WatchVerdict \/ WatchUnavailable
           \/ ReauditBegin \/ ReauditVerify \/ ReauditAbort
           \/ Tick \/ ClockSetBack \/ Crash \/ UNCHANGED vars
  <2>1. UNCHANGED <<rows, nextId>>
    BY <1>7 DEF vars, db, InsertTrace, PruneCount, PruneScheme, PruneVerify, PruneAbort,
       PruneWarn, WatchBegin, WatchVerdict, WatchUnavailable, ReauditBegin, ReauditVerify,
       ReauditAbort, Tick, ClockSetBack, Crash
  <2> QED
    BY <1>6, <2>1
<1> QED
  BY <1>1, <1>2, <1>3, <1>4, <1>5, <1>7 DEF Next

-----------------------------------------------------------------------------
(* Retention: cutoffs, traces and counts *)

\* While nobody sets the clock back, it only advances.
LEMMA ClockAdvances ==
    ASSUME TypeOK, ~ ClockSteps, [Next]_vars
    PROVE  now' \in Nat /\ (now' = now \/ (Tick /\ now' = now + 1))
<1>1. CASE Tick
  BY <1>1 DEF Tick, TypeOK
<1>2. CASE ~ Tick
  <2>1. now' = now
    BY <1>2 DEF Next, vars, record_tenant, record_read_event, InsertTrace,
       PruneCount, PruneScheme, PruneVerify, PruneTx, PruneAbort, PruneEvidence, PruneWarn,
       WatchBegin, WatchVerdict, WatchUnavailable, ReauditBegin, ReauditVerify, ReauditTx,
       ReauditAnchor, ReauditAbort, ClockSetBack, Crash
  <2> QED
    BY <2>1 DEF TypeOK
<1> QED BY <1>1, <1>2

\* A task under way keeps the cutoff its count was taken with.
LEMMA CutoffKept ==
    ASSUME TypeOK, [Next]_vars, NEW k \in Tasks
    PROVE  \/ PruneCount(k)
           \/ task'[k] = Idle
           \/ task'[k] = task[k]
           \/ task[k] # Idle /\ task'[k].cutoff = task[k].cutoff
<1>1. ASSUME NEW j \in Tasks, PruneCount(j)
      PROVE  PruneCount(k) \/ task'[k] = task[k]
  BY <1>1 DEF PruneCount, TypeOK
<1>2. ASSUME NEW j \in Tasks, PruneAbort(j) \/ PruneEvidence(j) \/ PruneWarn(j)
      PROVE  task'[k] = Idle \/ task'[k] = task[k]
  BY <1>2 DEF PruneAbort, PruneEvidence, PruneWarn, TypeOK
<1>3. ASSUME NEW j \in Tasks, PruneScheme(j) \/ PruneVerify(j) \/ PruneTx(j)
      PROVE  \/ task'[k] = Idle \/ task'[k] = task[k]
             \/ task[k] # Idle /\ task'[k].cutoff = task[k].cutoff
  <2>1. CASE j # k
    BY <1>3, <2>1 DEF PruneScheme, PruneVerify, PruneTx, TypeOK
  <2>2. CASE j = k
    <3>1. task[k] # Idle
      BY <1>3, <2>2 DEF PruneScheme, PruneVerify, PruneTx, Idle
    <3>2. task'[k] = Idle \/ task'[k].cutoff = task[k].cutoff
      <4>1. CASE PruneScheme(j)
        BY <2>2, <4>1 DEF PruneScheme, TypeOK
      <4>2. CASE PruneVerify(j)
        BY <2>2, <4>2 DEF PruneVerify, TypeOK
      <4>3. CASE PruneTx(j)
        BY <2>2, <4>3 DEF PruneTx, TypeOK
      <4> QED BY <1>3, <4>1, <4>2, <4>3
    <3> QED BY <3>1, <3>2
  <2> QED BY <2>1, <2>2
<1>4. ASSUME Crash PROVE task'[k] = Idle
  BY <1>4 DEF Crash
<1>5. ASSUME UNCHANGED task PROVE task'[k] = task[k]
  BY <1>5
<1>6. ASSUME \/ record_tenant \/ record_read_event \/ \E i \in untraced : InsertTrace(i)
             \/ WatchBegin \/ WatchVerdict \/ WatchUnavailable
             \/ ReauditBegin \/ ReauditVerify \/ ReauditTx \/ ReauditAnchor \/ ReauditAbort
             \/ Tick \/ ClockSetBack \/ UNCHANGED vars
      PROVE  UNCHANGED task
  BY <1>6 DEF record_tenant, record_read_event, InsertTrace, WatchBegin, WatchVerdict,
     WatchUnavailable, ReauditBegin, ReauditVerify, ReauditTx, ReauditAnchor, ReauditAbort,
     Tick, ClockSetBack, vars
<1> QED
  BY <1>1, <1>2, <1>3, <1>4, <1>5, <1>6 DEF Next

\* A cutoff below which there is a time is none before time began.
LEMMA CutoffRange ==
    ASSUME NEW n \in Nat, NEW m \in Nat, NEW d \in Nat, NEW x \in Nat, n <= m, x < n - d
    PROVE  n - d \in 0 .. m - d
  OBVIOUS

\* No action gives a prune a cutoff from the future.
LEMMA CutoffsStep ==
    ASSUME TypeOK, TypeOK', ~ ClockSteps, CutoffsPast, [Next]_vars
    PROVE  CutoffsPast'
<1> SUFFICES ASSUME NEW k \in Tasks, task'[k] # Idle
             PROVE  task'[k].cutoff \in 0 .. now' - Retention
  BY DEF CutoffsPast
<1>1. now \in Nat /\ now' \in Nat /\ now <= now' /\ Retention \in Nat
  BY ClockAdvances, ConstantsAssumption DEF TypeOK
<1>2. CASE PruneCount(k)
  <2>1. task'[k].cutoff = now - Retention /\ Expired(rows, now - Retention) # {}
    BY <1>2 DEF PruneCount, TypeOK
  <2>2. PICK i \in DOMAIN rows : rows[i].ts < now - Retention
    BY <2>1 DEF Expired
  <2>3. rows[i].ts \in Nat
    BY DEF TypeOK, IsTable, Row
  <2>4. now - Retention \in 0 .. now' - Retention
    BY <1>1, <2>2, <2>3, CutoffRange
  <2> QED
    BY <2>1, <2>4
<1>3. CASE task[k] # Idle /\ task'[k].cutoff = task[k].cutoff
  BY <1>1, <1>3 DEF CutoffsPast
<1> QED
  BY <1>2, <1>3, CutoffKept

\* The row an append writes carries the time of the clock.
LEMMA AppendedRow ==
    ASSUME TypeOK, NEW kind \in Kinds, Append(kind)
    PROVE  rows'[nextId].ts = now /\ rows'[nextId].kind = kind
<1>1. PICK p \in Hash :
        rows' = [i \in DOMAIN rows \cup {nextId} |->
                   IF i = nextId THEN [ts |-> now, kind |-> kind, prev |-> p] ELSE rows[i]]
  BY AppendEffect
<1> QED BY <1>1

\* Who touches the traces, and the requests that are about to insert one.
LEMMA TracesLeft ==
    ASSUME [Next]_vars
    PROVE  \/ record_read_event \/ \E i \in untraced : InsertTrace(i)
           \/ \E k \in Tasks : PruneTx(k)
           \/ Crash
           \/ UNCHANGED <<traces, untraced>>
BY DEF Next, vars, record_tenant, PruneCount, PruneScheme, PruneVerify, PruneAbort,
   PruneEvidence, PruneWarn, WatchBegin, WatchVerdict, WatchUnavailable, ReauditBegin,
   ReauditVerify, ReauditTx, ReauditAnchor, ReauditAbort, Tick, ClockSetBack

\* No prune takes the row of a read that has still to insert its trace.
LEMMA TracesStep ==
    ASSUME TypeOK, ~ ClockSteps, CutoffsPast, UntracedKept, NoOrphanTrace, [Next]_vars
    PROVE  UntracedKept' /\ NoOrphanTrace'
<1>0. /\ now \in Nat /\ Retention \in Nat
      /\ \A i \in DOMAIN rows : rows[i].ts \in Nat
  BY ConstantsAssumption DEF TypeOK, IsTable, Row
<1>1. CASE record_read_event
  <2>1. /\ Append("event") /\ "event" \in Kinds
        /\ untraced' = untraced \cup {nextId} /\ UNCHANGED <<traces, now>>
    BY <1>1 DEF record_read_event, Kinds
  <2>2. /\ DOMAIN rows' = DOMAIN rows \cup {nextId}
        /\ \A i \in DOMAIN rows : rows'[i] = rows[i]
        /\ rows'[nextId].ts = now
    BY <2>1, AppendTable, AppendedRow
  <2> QED
    BY <1>0, <2>1, <2>2 DEF UntracedKept, NoOrphanTrace
<1>2. ASSUME NEW i \in untraced, InsertTrace(i) PROVE UntracedKept' /\ NoOrphanTrace'
  BY <1>2 DEF InsertTrace, db, UntracedKept, NoOrphanTrace
<1>3. ASSUME NEW k \in Tasks, PruneTx(k) PROVE UntracedKept' /\ NoOrphanTrace'
  <2>1. /\ DOMAIN rows' = {i \in DOMAIN rows : rows[i].ts >= task[k].cutoff}
        /\ \A i \in DOMAIN rows' : rows'[i].ts = rows[i].ts
        /\ task[k] # Idle /\ now' = now
    BY <1>3, PruneTxTable
  <2>2. task[k].cutoff \in Int /\ task[k].cutoff <= now - Retention
    BY <1>0, <2>1 DEF CutoffsPast, TypeOK
  <2>3. \A i \in untraced : i \in DOMAIN rows' /\ rows'[i].ts >= now - Retention
    BY <1>0, <2>1, <2>2 DEF UntracedKept
  <2>4. untraced' = untraced
    BY <1>3 DEF PruneTx
  <2>5. traces' \subseteq {i \in DOMAIN rows : ~ (rows[i].ts < task[k].cutoff)}
    BY <1>3 DEF PruneTx, Expired
  <2>6. traces' \subseteq DOMAIN rows'
    BY <1>0, <2>1, <2>2, <2>5
  <2> QED
    BY <2>1, <2>3, <2>4, <2>6 DEF UntracedKept, NoOrphanTrace
<1>4. CASE Crash
  BY <1>4 DEF Crash, db, UntracedKept, NoOrphanTrace
<1>5. CASE UNCHANGED <<traces, untraced>>
  <2>1. CASE Tick
    BY <1>0, <1>5, <2>1 DEF Tick, db, UntracedKept, NoOrphanTrace
  <2>2. CASE now' = now
    <3>1. ASSUME NEW kind \in Kinds, Append(kind)
          PROVE  UntracedKept' /\ NoOrphanTrace'
      <4>1. /\ DOMAIN rows' = DOMAIN rows \cup {nextId}
            /\ \A i \in DOMAIN rows : rows'[i] = rows[i]
        BY <3>1, AppendTable
      <4> QED
        BY <1>5, <2>2, <4>1 DEF UntracedKept, NoOrphanTrace
    <3>2. ASSUME DOMAIN rows' = DOMAIN rows, \A i \in DOMAIN rows : rows'[i].ts = rows[i].ts
          PROVE  UntracedKept' /\ NoOrphanTrace'
      BY <1>5, <2>2, <3>2 DEF UntracedKept, NoOrphanTrace
    <3> QED
      BY <1>3, <3>1, <3>2, ContentStep
  <2> QED
    BY <2>1, <2>2, ClockAdvances
<1> QED
  BY <1>1, <1>2, <1>3, <1>4, <1>5, TracesLeft

\* From any database, while nobody sets the clock back: every replay trace
\* belongs to a row that is there, however a prune's transaction falls between
\* a read's audit row and its trace.
THEOREM NoOrphanTraceEver ==
    ASSUME TypedSeeds, ~ ClockSteps PROVE Spec => []NoOrphanTrace
<1> DEFINE Inv == TypeOK /\ CutoffsPast /\ UntracedKept /\ NoOrphanTrace
<1>1. Init => Inv
  <2>1. Init => CutoffsPast /\ UntracedKept /\ NoOrphanTrace
    BY DEF Init, InitFrom, CutoffsPast, UntracedKept, NoOrphanTrace
  <2> QED
    BY <2>1, InitType
<1>2. Inv /\ [Next]_vars => Inv'
  BY NextType, CutoffsStep, TracesStep
<1> QED BY <1>1, <1>2, PTL DEF Spec

-----------------------------------------------------------------------------
(* The deletion of evidence is never understated *)

\* The rows a prune under way is to delete only become fewer: what is appended
\* meanwhile is younger than its cutoff, and another prune takes some away.
LEMMA ExpiredShrinks ==
    ASSUME TypeOK, ~ ClockSteps, CutoffsPast, [Next]_vars, NEW k \in Tasks, task[k] # Idle
    PROVE  Expired(rows', task[k].cutoff) \subseteq Expired(rows, task[k].cutoff)
<1>0. /\ now \in Nat /\ Retention \in Nat
      /\ task[k].cutoff \in Int /\ task[k].cutoff <= now - Retention
  BY ConstantsAssumption DEF TypeOK, CutoffsPast
<1>1. ASSUME NEW kind \in Kinds, Append(kind)
      PROVE  Expired(rows', task[k].cutoff) \subseteq Expired(rows, task[k].cutoff)
  <2>1. /\ DOMAIN rows' = DOMAIN rows \cup {nextId}
        /\ \A i \in DOMAIN rows : i < nextId /\ rows'[i] = rows[i]
        /\ rows'[nextId].ts = now
    BY <1>1, AppendTable, AppendedRow
  <2> QED
    BY <1>0, <2>1 DEF Expired
<1>2. ASSUME DOMAIN rows' \subseteq DOMAIN rows, \A i \in DOMAIN rows' : rows'[i].ts = rows[i].ts
      PROVE  Expired(rows', task[k].cutoff) \subseteq Expired(rows, task[k].cutoff)
  BY <1>2 DEF Expired
<1>3. ASSUME NEW j \in Tasks, PruneTx(j)
      PROVE  Expired(rows', task[k].cutoff) \subseteq Expired(rows, task[k].cutoff)
  BY <1>2, <1>3, PruneTxTable
<1> QED
  BY <1>1, <1>2, <1>3, ContentStep

\* What becomes of a task's count in a step: a new COUNT, its transaction, or no
\* change until it is Idle again.
LEMMA CountKept ==
    ASSUME TypeOK, [Next]_vars, NEW k \in Tasks
    PROVE  \/ PruneCount(k)
           \/ PruneTx(k)
           \/ task'[k] = Idle
           \/ /\ task'[k] = task[k] /\ deleted'[k] = deleted[k]
           \/ /\ task[k].pc \in {"counted", "schemed"} /\ task'[k].pc \in {"schemed", "verified"}
              /\ task'[k].expired = task[k].expired /\ task'[k].cutoff = task[k].cutoff
<1>1. ASSUME NEW j \in Tasks, PruneCount(j)
      PROVE  PruneCount(k) \/ (task'[k] = task[k] /\ deleted'[k] = deleted[k])
  BY <1>1 DEF PruneCount, TypeOK
<1>2. ASSUME NEW j \in Tasks, PruneAbort(j) \/ PruneEvidence(j) \/ PruneWarn(j)
      PROVE  task'[k] = Idle \/ (task'[k] = task[k] /\ deleted'[k] = deleted[k])
  BY <1>2 DEF PruneAbort, PruneEvidence, PruneWarn, TypeOK
<1>3. ASSUME NEW j \in Tasks, PruneTx(j)
      PROVE  PruneTx(k) \/ (task'[k] = task[k] /\ deleted'[k] = deleted[k])
  BY <1>3 DEF PruneTx, TypeOK
<1>4. ASSUME NEW j \in Tasks, PruneScheme(j) \/ PruneVerify(j), j # k
      PROVE  task'[k] = task[k] /\ deleted'[k] = deleted[k]
  BY <1>4 DEF PruneScheme, PruneVerify, TypeOK
<1>5. ASSUME PruneScheme(k) \/ PruneVerify(k)
      PROVE  \/ task'[k] = Idle
             \/ /\ task[k].pc \in {"counted", "schemed"} /\ task'[k].pc \in {"schemed", "verified"}
                /\ task'[k].expired = task[k].expired /\ task'[k].cutoff = task[k].cutoff
  <2>1. CASE PruneScheme(k)
    BY <2>1 DEF PruneScheme, TypeOK
  <2>2. CASE PruneVerify(k)
    BY <2>2 DEF PruneVerify, TypeOK
  <2> QED BY <1>5, <2>1, <2>2
<1>6. ASSUME Crash PROVE task'[k] = Idle
  BY <1>6 DEF Crash
<1>7. ASSUME \/ record_tenant \/ record_read_event \/ \E i \in untraced : InsertTrace(i)
             \/ WatchBegin \/ WatchVerdict \/ WatchUnavailable
             \/ ReauditBegin \/ ReauditVerify \/ ReauditTx \/ ReauditAnchor \/ ReauditAbort
             \/ Tick \/ ClockSetBack \/ UNCHANGED vars
      PROVE  task'[k] = task[k] /\ deleted'[k] = deleted[k]
  BY <1>7 DEF record_tenant, record_read_event, InsertTrace, WatchBegin, WatchVerdict,
     WatchUnavailable, ReauditBegin, ReauditVerify, ReauditTx, ReauditAnchor, ReauditAbort,
     Tick, ClockSetBack, vars
<1> QED
  BY <1>1, <1>2, <1>3, <1>4, <1>5, <1>6, <1>7 DEF Next

\* Every step of every task keeps the counts at or above what is, or was, deleted.
LEMMA CountsStep ==
    ASSUME TypeOK, TypeOK', ~ ClockSteps, CutoffsPast, CountsCover, DeletionsCounted, [Next]_vars
    PROVE  CountsCover' /\ DeletionsCounted'
<1> SUFFICES ASSUME NEW k \in Tasks
             PROVE  /\ task'[k].pc \in {"counted", "schemed", "verified"} =>
                         Cardinality(Expired(rows', task'[k].cutoff)) <= task'[k].expired
                    /\ task'[k].pc = "committed" => deleted'[k] <= task'[k].expired
  BY DEF CountsCover, DeletionsCounted
<1>0. task[k].expired \in Nat /\ task[k].cutoff \in Int
  BY DEF TypeOK
<1>1. CASE PruneCount(k)
  <2> DEFINE r == [pc |-> "counted", cutoff |-> now - Retention,
                   expired |-> Cardinality(Expired(rows, now - Retention)),
                   scheme |-> "legacy"]
  <2>1. task'[k] = r /\ rows' = rows
    BY <1>1 DEF PruneCount, db, TypeOK
  <2>2. /\ r.pc = "counted" /\ r.cutoff = now - Retention
        /\ r.expired = Cardinality(Expired(rows, now - Retention))
    OBVIOUS
  <2>3. Cardinality(Expired(rows, now - Retention)) \in Nat
    BY ExpiredFinite
  <2> HIDE DEF r
  <2> QED BY <2>1, <2>2, <2>3
<1>2. CASE PruneTx(k)
  <2>1. /\ task[k].pc = "verified" /\ task'[k].pc = "committed"
        /\ task'[k].expired = task[k].expired
        /\ deleted'[k] = Cardinality(Expired(rows, task[k].cutoff))
    BY <1>2 DEF PruneTx, TypeOK
  <2> QED BY <2>1 DEF CountsCover
<1>3. CASE task'[k] = Idle
  BY <1>3 DEF Idle
<1>4. CASE task[k].pc \in {"counted", "schemed", "verified"}
           /\ task'[k].pc \in {"counted", "schemed", "verified"}
           /\ task'[k].expired = task[k].expired /\ task'[k].cutoff = task[k].cutoff
  <2>1. task[k] # Idle
    BY <1>4 DEF Idle
  <2>2. Expired(rows', task[k].cutoff) \subseteq Expired(rows, task[k].cutoff)
    BY <2>1, ExpiredShrinks
  <2>3. /\ IsFiniteSet(Expired(rows, task[k].cutoff))
        /\ Cardinality(Expired(rows, task[k].cutoff)) \in Nat
    BY ExpiredFinite
  <2>4. /\ Cardinality(Expired(rows', task[k].cutoff)) <= Cardinality(Expired(rows, task[k].cutoff))
        /\ Cardinality(Expired(rows', task[k].cutoff)) \in Nat
    BY <2>2, <2>3, FS_Subset, FS_CardinalityType
  <2>5. Cardinality(Expired(rows, task[k].cutoff)) <= task[k].expired
    BY <1>4 DEF CountsCover
  <2> QED BY <1>0, <1>4, <2>3, <2>4, <2>5
<1>5. CASE task'[k] = task[k] /\ deleted'[k] = deleted[k]
           /\ task[k].pc \notin {"counted", "schemed", "verified"}
  BY <1>5 DEF DeletionsCounted
<1> QED
  BY <1>1, <1>2, <1>3, <1>4, <1>5, CountKept

\* From any database, with any number of pruning tasks, kills included, while
\* the clock is not set back: the count a prune writes as evidence, or logs, is
\* never below the number of rows it deleted, whatever other prunes, appends
\* and re-anchors committed between its COUNT and its DELETE.
THEOREM DeletionsAlwaysCounted ==
    ASSUME TypedSeeds, ~ ClockSteps PROVE Spec => []DeletionsCounted
<1> DEFINE Inv == TypeOK /\ CutoffsPast /\ CountsCover /\ DeletionsCounted
<1>1. Init => Inv
  <2>1. ASSUME Init PROVE CutoffsPast /\ CountsCover /\ DeletionsCounted
    <3>1. task = [k \in Tasks |-> Idle]
      BY <2>1 DEF Init, InitFrom
    <3>2. CutoffsPast
      BY <3>1 DEF CutoffsPast
    <3>3. CountsCover /\ DeletionsCounted
      BY <3>1 DEF CountsCover, DeletionsCounted, Idle
    <3> QED BY <3>2, <3>3
  <2> QED
    BY <2>1, InitType
<1>2. Inv /\ [Next]_vars => Inv'
  BY NextType, CutoffsStep, CountsStep
<1>3. Inv => DeletionsCounted
  OBVIOUS
<1> QED BY <1>1, <1>2, <1>3, PTL DEF Spec

-----------------------------------------------------------------------------
(* The chain implements the abstract log *)

\* An append to the chain is an append to the log.
LEMMA AppendRefines ==
    ASSUME TypeOK, NEW kind \in Kinds, Append(kind), UNCHANGED now
    PROVE  Log!LogAppend
<1>1. /\ DOMAIN rows' = DOMAIN rows \cup {nextId}
      /\ \A i \in DOMAIN rows : i < nextId /\ i \in Nat /\ rows'[i] = rows[i]
      /\ rows'[nextId].ts = now /\ rows'[nextId].kind = kind
      /\ nextId' = nextId + 1 /\ nextId \in Nat
  BY AppendTable, AppendedRow DEF TypeOK
<1>2. DOMAIN Content = DOMAIN rows
  BY DEF Content
<1>3. Content' = [i \in DOMAIN Content \cup {nextId} |->
                    IF i = nextId THEN [ts |-> now, kind |-> kind] ELSE Content[i]]
  BY <1>1, <1>2 DEF Content
<1> QED
  BY <1>1, <1>3 DEF Log!LogAppend, Kinds

\* The prune's transaction trims the log at the task's cutoff.
LEMMA PruneTxRefines ==
    ASSUME TypeOK, CutoffsPast, NEW k \in Tasks, PruneTx(k)
    PROVE  Log!LogTrim
<1>1. /\ DOMAIN rows' = {i \in DOMAIN rows : rows[i].ts >= task[k].cutoff}
      /\ \A i \in DOMAIN rows' : rows'[i].ts = rows[i].ts /\ rows'[i].kind = rows[i].kind
      /\ task[k] # Idle
      /\ UNCHANGED <<nextId, now>>
  BY PruneTxTable
<1>2. task[k].cutoff \in 0 .. now - Retention
  BY <1>1 DEF CutoffsPast
<1>3. DOMAIN Content = DOMAIN rows /\ \A i \in DOMAIN rows : Content[i].ts = rows[i].ts
  BY DEF Content
<1>4. {i \in DOMAIN Content : Content[i].ts >= task[k].cutoff} = DOMAIN rows'
  BY <1>1, <1>3
<1>5. Content' = [i \in DOMAIN rows' |-> Content[i]]
  BY <1>1 DEF Content
<1> QED
  BY <1>1, <1>2, <1>4, <1>5 DEF Log!LogTrim

\* Every other action leaves the content alone, and the clock ticks or stands.
LEMMA StepRefines ==
    ASSUME TypeOK, CutoffsPast, ~ ClockSteps, [Next]_vars
    PROVE  Log!LogNext \/ UNCHANGED Log!lvars
<1>1. ASSUME NEW kind \in Kinds, Append(kind), UNCHANGED now PROVE Log!LogNext
  BY <1>1, AppendRefines DEF Log!LogNext
<1>2. ASSUME NEW k \in Tasks, PruneTx(k) PROVE Log!LogNext
  BY <1>2, PruneTxRefines DEF Log!LogNext
<1>3. ASSUME DOMAIN rows' = DOMAIN rows, UNCHANGED nextId,
             \A i \in DOMAIN rows : rows'[i].ts = rows[i].ts /\ rows'[i].kind = rows[i].kind
      PROVE  Log!LogNext \/ UNCHANGED Log!lvars
  <2>1. Content' = Content
    BY <1>3 DEF Content
  <2>2. now' = now \/ now' = now + 1
    BY ClockAdvances
  <2> QED
    BY <1>3, <2>1, <2>2 DEF Log!LogNext, Log!LogTick, Log!lvars
<1> QED
  BY <1>1, <1>2, <1>3, ContentStep

\* From any database, while nobody sets the clock back, the chain with its
\* links, pins, epochs, prunes, re-anchors and kills is the abstract log: a row
\* is appended under a fresh id and keeps its content, and rows leave only
\* when they are older than the retention window, all of them at once.
THEOREM ChainImplementsLog ==
    ASSUME TypedSeeds, ~ ClockSteps PROVE Spec => ImplementsLog
<1>1. Init => TypeOK /\ CutoffsPast
  <2>1. Init => CutoffsPast
    BY DEF Init, InitFrom, CutoffsPast
  <2> QED
    BY <2>1, InitType
<1>2. TypeOK /\ CutoffsPast /\ [Next]_vars => (TypeOK /\ CutoffsPast)'
  BY NextType, CutoffsStep
<1>3. TypeOK => Log!LogInit
  BY DEF TypeOK, Log!LogInit, Content
<1>4. TypeOK /\ CutoffsPast /\ [Next]_vars => [Log!LogNext]_(Log!lvars)
  BY StepRefines
<1> QED BY <1>1, <1>2, <1>3, <1>4, PTL DEF Spec, ImplementsLog, Log!LogSpec

-----------------------------------------------------------------------------
(* Opening a database *)

\* A pin of the first or of the last row under the chain's scheme matches it.
LEMMA PinMatches ==
    ASSUME NEW s \in Schemes, NEW t, IsTable(t), NEW i \in DOMAIN t
    PROVE  /\ IsFirst(t, i) => GenesisMatches(s, t, PinFor(s, t, i))
           /\ IsTip(t, i) => HeadMatches(s, t, PinFor(s, t, i))
BY PinForType DEF GenesisMatches, HeadMatches

\* A pin matches on its id and its hash alone: a MAC may be added to it.
LEMMA MacMatches ==
    ASSUME NEW pin \in Pin
    PROVE  /\ [pin EXCEPT !.mac = TRUE] \in Pin
           /\ [pin EXCEPT !.mac = TRUE] # NoPin
           /\ [pin EXCEPT !.mac = TRUE].mac = TRUE
           /\ [pin EXCEPT !.mac = TRUE].id = pin.id
           /\ [pin EXCEPT !.mac = TRUE].hash = pin.hash
BY DEF Pin, NoPin

\* What OldDb says, part by part.
LEMMA OldDbParts ==
    ASSUME NEW e, NEW t, NEW h, NEW g
    PROVE  OldDb(e, t, h, g) <=>
             /\ NullPrefix(t) /\ Walk(read_epoch(e), t)
             /\ GenesisMatches(read_epoch(e), t, g)
             /\ HeadMatches(read_epoch(e), t, h)
             /\ DOMAIN t # {} => /\ h = NoPin => read_epoch(e) = "legacy"
                                 /\ g = NoPin => e # "sha7"
BY DEF OldDb, verify_chain_inner

\* A chain without rows has no pins, and its pins are in order.
LEMMA RowlessPins ==
    ASSUME NEW e, NEW t, NEW h, NEW g, OldDb(e, t, h, g), DOMAIN t = {}
    PROVE  h = NoPin /\ g = NoPin /\ \A s : PinsPresent(s, t, h, g)
<1>1. h = NoPin /\ g = NoPin
  BY OldDbParts DEF GenesisMatches, HeadMatches, IsFirst, IsTip
<1> QED BY <1>1 DEF PinsPresent

\* An append to the chain of an earlier release leaves such a chain, and one
\* whose pins are complete when they were.
LEMMA AppendOld ==
    ASSUME TypeOK, NEW kind \in Kinds, Append(kind), OldDb(epoch, rows, head, genesis)
    PROVE  /\ OldDb(epoch', rows', head', genesis')
           /\ epoch' # epoch => epoch = Unstamped /\ epoch' = "sha7" /\ DOMAIN rows = {}
           /\ epoch = Unstamped /\ DOMAIN rows = {} => epoch' = "sha7"
           /\ DOMAIN rows' # {}
           /\ PinsPresent(read_epoch(epoch), rows, head, genesis) =>
                PinsPresent(read_epoch(epoch'), rows', head', genesis')
<1> DEFINE s == read_epoch(epoch')
<1>1. NullPrefix(rows) /\ Walk(read_epoch(epoch), rows) /\ GenesisMatches(read_epoch(epoch), rows, genesis)
  BY OldDbParts
<1>2. /\ IsTable(rows')
      /\ DOMAIN rows' = DOMAIN rows \cup {nextId}
      /\ \A i \in DOMAIN rows : i < nextId /\ i \in Nat /\ rows'[i] = rows[i]
      /\ epoch' \in Schemes \cup {Unstamped}
  BY AppendTable
<1>3. /\ NullPrefix(rows') /\ Walk(s, rows')
      /\ head' = PinFor(s, rows', nextId) /\ IsTip(rows', nextId)
      /\ \/ /\ DOMAIN rows = {}
            /\ genesis' = PinFor(s, rows', nextId)
            /\ IsFirst(rows', nextId)
         \/ /\ DOMAIN rows # {} /\ genesis' = genesis /\ epoch' = epoch
            /\ \A i : IsFirst(rows, i) => IsFirst(rows', i)
  BY <1>1, AppendLinks
<1>4. s \in Schemes
  BY <1>2 DEF read_epoch, Schemes, Unstamped
<1>5. epoch' = (IF epoch = Unstamped /\ DOMAIN rows = {} THEN "sha7" ELSE epoch)
  BY AppendEffect
<1> HIDE DEF s
<1>6. HeadMatches(s, rows', head') /\ head' # NoPin /\ (s = "hmac256" => head'.mac)
  BY <1>2, <1>3, <1>4, PinMatches, PinForType
<1>7. CASE /\ DOMAIN rows = {}
           /\ genesis' = PinFor(s, rows', nextId)
           /\ IsFirst(rows', nextId)
  <2>1. GenesisMatches(s, rows', genesis') /\ genesis' # NoPin /\ (s = "hmac256" => genesis'.mac)
    BY <1>2, <1>4, <1>7, PinMatches, PinForType
  <2>2. OldDb(epoch', rows', head', genesis')
    BY <1>3, <1>6, <2>1, OldDbParts DEF s
  <2>3. PinsPresent(s, rows', head', genesis')
    BY <1>6, <2>1 DEF PinsPresent
  <2> QED BY <1>2, <1>5, <1>7, <2>2, <2>3 DEF s
<1>8. CASE /\ DOMAIN rows # {} /\ genesis' = genesis /\ epoch' = epoch
           /\ \A i : IsFirst(rows, i) => IsFirst(rows', i)
  <2>1. GenesisMatches(s, rows', genesis')
    BY <1>1, <1>2, <1>8 DEF GenesisMatches, IsFirst, s
  <2>2. genesis = NoPin => epoch # "sha7"
    BY <1>8, OldDbParts
  <2>3. OldDb(epoch', rows', head', genesis')
    BY <1>3, <1>6, <1>8, <2>1, <2>2, OldDbParts DEF s
  <2>4. ASSUME PinsPresent(read_epoch(epoch), rows, head, genesis)
        PROVE  PinsPresent(s, rows', head', genesis')
    BY <1>6, <1>8, <2>4 DEF PinsPresent, s
  <2> QED BY <1>2, <1>5, <1>8, <2>3, <2>4 DEF s
<1> QED BY <1>3, <1>7, <1>8

\* The prune's transaction, run with the scheme of the chain, leaves the chain
\* and the pins the current release writes.
LEMMA PruneTxOld ==
    ASSUME TypeOK, NEW k \in Tasks, PruneTx(k), OldDb(epoch, rows, head, genesis),
           task[k].scheme = read_epoch(epoch)
    PROVE  /\ OldDb(epoch', rows', head', genesis')
           /\ epoch' = epoch
           /\ DOMAIN rows' \subseteq DOMAIN rows
           /\ PinsPresent(read_epoch(epoch'), rows', head', genesis')
<1> DEFINE S == DOMAIN rows \ Expired(rows, task[k].cutoff)
<1> DEFINE s == read_epoch(epoch)
<1>1. s \in Schemes /\ epoch' = epoch
  BY DEF TypeOK, read_epoch, Schemes, Unstamped, PruneTx
<1>2. rows' = Relink(s, rows, S) /\ RefreshPins(s, rows')
  BY DEF PruneTx
<1>3. IsTable(rows) /\ NullPrefix(rows) /\ S \subseteq DOMAIN rows
  BY OldDbParts DEF TypeOK
<1> HIDE DEF S, s
<1>4. IsTable(rows') /\ DOMAIN rows' = S /\ Walk(s, rows') /\ NullPrefix(rows')
  BY <1>1, <1>2, <1>3, RelinkTable, RelinkWalk
<1>5. PinsExact(s, rows', head', genesis')
  BY <1>1, <1>2, <1>4, RefreshType
<1>6. CASE DOMAIN rows' = {} /\ head' = NoPin /\ genesis' = NoPin
  <2>1. /\ GenesisMatches(s, rows', genesis') /\ HeadMatches(s, rows', head')
        /\ PinsPresent(s, rows', head', genesis')
    BY <1>6 DEF GenesisMatches, HeadMatches, PinsPresent
  <2> QED BY <1>1, <1>3, <1>4, <1>6, <2>1, OldDbParts DEF s
<1>7. CASE \E tip, first \in DOMAIN rows' :
             /\ IsTip(rows', tip) /\ IsFirst(rows', first)
             /\ head' = PinFor(s, rows', tip) /\ genesis' = PinFor(s, rows', first)
  <2>1. PICK tip \in DOMAIN rows', first \in DOMAIN rows' :
             /\ IsTip(rows', tip) /\ IsFirst(rows', first)
             /\ head' = PinFor(s, rows', tip) /\ genesis' = PinFor(s, rows', first)
    BY <1>7
  <2>2. /\ GenesisMatches(s, rows', genesis') /\ HeadMatches(s, rows', head')
        /\ head' # NoPin /\ genesis' # NoPin
        /\ s = "hmac256" => head'.mac /\ genesis'.mac
    BY <1>1, <1>4, <2>1, PinMatches, PinForType
  <2>3. PinsPresent(s, rows', head', genesis')
    BY <2>2 DEF PinsPresent
  <2> QED BY <1>1, <1>3, <1>4, <2>2, <2>3, OldDbParts DEF s
<1> QED BY <1>5, <1>6, <1>7 DEF PinsExact

-----------------------------------------------------------------------------
(* The steps of an opener *)

\* A process that is not started has read nothing.
LEMMA OffType ==
    /\ Off \in [pc : OpenerPoints, scheme : Schemes, pin : Pin, pin2 : Pin]
    /\ NoPin \in Pin
BY DEF Off, OpenerPoints, Schemes, Pin, NoPin, Hash, NULL

\* A step that only moves the program counter.
LEMMA GotoFacts ==
    ASSUME BootTypeOK, NEW o \in Openers, NEW pc \in OpenerPoints, Goto(o, pc)
    PROVE  /\ opener' \in [Openers -> [pc : OpenerPoints, scheme : Schemes, pin : Pin, pin2 : Pin]]
           /\ opener'[o].pc = pc
           /\ opener'[o].scheme = opener[o].scheme
           /\ opener'[o].pin = opener[o].pin /\ opener'[o].pin2 = opener[o].pin2
           /\ \A p \in Openers \ {o} : opener'[p] = opener[p]
BY DEF BootTypeOK, Goto

\* Nobody else has the database open while an opener is at work, so what it
\* has read stays current, and no prune is under way.
LEMMA OpenerStep ==
    ASSUME BootTypeOK, BootInv, Orderly', NEW o \in Openers,
           opener' \in [Openers -> [pc : OpenerPoints, scheme : Schemes, pin : Pin, pin2 : Pin]],
           \A p \in Openers \ {o} : opener'[p] = opener[p],
           opener[o].pc # "up",
           opener[o].pc # "off" \/ opener'[o].pc # "off",
           UNCHANGED <<rows, nextId, rest, kills>>,
           epoch' \in {epoch, "hmac256"}, head' \in Pin, genesis' \in Pin,
           OldDb(epoch', rows', head', genesis'),
           OpenerCurrent(o)'
    PROVE  BootTypeOK' /\ BootInv'
<1>1. UNCHANGED <<rows, nextId, traces, now, keyed, untraced, task, watch, reaudit, crashes, deleted>>
  BY DEF rest
<1>2. TypeOK'
  BY <1>1 DEF BootTypeOK, TypeOK, Schemes
<1>3. BootTypeOK'
  BY <1>2 DEF BootTypeOK
<1>4. ASSUME NEW p \in Openers \ {o}
      PROVE  opener[p].pc = "off" /\ opener'[p].pc = "off"
  BY DEF BootInv, Orderly, At
<1>5. ASSUME NEW p \in Openers PROVE OpenerCurrent(p)'
  <2>1. CASE p = o
    BY <2>1
  <2>2. CASE p # o
    <3>1. opener'[p].pc = "off"
      BY <1>4, <2>2
    <3> QED BY <3>1 DEF OpenerCurrent
  <2> QED BY <2>1, <2>2
<1>6. \A k \in Tasks : task[k] = Idle
  BY <1>4 DEF BootInv, PrunesCurrent, At, Openers
<1>7. PrunesCurrent'
  BY <1>1, <1>6 DEF BootInv, PrunesCurrent, OneTask, Idle, Unstamped
<1> QED BY <1>1, <1>3, <1>5, <1>7 DEF BootInv

\* What every opener step starts from: the parts of the invariant.
LEMMA OpenerFacts ==
    ASSUME BootTypeOK, BootInv, NEW o \in Openers
    PROVE  /\ IsTable(rows) /\ head \in Pin /\ genesis \in Pin
           /\ epoch \in Schemes \cup {Unstamped} /\ read_epoch(epoch) \in Schemes
           /\ "legacy" \in Schemes
           /\ opener[o].scheme \in Schemes /\ opener[o].pin \in Pin /\ opener[o].pin2 \in Pin
           /\ OldDb(epoch, rows, head, genesis)
           /\ OpenerCurrent(o)
<1>1. epoch \in Schemes \cup {Unstamped}
  BY DEF BootTypeOK, TypeOK
<1>2. read_epoch(epoch) \in Schemes /\ "legacy" \in Schemes
  BY <1>1 DEF read_epoch, Schemes
<1> QED BY <1>1, <1>2 DEF BootTypeOK, TypeOK, BootInv

\* The migration's two pins, read.
LEMMA MigrateReads ==
    ASSUME BootTypeOK, BootInv, Orderly', NEW o \in Openers,
           MigrateHead(o) \/ MigrateGenesis(o)
    PROVE  BootTypeOK' /\ BootInv'
<1>1. UNCHANGED <<rows, nextId, epoch, head, genesis, rest, kills>>
  BY DEF MigrateHead, MigrateGenesis, db
<1>2. opener[o].pc \in {"off", "migrateGenesis"}
  BY DEF MigrateHead, MigrateGenesis, At
<1>3. CASE Goto(o, "migrateGenesis") \/ Goto(o, "bootstrap")
  <2>1. PICK pc \in {"migrateGenesis", "bootstrap"} :
          Goto(o, pc) /\ (pc = "migrateGenesis" => o \in Servers)
    BY <1>3, OpenerFacts DEF MigrateHead, MigrateGenesis, At, OpenerCurrent
  <2>2. pc \in OpenerPoints
    BY <2>1 DEF OpenerPoints
  <2>3. OpenerCurrent(o)'
    BY <2>1, <2>2, GotoFacts DEF OpenerCurrent
  <2> QED BY <1>1, <1>2, <2>1, <2>2, <2>3, GotoFacts, OpenerFacts, OpenerStep
<1>4. ASSUME NEW tip \in DOMAIN rows, head = NoPin, IsTip(rows, tip),
             o \in Servers,
             opener' = [opener EXCEPT ![o].pc = "stampHead",
                                      ![o].pin = PinFor("legacy", rows, tip)]
      PROVE  BootTypeOK' /\ BootInv'
  <2> DEFINE pin == PinFor("legacy", rows, tip)
  <2>1. pin \in Pin
    BY OpenerFacts, PinForType
  <2>2. "stampHead" \in OpenerPoints
    BY DEF OpenerPoints
  <2> HIDE DEF pin
  <2>3. /\ opener' \in [Openers -> [pc : OpenerPoints, scheme : Schemes, pin : Pin, pin2 : Pin]]
        /\ \A p \in Openers \ {o} : opener'[p] = opener[p]
        /\ opener'[o].pc = "stampHead" /\ opener'[o].pin = pin
    BY <1>4, <2>1, <2>2 DEF BootTypeOK, pin
  <2>4. read_epoch(epoch) = "legacy"
    BY <1>4, OpenerFacts, OldDbParts
  <2>5. OpenerCurrent(o)'
    BY <1>1, <1>4, <2>3, <2>4 DEF OpenerCurrent, pin
  <2> QED BY <1>1, <1>2, <2>3, <2>5, OpenerFacts, OpenerStep
<1>5. ASSUME NEW first \in DOMAIN rows, genesis = NoPin, IsFirst(rows, first), MigrateGenesis(o),
             opener' = [opener EXCEPT ![o].pc = "stampGenesis",
                                      ![o].pin = PinFor("legacy", rows, first)]
      PROVE  BootTypeOK' /\ BootInv'
  <2> DEFINE pin == PinFor("legacy", rows, first)
  <2>1. pin \in Pin
    BY OpenerFacts, PinForType
  <2>2. "stampGenesis" \in OpenerPoints
    BY DEF OpenerPoints
  <2> HIDE DEF pin
  <2>3. /\ opener' \in [Openers -> [pc : OpenerPoints, scheme : Schemes, pin : Pin, pin2 : Pin]]
        /\ \A p \in Openers \ {o} : opener'[p] = opener[p]
        /\ opener'[o].pc = "stampGenesis" /\ opener'[o].pin = pin
    BY <1>5, <2>1, <2>2 DEF BootTypeOK, pin
  <2>4. epoch # "sha7"
    BY <1>5, OpenerFacts, OldDbParts
  <2>5. o \in Servers
    BY <1>5, OpenerFacts DEF OpenerCurrent, MigrateGenesis, At
  <2>6. epoch # "hmac256"
    BY <1>1, <1>5, <2>3, <2>5 DEF Orderly, At
  <2>7. read_epoch(epoch) = "legacy"
    BY <2>4, <2>6, OpenerFacts DEF read_epoch, Schemes
  <2>8. OpenerCurrent(o)'
    BY <1>1, <1>5, <2>3, <2>7 DEF OpenerCurrent, pin
  <2> QED BY <1>1, <1>2, <2>3, <2>8, OpenerFacts, OpenerStep
<1> QED BY <1>3, <1>4, <1>5 DEF MigrateHead, MigrateGenesis

\* The migration's two pins, written.
LEMMA MigrateStamps ==
    ASSUME BootTypeOK, BootInv, Orderly', NEW o \in Openers,
           StampHead(o) \/ StampGenesis(o)
    PROVE  BootTypeOK' /\ BootInv'
<1> DEFINE s == read_epoch(epoch)
<1>1. CASE StampHead(o)
  <2>1. /\ UNCHANGED <<rows, nextId, epoch, genesis, rest, kills>>
        /\ opener[o].pc = "stampHead" /\ head' = opener[o].pin /\ Goto(o, "migrateGenesis")
    BY <1>1 DEF StampHead, At
  <2>2. "migrateGenesis" \in OpenerPoints
    BY DEF OpenerPoints
  <2>3. o \in Servers /\ s = "legacy"
    BY <2>1, OpenerFacts DEF OpenerCurrent
  <2>4. PICK tip \in DOMAIN rows : IsTip(rows, tip) /\ opener[o].pin = PinFor("legacy", rows, tip)
    BY <2>1, OpenerFacts DEF OpenerCurrent
  <2>5. HeadMatches(s, rows, head') /\ head' \in Pin /\ head' # NoPin
    BY <2>1, <2>3, <2>4, OpenerFacts, PinMatches, PinForType
  <2>6. OldDb(epoch', rows', head', genesis')
    BY <2>1, <2>5, OpenerFacts, OldDbParts
  <2>7. OpenerCurrent(o)'
    BY <2>1, <2>2, <2>3, GotoFacts DEF OpenerCurrent
  <2>8. genesis' \in Pin
    BY <2>1, OpenerFacts
  <2> QED BY <2>1, <2>2, <2>5, <2>6, <2>7, <2>8, GotoFacts, OpenerStep
<1>2. CASE StampGenesis(o)
  <2>1. /\ UNCHANGED <<rows, nextId, epoch, head, rest, kills>>
        /\ opener[o].pc = "stampGenesis" /\ genesis' = opener[o].pin /\ Goto(o, "bootstrap")
    BY <1>2 DEF StampGenesis, At
  <2>2. "bootstrap" \in OpenerPoints
    BY DEF OpenerPoints
  <2>3. s = "legacy"
    BY <2>1, OpenerFacts DEF OpenerCurrent
  <2>4. PICK first \in DOMAIN rows :
          IsFirst(rows, first) /\ opener[o].pin = PinFor("legacy", rows, first)
    BY <2>1, OpenerFacts DEF OpenerCurrent
  <2>5. GenesisMatches(s, rows, genesis') /\ genesis' \in Pin /\ genesis' # NoPin
    BY <2>1, <2>3, <2>4, OpenerFacts, PinMatches, PinForType
  <2>6. OldDb(epoch', rows', head', genesis')
    BY <2>1, <2>5, OpenerFacts, OldDbParts
  <2>7. OpenerCurrent(o)'
    BY <2>1, <2>2, GotoFacts DEF OpenerCurrent
  <2>8. head' \in Pin
    BY <2>1, OpenerFacts
  <2> QED BY <2>1, <2>2, <2>5, <2>6, <2>7, <2>8, GotoFacts, OpenerStep
<1> QED BY <1>1, <1>2

\* bootstrap_epoch: the row count it read still holds when it stamps.
LEMMA Bootstraps ==
    ASSUME BootTypeOK, BootInv, Orderly', NEW o \in Openers,
           BootstrapCheck(o) \/ BootstrapStamp(o)
    PROVE  BootTypeOK' /\ BootInv'
<1>1. CASE BootstrapCheck(o)
  <2>1. /\ UNCHANGED <<rows, nextId, epoch, head, genesis, rest, kills>>
        /\ opener[o].pc = "bootstrap"
    BY <1>1 DEF BootstrapCheck, At, db
  <2>2. PICK pc \in {"stampEpoch", "upgrade"} :
          Goto(o, pc) /\ (pc = "stampEpoch" => DOMAIN rows = {})
    BY <1>1 DEF BootstrapCheck
  <2>3. pc \in OpenerPoints
    BY DEF OpenerPoints
  <2>4. OpenerCurrent(o)'
    BY <2>1, <2>2, <2>3, GotoFacts DEF OpenerCurrent
  <2> QED BY <2>1, <2>2, <2>3, <2>4, GotoFacts, OpenerFacts, OpenerStep
<1>2. CASE BootstrapStamp(o)
  <2>1. /\ UNCHANGED <<rows, nextId, head, genesis, rest, kills>>
        /\ opener[o].pc = "stampEpoch" /\ epoch' = "hmac256" /\ Goto(o, "upgrade")
    BY <1>2 DEF BootstrapStamp, At
  <2>2. "upgrade" \in OpenerPoints
    BY DEF OpenerPoints
  <2>3. DOMAIN rows = {}
    BY <2>1, OpenerFacts DEF OpenerCurrent
  <2>4. head = NoPin /\ genesis = NoPin
    BY <2>3, OpenerFacts, RowlessPins
  <2>5. OldDb(epoch', rows', head', genesis')
    BY <2>1, <2>3, <2>4, OldDbParts DEF NullPrefix, Walk, GenesisMatches, HeadMatches
  <2>6. OpenerCurrent(o)'
    BY <2>1, <2>2, GotoFacts DEF OpenerCurrent
  <2>7. head' \in Pin /\ genesis' \in Pin
    BY <2>1, OpenerFacts
  <2> QED BY <2>1, <2>2, <2>5, <2>6, <2>7, GotoFacts, OpenerStep
<1> QED BY <1>1, <1>2

\* upgrade_pins begins: on its fast path the pins are all there.
LEMMA UpgradeBegins ==
    ASSUME BootTypeOK, BootInv, Orderly', NEW o \in Openers, UpgradeBegin(o)
    PROVE  BootTypeOK' /\ BootInv'
<1> DEFINE s == read_epoch(epoch)
<1>1. /\ UNCHANGED <<rows, nextId, epoch, head, genesis, rest, kills>>
      /\ opener[o].pc \in {"off", "upgrade"}
  BY DEF UpgradeBegin, At, db
<1>2. ASSUME NEW first \in DOMAIN rows, IsFirst(rows, first),
             opener' = [opener EXCEPT ![o] =
                          [Off EXCEPT !.pc = "tolerantWalk", !.scheme = read_epoch(epoch),
                                      !.pin = PinFor(read_epoch(epoch), rows, first)]]
      PROVE  BootTypeOK' /\ BootInv'
  <2> DEFINE pin == PinFor(s, rows, first)
  <2>1. pin \in Pin /\ s \in Schemes
    BY OpenerFacts, PinForType
  <2>2. "tolerantWalk" \in OpenerPoints
    BY DEF OpenerPoints
  <2>3. opener' = [opener EXCEPT ![o] = [Off EXCEPT !.pc = "tolerantWalk", !.scheme = s, !.pin = pin]]
    BY <1>2
  <2> HIDE DEF pin, s
  <2>4. /\ opener' \in [Openers -> [pc : OpenerPoints, scheme : Schemes, pin : Pin, pin2 : Pin]]
        /\ \A p \in Openers \ {o} : opener'[p] = opener[p]
        /\ opener'[o].pc = "tolerantWalk" /\ opener'[o].pin = pin /\ opener'[o].scheme = s
    BY <2>1, <2>2, <2>3, OffType DEF BootTypeOK
  <2>5. OpenerCurrent(o)'
    BY <1>1, <1>2, <2>4 DEF OpenerCurrent, pin, s
  <2> QED BY <1>1, <2>4, <2>5, OpenerFacts, OpenerStep
<1>3. CASE /\ \/ ~ CanCompute(epoch, keyed)
              \/ DOMAIN rows = {}
              \/ genesis # NoPin /\ MacsDone(read_epoch(epoch))
           /\ Goto(o, "up")
  <2>1. "up" \in OpenerPoints /\ UNCHANGED keyed
    BY <1>1 DEF OpenerPoints, rest
  <2>2. CanCompute(epoch, keyed) => PinsPresent(s, rows, head, genesis)
    <3>1. CASE DOMAIN rows = {}
      BY <3>1, OpenerFacts, RowlessPins
    <3>2. CASE DOMAIN rows # {} /\ genesis # NoPin /\ MacsDone(s)
      <4>1. head = NoPin => s # "hmac256"
        BY <3>2, OpenerFacts, OldDbParts
      <4> QED BY <3>2, <4>1 DEF PinsPresent, MacsDone
    <3> QED BY <1>3, <3>1, <3>2
  <2>3. OpenerCurrent(o)'
    BY <1>1, <1>3, <2>1, <2>2, GotoFacts DEF OpenerCurrent
  <2> QED BY <1>1, <1>3, <2>1, <2>3, GotoFacts, OpenerFacts, OpenerStep
<1> QED BY <1>2, <1>3 DEF UpgradeBegin

\* The tolerant walk passes on the chains of earlier releases, and the missing
\* genesis pin is the one of the first row.
LEMMA UpgradeWalks ==
    ASSUME BootTypeOK, BootInv, Orderly', NEW o \in Openers,
           UpgradeWalk(o) \/ UpgradeGenesis(o) \/ ReadPins(o)
    PROVE  BootTypeOK' /\ BootInv'
<1> DEFINE s == read_epoch(epoch)
<1>1. CASE UpgradeWalk(o)
  <2>1. /\ UNCHANGED <<rows, nextId, epoch, head, genesis, rest, kills>>
        /\ opener[o].pc = "tolerantWalk"
    BY <1>1 DEF UpgradeWalk, At, db
  <2>2. verify_chain_inner(epoch, rows, head, genesis, FALSE)
    BY OpenerFacts DEF OldDb
  <2>3. PICK pc \in {"upgradeGenesis", "readPins"} :
          Goto(o, pc) /\ (pc = "readPins" => genesis # NoPin)
    BY <1>1, <2>2 DEF UpgradeWalk
  <2>4. pc \in OpenerPoints
    BY DEF OpenerPoints
  <2>5. OpenerCurrent(o)'
    BY <2>1, <2>3, <2>4, GotoFacts, OpenerFacts DEF OpenerCurrent
  <2> QED BY <2>1, <2>3, <2>4, <2>5, GotoFacts, OpenerFacts, OpenerStep
<1>2. CASE UpgradeGenesis(o)
  <2>1. /\ UNCHANGED <<rows, nextId, epoch, head, rest, kills>>
        /\ opener[o].pc = "upgradeGenesis" /\ genesis' = opener[o].pin /\ Goto(o, "readPins")
    BY <1>2 DEF UpgradeGenesis, At
  <2>2. "readPins" \in OpenerPoints
    BY DEF OpenerPoints
  <2>3. opener[o].scheme = s
    BY <2>1, OpenerFacts DEF OpenerCurrent
  <2>4. PICK first \in DOMAIN rows :
          IsFirst(rows, first) /\ opener[o].pin = PinFor(s, rows, first)
    BY <2>1, <2>3, OpenerFacts DEF OpenerCurrent
  <2>5. GenesisMatches(s, rows, genesis') /\ genesis' \in Pin /\ genesis' # NoPin
    BY <2>1, <2>4, OpenerFacts, PinMatches, PinForType
  <2>6. OldDb(epoch', rows', head', genesis')
    BY <2>1, <2>5, OpenerFacts, OldDbParts
  <2>7. OpenerCurrent(o)'
    BY <2>1, <2>2, <2>3, <2>5, GotoFacts DEF OpenerCurrent
  <2>8. head' \in Pin
    BY <2>1, OpenerFacts
  <2> QED BY <2>1, <2>2, <2>5, <2>6, <2>7, <2>8, GotoFacts, OpenerStep
<1>3. CASE ReadPins(o)
  <2>1. /\ UNCHANGED <<rows, nextId, epoch, head, genesis, rest, kills>>
        /\ opener[o].pc = "readPins"
        /\ opener' = [opener EXCEPT ![o].pc = "macHead", ![o].pin = head, ![o].pin2 = genesis]
    BY <1>3 DEF ReadPins, At, db
  <2>2. "macHead" \in OpenerPoints
    BY DEF OpenerPoints
  <2>3. /\ opener' \in [Openers -> [pc : OpenerPoints, scheme : Schemes, pin : Pin, pin2 : Pin]]
        /\ \A p \in Openers \ {o} : opener'[p] = opener[p]
        /\ opener'[o].pc = "macHead" /\ opener'[o].pin = head /\ opener'[o].pin2 = genesis
        /\ opener'[o].scheme = opener[o].scheme
    BY <2>1, <2>2, OpenerFacts DEF BootTypeOK
  <2>4. OpenerCurrent(o)'
    BY <2>1, <2>3, OpenerFacts DEF OpenerCurrent
  <2> QED BY <2>1, <2>3, <2>4, OpenerFacts, OpenerStep
<1> QED BY <1>1, <1>2, <1>3

\* The pins get the MACs their scheme asks for, and nothing else changes.
LEMMA UpgradeMacs ==
    ASSUME BootTypeOK, BootInv, Orderly', NEW o \in Openers,
           MacHead(o) \/ MacGenesis(o)
    PROVE  BootTypeOK' /\ BootInv'
<1> DEFINE s == read_epoch(epoch)
<1>0. /\ HeadMatches(s, rows, head) /\ GenesisMatches(s, rows, genesis)
      /\ DOMAIN rows # {} /\ s = "hmac256" => head # NoPin
  BY OpenerFacts, OldDbParts
<1>1. CASE MacHead(o)
  <2>1. /\ UNCHANGED <<rows, nextId, epoch, genesis, rest, kills>>
        /\ opener[o].pc = "macHead" /\ Goto(o, "macGenesis")
        /\ head' = IF NeedsMac(o, opener[o].pin) THEN [opener[o].pin EXCEPT !.mac = TRUE] ELSE head
    BY <1>1 DEF MacHead, At
  <2>2. "macGenesis" \in OpenerPoints
    BY DEF OpenerPoints
  <2>3. opener[o].pin = head /\ opener[o].scheme = s /\ genesis # NoPin /\ opener[o].pin2 = genesis
    BY <2>1, OpenerFacts DEF OpenerCurrent
  <2>4. DOMAIN rows # {}
    BY <1>0, <2>3 DEF GenesisMatches, IsFirst
  <2>5. head.mac \in BOOLEAN
    BY OpenerFacts DEF Pin
  <2>6. /\ head' \in Pin /\ HeadMatches(s, rows, head')
        /\ head # NoPin => head' # NoPin
        /\ s = "hmac256" => head'.mac
    <3>1. CASE NeedsMac(o, head)
      BY <1>0, <2>1, <2>3, <3>1, OpenerFacts, MacMatches DEF HeadMatches, NeedsMac
    <3>2. CASE ~ NeedsMac(o, head)
      BY <1>0, <2>1, <2>3, <2>4, <2>5, <3>2, OpenerFacts DEF NeedsMac
    <3> QED BY <3>1, <3>2
  <2>7. OldDb(epoch', rows', head', genesis')
    BY <2>1, <2>6, OpenerFacts, OldDbParts
  <2>8. OpenerCurrent(o)'
    BY <2>1, <2>2, <2>3, <2>6, GotoFacts DEF OpenerCurrent
  <2>9. genesis' \in Pin
    BY <2>1, OpenerFacts
  <2> QED BY <2>1, <2>2, <2>6, <2>7, <2>8, <2>9, GotoFacts, OpenerStep
<1>2. CASE MacGenesis(o)
  <2>1. /\ UNCHANGED <<rows, nextId, epoch, head, rest, kills>>
        /\ opener[o].pc = "macGenesis"
        /\ genesis' = IF NeedsMac(o, opener[o].pin2) THEN [opener[o].pin2 EXCEPT !.mac = TRUE]
                                                    ELSE genesis
        /\ opener' = [opener EXCEPT ![o] = [Off EXCEPT !.pc = "up"]]
    BY <1>2 DEF MacGenesis, At
  <2>2. "up" \in OpenerPoints
    BY DEF OpenerPoints
  <2>3. /\ opener[o].pin2 = genesis /\ opener[o].scheme = s /\ genesis # NoPin
        /\ s = "hmac256" => head.mac
    BY <2>1, OpenerFacts DEF OpenerCurrent
  <2>4. DOMAIN rows # {}
    BY <1>0, <2>3 DEF GenesisMatches, IsFirst
  <2>5. genesis.mac \in BOOLEAN
    BY OpenerFacts DEF Pin
  <2>6. /\ genesis' \in Pin /\ GenesisMatches(s, rows, genesis')
        /\ genesis' # NoPin
        /\ s = "hmac256" => genesis'.mac
    <3>1. CASE NeedsMac(o, genesis)
      BY <1>0, <2>1, <2>3, <3>1, OpenerFacts, MacMatches DEF GenesisMatches, NeedsMac
    <3>2. CASE ~ NeedsMac(o, genesis)
      BY <1>0, <2>1, <2>3, <2>4, <2>5, <3>2, OpenerFacts DEF NeedsMac
    <3> QED BY <3>1, <3>2
  <2>7. OldDb(epoch', rows', head', genesis')
    BY <2>1, <2>6, OpenerFacts, OldDbParts
  <2>8. /\ opener' \in [Openers -> [pc : OpenerPoints, scheme : Schemes, pin : Pin, pin2 : Pin]]
        /\ \A p \in Openers \ {o} : opener'[p] = opener[p]
        /\ opener'[o].pc = "up"
    BY <2>1, <2>2, OffType DEF BootTypeOK
  <2>9. PinsPresent(s, rows, head', genesis')
    BY <1>0, <2>1, <2>3, <2>4, <2>6 DEF PinsPresent
  <2>10. OpenerCurrent(o)'
    BY <2>1, <2>8, <2>9 DEF OpenerCurrent
  <2>11. head' \in Pin
    BY <2>1, OpenerFacts
  <2> QED BY <2>1, <2>6, <2>7, <2>8, <2>10, <2>11, OpenerStep
<1> QED BY <1>1, <1>2

-----------------------------------------------------------------------------
(* The steps of a process that is up *)

\* Nobody else has the database open while a process is up.
LEMMA UpStep ==
    ASSUME BootTypeOK, BootInv, Orderly', NEW q \in Openers, opener[q].pc = "up",
           UNCHANGED <<opener, keyed, reaudit, kills>>, TypeOK',
           OldDb(epoch', rows', head', genesis'),
           CanCompute(epoch', keyed) => PinsPresent(read_epoch(epoch'), rows', head', genesis'),
           PrunesCurrent'
    PROVE  BootTypeOK' /\ BootInv'
<1>1. BootTypeOK'
  BY DEF BootTypeOK
<1>2. ASSUME NEW p \in Openers PROVE OpenerCurrent(p)'
  <2>1. CASE p = q
    BY <2>1 DEF OpenerCurrent
  <2>2. CASE p # q
    <3>1. opener'[p].pc = "off"
      BY <2>2 DEF BootInv, Orderly, At
    <3> QED BY <3>1 DEF OpenerCurrent
  <2> QED BY <2>1, <2>2
<1> QED BY <1>1, <1>2 DEF BootInv

\* The steps of a server that leave the committed chain alone.
LEMMA UpIdle ==
    ASSUME BootTypeOK, BootInv, Orderly', NEW q \in Openers, opener[q].pc = "up",
           UNCHANGED <<opener, keyed, reaudit, kills>>, TypeOK', UNCHANGED db,
           PrunesCurrent'
    PROVE  BootTypeOK' /\ BootInv'
<1>1. UNCHANGED <<rows, epoch, head, genesis>>
  BY DEF db
<1>2. CanCompute(epoch, keyed) => PinsPresent(read_epoch(epoch), rows, head, genesis)
  BY OpenerFacts DEF OpenerCurrent
<1>3. CanCompute(epoch', keyed) => PinsPresent(read_epoch(epoch'), rows', head', genesis')
  BY <1>1, <1>2
<1>4. OldDb(epoch', rows', head', genesis')
  BY <1>1, OpenerFacts
<1> QED BY <1>3, <1>4, UpStep

\* An append by a process that is up, its prunes as they were or done.
LEMMA UpAppend ==
    ASSUME BootTypeOK, BootInv, Orderly', NEW q \in Openers, opener[q].pc = "up",
           UNCHANGED <<opener, keyed, reaudit, kills>>, TypeOK',
           NEW kind \in Kinds, Append(kind),
           \A k \in Tasks : task'[k] = task[k] \/ task'[k] = Idle
    PROVE  BootTypeOK' /\ BootInv'
<1>1. /\ OldDb(epoch', rows', head', genesis')
      /\ epoch' # epoch => epoch = Unstamped /\ epoch' = "sha7" /\ DOMAIN rows = {}
      /\ epoch = Unstamped /\ DOMAIN rows = {} => epoch' = "sha7"
      /\ DOMAIN rows' # {}
      /\ PinsPresent(read_epoch(epoch), rows, head, genesis) =>
           PinsPresent(read_epoch(epoch'), rows', head', genesis')
  BY OpenerFacts, AppendOld DEF BootTypeOK
<1>2. CanCompute(epoch, keyed) => PinsPresent(read_epoch(epoch), rows, head, genesis)
  BY OpenerFacts DEF OpenerCurrent
<1>3. CanCompute(epoch', keyed) => CanCompute(epoch, keyed)
  BY <1>1 DEF CanCompute, read_epoch, Unstamped
<1>4. PrunesCurrent'
  <2>1. PrunesCurrent /\ UNCHANGED <<opener, keyed>>
    BY DEF BootInv
  <2>2. epoch' = Unstamped => epoch = Unstamped /\ DOMAIN rows # {}
    BY <1>1 DEF Unstamped
  <2>3. epoch' = Unstamped /\ DOMAIN rows' # {} => OneTask
    BY <2>1, <2>2 DEF PrunesCurrent
  <2>4. ASSUME NEW k \in Tasks, task'[k] # Idle PROVE task'[k] = task[k]
    BY <2>4
  <2>5. ASSUME NEW k \in Tasks
        PROVE  /\ task'[k] # Idle => \E o \in Servers : At(o, "up")'
               /\ task'[k] # Idle /\ epoch' = Unstamped => OneTask
    BY <2>1, <2>2, <2>3, <1>1, <2>4 DEF PrunesCurrent, At
  <2>6. ASSUME NEW k \in Tasks, task'[k].pc \in {"schemed", "verified"}
        PROVE  task'[k].scheme = read_epoch(epoch') /\ CanCompute(epoch', keyed')
    <3>1. task'[k] = task[k]
      BY <2>6 DEF Idle
    <3>2. epoch' = epoch
      BY <1>1, <2>1, <2>6, <3>1 DEF PrunesCurrent
    <3> QED BY <2>1, <2>6, <3>1, <3>2 DEF PrunesCurrent
  <2> QED BY <1>1, <2>3, <2>5, <2>6 DEF PrunesCurrent, OneTask
<1> QED BY <1>1, <1>2, <1>3, <1>4, UpStep

\* The prune's transaction in a server that is up.
LEMMA UpPruneTx ==
    ASSUME BootTypeOK, BootInv, Orderly', NEW q \in Openers, opener[q].pc = "up",
           UNCHANGED <<opener, keyed, reaudit, kills>>, TypeOK',
           NEW k \in Tasks, PruneTx(k)
    PROVE  BootTypeOK' /\ BootInv'
<1>0. TypeOK /\ task[k].pc = "verified"
  BY DEF BootTypeOK, PruneTx
<1>1. task[k].scheme = read_epoch(epoch)
  BY <1>0 DEF BootInv, PrunesCurrent
<1>2. /\ OldDb(epoch', rows', head', genesis')
      /\ epoch' = epoch
      /\ DOMAIN rows' \subseteq DOMAIN rows
      /\ PinsPresent(read_epoch(epoch'), rows', head', genesis')
  BY <1>0, <1>1, OpenerFacts, PruneTxOld
<1>3. PrunesCurrent'
  <2>1. PrunesCurrent /\ UNCHANGED <<opener, keyed>>
    BY DEF BootInv
  <2>2. /\ task'[k].pc = "committed" /\ task[k] # Idle
        /\ \A j \in Tasks \ {k} : task'[j] = task[j]
    BY <1>0 DEF PruneTx, TypeOK, Idle
  <2>3. epoch = Unstamped => OneTask
    BY <2>1, <2>2 DEF PrunesCurrent
  <2>4. ASSUME NEW j \in Tasks
        PROVE  /\ task'[j] # Idle => \E o \in Servers : At(o, "up")'
               /\ task'[j].pc \in {"counted", "schemed", "verified"} /\ epoch' = Unstamped =>
                    DOMAIN rows' # {}
               /\ task'[j].pc \in {"schemed", "verified"} =>
                    task'[j].scheme = read_epoch(epoch') /\ CanCompute(epoch', keyed')
    <3>1. CASE j = k
      BY <2>1, <2>2, <3>1 DEF PrunesCurrent, At
    <3>2. CASE j # k
      <4>1. task'[j] = task[j] /\ epoch # Unstamped
        BY <2>2, <2>3, <3>2 DEF OneTask
      <4> QED BY <1>2, <2>1, <4>1 DEF PrunesCurrent, At
    <3> QED BY <3>1, <3>2
  <2> QED BY <1>2, <2>3, <2>4 DEF PrunesCurrent, OneTask
<1> QED BY <1>2, <1>3, UpStep

\* Every step of a server keeps the invariant; one step per action.
LEMMA ServeStep ==
    ASSUME BootTypeOK, BootInv, Orderly', Serve
    PROVE  BootTypeOK' /\ BootInv'
<1>1. PICK q \in Servers : opener[q].pc = "up"
  BY DEF Serve, At
<1>2. q \in Openers /\ TypeOK /\ PrunesCurrent /\ OldDb(epoch, rows, head, genesis)
  BY DEF Openers, BootTypeOK, BootInv
<1>3. Next /\ UNCHANGED <<reaudit, crashes, opener, kills>>
  BY DEF Serve
<1>4. TypeOK'
  BY <1>2, <1>3, NextType
<1>5. reaudit.pc = "off"
  BY DEF BootInv, NoReaudit
<1>6. CASE record_tenant \/ record_read_event
  <2>1. Append("event") /\ "event" \in Kinds /\ UNCHANGED <<task, keyed>>
    BY <1>6 DEF record_tenant, record_read_event, Kinds
  <2> QED BY <1>1, <1>2, <1>3, <1>4, <2>1, UpAppend
<1>7. ASSUME UNCHANGED <<db, keyed, task>> PROVE BootTypeOK' /\ BootInv'
  <2>1. PrunesCurrent'
    BY <1>2, <1>3, <1>7 DEF PrunesCurrent, OneTask, db, At
  <2> QED BY <1>1, <1>2, <1>3, <1>4, <1>7, <2>1, UpIdle
<1>8. ASSUME NEW i \in untraced, InsertTrace(i) PROVE BootTypeOK' /\ BootInv'
  BY <1>7, <1>8 DEF InsertTrace
<1>9. CASE WatchBegin \/ WatchVerdict \/ WatchUnavailable \/ Tick \/ ClockSetBack
  BY <1>7, <1>9 DEF WatchBegin, WatchVerdict, WatchUnavailable, Tick, ClockSetBack
<1>10. ASSUME NEW k \in Tasks, NEW r, UNCHANGED <<db, keyed>>,
              task' = [task EXCEPT ![k] = r],
              r # Idle /\ epoch = Unstamped => OneTask,
              r.pc \in {"counted", "schemed", "verified"} /\ epoch = Unstamped => DOMAIN rows # {},
              r.pc \in {"schemed", "verified"} =>
                r.scheme = read_epoch(epoch) /\ CanCompute(epoch, keyed)
       PROVE  BootTypeOK' /\ BootInv'
  <2>1. task'[k] = r /\ \A j \in Tasks \ {k} : task'[j] = task[j]
    BY <1>2, <1>10 DEF TypeOK
  <2>2. UNCHANGED <<rows, epoch, opener, keyed>>
    BY <1>3, <1>10 DEF db
  <2>3. \E o \in Servers : At(o, "up")'
    BY <1>1, <2>2 DEF At
  <2>4. ASSUME NEW j \in Tasks
        PROVE  /\ task'[j] # Idle /\ epoch = Unstamped => OneTask
               /\ task'[j].pc \in {"counted", "schemed", "verified"} /\ epoch = Unstamped =>
                    DOMAIN rows # {}
               /\ task'[j].pc \in {"schemed", "verified"} =>
                    task'[j].scheme = read_epoch(epoch) /\ CanCompute(epoch, keyed)
    <3>1. CASE j = k
      BY <1>10, <2>1, <3>1
    <3>2. CASE j # k
      BY <1>2, <2>1, <3>2 DEF PrunesCurrent
    <3> QED BY <3>1, <3>2
  <2>5. PrunesCurrent'
    BY <1>2, <2>2, <2>3, <2>4 DEF PrunesCurrent, OneTask
  <2> QED BY <1>1, <1>2, <1>3, <1>4, <1>10, <2>5, UpIdle
<1>11. ASSUME NEW k \in Tasks, PruneCount(k) PROVE BootTypeOK' /\ BootInv'
  <2> DEFINE r == [pc |-> "counted", cutoff |-> now - Retention,
                   expired |-> Cardinality(Expired(rows, now - Retention)), scheme |-> "legacy"]
  <2>1. UNCHANGED <<db, keyed>> /\ task' = [task EXCEPT ![k] = r]
    BY <1>11 DEF PruneCount
  <2>2. DOMAIN rows # {}
    BY <1>11 DEF PruneCount, Expired
  <2>3. r.pc = "counted"
    OBVIOUS
  <2> HIDE DEF r
  <2> QED BY <1>2, <1>10, <2>1, <2>2, <2>3 DEF PrunesCurrent
<1>12. ASSUME NEW k \in Tasks, PruneScheme(k) PROVE BootTypeOK' /\ BootInv'
  <2> DEFINE r == IF CanCompute(epoch, keyed)
                    THEN [task[k] EXCEPT !.pc = "schemed", !.scheme = read_epoch(epoch)]
                    ELSE Idle
  <2>1. UNCHANGED <<db, keyed>> /\ task' = [task EXCEPT ![k] = r] /\ task[k].pc = "counted"
    BY <1>12 DEF PruneScheme
  <2>2. task[k] # Idle
    BY <2>1 DEF Idle
  <2>3. epoch = Unstamped => OneTask /\ DOMAIN rows # {}
    BY <1>2, <2>1, <2>2 DEF PrunesCurrent
  <2>4. r.pc \in {"schemed", "verified"} => r.scheme = read_epoch(epoch) /\ CanCompute(epoch, keyed)
    BY <1>2 DEF TypeOK, Idle
  <2> HIDE DEF r
  <2> QED BY <1>10, <2>1, <2>3, <2>4
<1>13. ASSUME NEW k \in Tasks, PruneVerify(k) PROVE BootTypeOK' /\ BootInv'
  <2> DEFINE r == IF verify_chain(keyed) THEN [task[k] EXCEPT !.pc = "verified"] ELSE Idle
  <2>1. UNCHANGED <<db, keyed>> /\ task' = [task EXCEPT ![k] = r] /\ task[k].pc = "schemed"
    BY <1>13 DEF PruneVerify
  <2>2. task[k] # Idle
    BY <2>1 DEF Idle
  <2>3. /\ epoch = Unstamped => OneTask /\ DOMAIN rows # {}
        /\ task[k].scheme = read_epoch(epoch) /\ CanCompute(epoch, keyed)
    BY <1>2, <2>1, <2>2 DEF PrunesCurrent
  <2>4. r.pc \in {"schemed", "verified"} => r.scheme = task[k].scheme
    BY <1>2 DEF TypeOK, Idle
  <2> HIDE DEF r
  <2> QED BY <1>10, <2>1, <2>3, <2>4
<1>14. ASSUME NEW k \in Tasks, PruneTx(k) PROVE BootTypeOK' /\ BootInv'
  <2>1. UNCHANGED keyed
    BY <1>14 DEF PruneTx
  <2> QED BY <1>1, <1>2, <1>3, <1>4, <1>14, <2>1, UpPruneTx
<1>15. ASSUME NEW k \in Tasks, PruneAbort(k) \/ PruneWarn(k) PROVE BootTypeOK' /\ BootInv'
  <2>1. UNCHANGED <<db, keyed>> /\ task' = [task EXCEPT ![k] = Idle]
    BY <1>15 DEF PruneAbort, PruneWarn
  <2>2. Idle.pc = "idle"
    BY DEF Idle
  <2> QED BY <1>10, <2>1, <2>2
<1>16. ASSUME NEW k \in Tasks, PruneEvidence(k) PROVE BootTypeOK' /\ BootInv'
  <2>1. Append("retention") /\ "retention" \in Kinds /\ UNCHANGED keyed
    BY <1>16 DEF PruneEvidence, Kinds
  <2>2. \A j \in Tasks : task'[j] = task[j] \/ task'[j] = Idle
    BY <1>2, <1>16 DEF PruneEvidence, TypeOK
  <2> QED BY <1>1, <1>2, <1>3, <1>4, <2>1, <2>2, UpAppend
<1>17. ~ (ReauditBegin \/ ReauditVerify \/ ReauditTx \/ ReauditAnchor \/ ReauditAbort \/ Crash)
  <2>1. ~ ReauditBegin
    BY <1>3, <1>5 DEF ReauditBegin, NoReaudit
  <2>2. ~ Crash
    BY <1>2, <1>3 DEF Crash, TypeOK
  <2> QED BY <1>5, <2>1, <2>2 DEF ReauditVerify, ReauditTx, ReauditAnchor, ReauditAbort
<1> QED BY <1>3, <1>6, <1>8, <1>9, <1>11, <1>12, <1>13, <1>14, <1>15, <1>16, <1>17 DEF Next

\* A CLI command records a row.
LEMMA CliStep ==
    ASSUME BootTypeOK, BootInv, Orderly', NEW o \in Openers, CliRecord(o)
    PROVE  BootTypeOK' /\ BootInv'
<1>1. /\ opener[o].pc = "up" /\ Append("event") /\ "event" \in Kinds
      /\ UNCHANGED <<opener, kills>>
      /\ UNCHANGED <<traces, now, keyed, untraced, task, watch, reaudit, crashes, deleted>>
  BY DEF CliRecord, At, rest, Kinds
<1>2. TypeOK
  BY DEF BootTypeOK
<1>3. untraced' \subseteq 1 .. (nextId' - 1) /\ traces' \subseteq 1 .. (nextId' - 1)
  BY <1>1, <1>2, AppendTable DEF TypeOK
<1>4. TypeOK'
  BY <1>1, <1>2, <1>3, AppendTable DEF TypeOK
<1> QED BY <1>1, <1>4, UpAppend

\* A kill leaves the committed database, and nobody who has read it.
LEMMA KillStep ==
    ASSUME BootTypeOK, BootInv, Orderly', NEW o \in Openers, Kill(o)
    PROVE  BootTypeOK' /\ BootInv'
<1>1. /\ UNCHANGED <<rows, nextId, epoch, head, genesis, traces, now, reaudit, crashes, deleted>>
      /\ opener[o].pc # "off" /\ opener' = [opener EXCEPT ![o] = Off]
      /\ kills' = kills + 1 /\ keyed' \in BOOLEAN
  BY DEF Kill, At, db
<1>2. /\ opener' \in [Openers -> [pc : OpenerPoints, scheme : Schemes, pin : Pin, pin2 : Pin]]
      /\ \A p \in Openers : opener'[p].pc = "off"
  <2>1. \A p \in Openers \ {o} : opener[p].pc = "off"
    BY <1>1 DEF BootInv, Orderly, At
  <2>2. Off.pc = "off"
    BY DEF Off
  <2>3. opener'[o] = Off /\ \A p \in Openers \ {o} : opener'[p] = opener[p]
    BY <1>1 DEF BootTypeOK
  <2>4. opener' \in [Openers -> [pc : OpenerPoints, scheme : Schemes, pin : Pin, pin2 : Pin]]
    BY <1>1, OffType DEF BootTypeOK
  <2> QED BY <2>1, <2>2, <2>3, <2>4
<1>3. \A k \in Tasks : task'[k] = Idle
  <2>1. CASE o \in Servers
    BY <2>1 DEF Kill
  <2>2. CASE o \notin Servers
    <3>1. UNCHANGED task
      BY <2>2 DEF Kill
    <3>2. \A q \in Servers : opener[q].pc = "off"
      BY <1>1, <2>2 DEF BootInv, Orderly, At, Openers
    <3> QED BY <3>1, <3>2 DEF BootInv, PrunesCurrent, At
  <2> QED BY <2>1, <2>2
<1>4. TypeOK'
  <2>1. task' \in [Tasks -> [pc : {"idle", "counted", "schemed", "verified", "committed"},
                             cutoff : Int, expired : Nat, scheme : Schemes]]
    BY IdleType DEF Kill, BootTypeOK, TypeOK
  <2>2. /\ watch' = [pc |-> watch'.pc, snap |-> watch'.snap, posture |-> watch'.posture]
        /\ watch'.pc \in {"idle", "walking"}
        /\ watch'.posture \in {"unknown", "ok", "broken", "unavailable"}
    BY DEF Kill, BootTypeOK, TypeOK
  <2>3. untraced' \subseteq 1 .. (nextId' - 1)
    BY <1>1 DEF Kill, BootTypeOK, TypeOK
  <2> QED BY <1>1, <2>1, <2>2, <2>3 DEF BootTypeOK, TypeOK
<1>5. BootTypeOK'
  BY <1>1, <1>2, <1>4 DEF BootTypeOK
<1>6. \A p \in Openers : OpenerCurrent(p)'
  BY <1>2 DEF OpenerCurrent
<1>7. PrunesCurrent'
  BY <1>1, <1>3 DEF BootInv, PrunesCurrent, OneTask, Idle
<1> QED BY <1>1, <1>5, <1>6, <1>7 DEF BootInv

-----------------------------------------------------------------------------
(* The start-up theorems *)

\* Every database of an earlier release is a start of the invariant.
LEMMA BootStarts == ASSUME OldSeeds, BootInit PROVE BootTypeOK /\ BootInv
<1>1. PICK seed \in Seeds : InitFrom(seed)
  BY DEF BootInit, Init
<1>2. OldSeed(seed)
  BY <1>1 DEF OldSeeds
<1>3. TypeOK
  BY InitType DEF BootInit, OldSeeds, OldSeed, TypedSeeds
<1>4. \A o \in Openers : opener[o] = Off /\ opener[o].pc = "off"
  BY DEF BootInit, Off
<1>5. BootTypeOK
  BY <1>3, OffType DEF BootTypeOK, BootInit
<1>6. Orderly
  BY <1>4 DEF Orderly, At, Openers
<1>7. OldDb(epoch, rows, head, genesis) /\ reaudit = NoReaudit
  BY <1>1, <1>2 DEF InitFrom, OldSeed
<1>8. \A o \in Openers : OpenerCurrent(o)
  BY <1>4 DEF OpenerCurrent
<1>9. PrunesCurrent
  BY <1>1, <1>2 DEF InitFrom, OldSeed, PrunesCurrent, Idle
<1> QED BY <1>5, <1>6, <1>7, <1>8, <1>9 DEF BootInv

\* Every step of one process at a time keeps it.
LEMMA BootStep ==
    ASSUME BootTypeOK, BootInv, [BootNext /\ Orderly']_bvars PROVE BootTypeOK' /\ BootInv'
<1>1. CASE UNCHANGED bvars
  <2>1. UNCHANGED <<rows, nextId, epoch, head, genesis, traces, now, keyed, untraced, task,
                    watch, reaudit, crashes, deleted, opener, kills>>
    BY <1>1 DEF bvars, vars
  <2>2. TypeOK'
    BY <1>1, NextType DEF BootTypeOK, bvars
  <2>3. BootTypeOK'
    BY <2>1, <2>2 DEF BootTypeOK
  <2>4. Orderly' /\ PrunesCurrent'
    BY <2>1 DEF BootInv, Orderly, PrunesCurrent, OneTask, At
  <2>5. \A o \in Openers : OpenerCurrent(o)'
    BY <2>1 DEF BootInv, OpenerCurrent
  <2> QED BY <2>1, <2>3, <2>4, <2>5 DEF BootInv
<1>2. CASE Serve /\ Orderly'
  BY <1>2, ServeStep
<1>3. ASSUME NEW o \in Openers, Orderly',
             \/ MigrateHead(o) \/ StampHead(o) \/ MigrateGenesis(o) \/ StampGenesis(o)
             \/ BootstrapCheck(o) \/ BootstrapStamp(o)
             \/ UpgradeBegin(o) \/ UpgradeWalk(o) \/ UpgradeGenesis(o)
             \/ ReadPins(o) \/ MacHead(o) \/ MacGenesis(o)
             \/ CliRecord(o) \/ Kill(o)
      PROVE  BootTypeOK' /\ BootInv'
  BY <1>3, MigrateReads, MigrateStamps, Bootstraps, UpgradeBegins, UpgradeWalks, UpgradeMacs,
     CliStep, KillStep
<1> QED BY <1>1, <1>2, <1>3 DEF BootNext

\* Opening the database of any earlier release leaves it verifying, from then
\* on: whatever pins and MACs its release did not write yet, whatever process
\* is killed between two steps of its start-up, and whatever the server and the
\* CLI then append and prune.
THEOREM BootAlwaysHeals == ASSUME OldSeeds PROVE OrderlySpec => []BootHeals
<1>1. BootInit => BootTypeOK /\ BootInv
  BY BootStarts
<1>2. BootTypeOK /\ BootInv /\ [BootNext /\ Orderly']_bvars => (BootTypeOK /\ BootInv)'
  BY BootStep
<1>3. BootTypeOK /\ BootInv => BootHeals
  <2> SUFFICES ASSUME BootTypeOK, BootInv, CanCompute(epoch, keyed),
                      NEW o \in Openers, opener[o].pc = "up"
               PROVE  verify_chain(keyed)
    BY DEF BootHeals, At
  <2>1. PinsPresent(read_epoch(epoch), rows, head, genesis)
    BY OpenerFacts DEF OpenerCurrent
  <2>2. verify_chain_inner(epoch, rows, head, genesis, FALSE)
    BY DEF BootInv, OldDb
  <2> QED BY <2>1, <2>2 DEF verify_chain, verify_chain_inner
<1> QED BY <1>1, <1>2, <1>3, PTL DEF OrderlySpec
=============================================================================
