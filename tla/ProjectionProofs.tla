-------------------------- MODULE ProjectionProofs --------------------------
(***************************************************************************)
(* Theorems about MailboxProjection, for any number of concurrent queries, *)
(* any window and batch size and any mailbox, with the mailbox changing    *)
(* and any command or transaction failing at every step.                   *)
(***************************************************************************)
EXTENDS MailboxProjection, FiniteSetTheorems, FunctionTheorems, TLAPS

----------------------------------------------------------------------------
(* Sets of UIDs and of messages *)

LEMMA UidSets ==
  ASSUME NEW S \in SUBSET Uids
  PROVE  IsFiniteSet(S) /\ Cardinality(S) \in 0..MaxUid
<1>1. IsFiniteSet(Uids) /\ Cardinality(Uids) = MaxUid
  <2>1. MaxUid \in Nat BY ProjectionAssumption
  <2>2. /\ IsFiniteSet(1..MaxUid)
        /\ Cardinality(1..MaxUid) = IF 1 > MaxUid THEN 0 ELSE MaxUid - 1 + 1
    BY <2>1, FS_Interval
  <2>3. QED BY <2>1, <2>2 DEF Uids
<1>2. IsFiniteSet(S) /\ Cardinality(S) <= MaxUid BY <1>1, FS_Subset
<1>3. Cardinality(S) \in Nat BY <1>2, FS_CardinalityType
<1>4. QED BY <1>2, <1>3, ProjectionAssumption

(* A non-empty set of UIDs has a highest.  If each had a higher one, the    *)
(* number of the higher ones would be between 1 and one less than the size *)
(* of the set, so two UIDs would have equally many.                        *)
LEMMA Highest ==
  ASSUME NEW S \in SUBSET Uids, S # {}
  PROVE  \E u \in S : \A w \in S : w <= u
<1> SUFFICES ASSUME \A u \in S : \E w \in S : ~(w <= u) PROVE FALSE
  OBVIOUS
<1> DEFINE above(u) == {w \in S : w > u}
           n == Cardinality(S)
           f == [u \in S |-> Cardinality(above(u))]
<1>0. MaxUid \in Nat /\ S \subseteq Nat BY ProjectionAssumption DEF Uids
<1>1. IsFiniteSet(S) /\ n \in Nat BY UidSets
<1>2. ASSUME NEW u \in S
      PROVE  /\ IsFiniteSet(above(u)) /\ Cardinality(above(u)) \in Nat
             /\ Cardinality(above(u)) < n /\ Cardinality(above(u)) # 0
  <2>1. above(u) \in SUBSET S /\ above(u) # S BY <1>0
  <2>2. above(u) # {} BY <1>0
  <2>3. /\ IsFiniteSet(above(u)) /\ Cardinality(above(u)) <= n
        /\ Cardinality(above(u)) # n
    BY <2>1, <1>1, FS_Subset
  <2>4. Cardinality(above(u)) \in Nat BY <2>3, FS_CardinalityType
  <2>5. Cardinality(above(u)) # 0 BY <2>2, <2>3, FS_EmptySet
  <2>6. QED BY <2>3, <2>4, <2>5, <1>1
<1>3. n - 1 \in Nat /\ n - 1 < n
  <2>1. n # 0 BY <1>1, FS_EmptySet
  <2>2. QED BY <1>1, <2>1
<1>4. IsFiniteSet(1..(n - 1)) /\ Cardinality(1..(n - 1)) < n
  BY <1>3, FS_Interval
<1>5. f \in [S -> 1..(n - 1)]
  <2>1. ASSUME NEW u \in S PROVE Cardinality(above(u)) \in 1..(n - 1)
    <3> DEFINE c == Cardinality(above(u))
    <3>1. c \in Nat /\ c < n /\ c # 0 BY <1>2
    <3> HIDE DEF c
    <3>2. c \in 1..(n - 1) BY <3>1, <1>1
    <3>3. QED BY <3>2 DEF c
  <2>2. QED BY <2>1
<1>6. PICK x, y \in S : x # y /\ f[x] = f[y]
  <2> HIDE DEF f
  <2>1. QED BY <1>1, <1>4, <1>5, FS_PigeonHole
<1>7. ASSUME NEW v \in S, NEW w \in S, v < w PROVE f[w] < f[v]
  <2>0. v \in Nat /\ w \in Nat /\ \A z \in S : z \in Nat BY <1>0
  <2>1. above(w) \subseteq above(v) /\ w \in above(v) /\ w \notin above(w)
    <3>1. ASSUME NEW z \in S, z > w PROVE z > v BY <2>0, <1>7, <3>1
    <3>2. w > v /\ ~(w > w) BY <2>0, <1>7
    <3>3. QED BY <3>1, <3>2
  <2>2. /\ Cardinality(above(w)) <= Cardinality(above(v))
        /\ Cardinality(above(w)) # Cardinality(above(v))
    BY <2>1, <1>2, FS_Subset
  <2>3. /\ Cardinality(above(v)) \in Nat /\ Cardinality(above(w)) \in Nat
        /\ f[v] = Cardinality(above(v)) /\ f[w] = Cardinality(above(w))
    BY <1>2
  <2> HIDE DEF f, above
  <2>4. QED BY <2>2, <2>3
<1>8. f[x] # f[y]
  <2>1. x < y \/ y < x BY <1>0, <1>6
  <2>2. f[x] \in Nat /\ f[y] \in Nat BY <1>2
  <2> HIDE DEF f
  <2>3. QED BY <2>1, <2>2, <1>7
<1>9. QED BY <1>6, <1>8

LEMMA HighOf ==
  ASSUME NEW M \in SUBSET Message
  PROVE  /\ High(M) \in 0..MaxUid
         /\ \A m \in M : m.uid <= High(M)
         /\ M # {} => \E m \in M : High(M) = m.uid
<1>1. UidsOf(M) \in SUBSET Uids BY DEF UidsOf, Message
<1>2. CASE M = {} BY <1>2, ProjectionAssumption DEF High
<1>3. CASE M # {}
  <2>1. UidsOf(M) # {} BY <1>3 DEF UidsOf
  <2>2. \E u \in UidsOf(M) : \A w \in UidsOf(M) : w <= u BY <1>1, <2>1, Highest
  <2>3. High(M) \in UidsOf(M) /\ \A w \in UidsOf(M) : w <= High(M)
    BY <1>3, <2>2 DEF High
  <2>4. QED BY <2>3, <1>1, <1>3, ProjectionAssumption DEF UidsOf, Uids
<1>4. QED BY <1>2, <1>3

(* The messages of one server and one epoch that have the UIDs U. *)
From(s, v, U) == {[server |-> s, validity |-> v, uid |-> u] : u \in U}

LEMMA FromUids ==
  ASSUME NEW s, NEW v, NEW U \in SUBSET Uids
  PROVE  /\ UidsOf(From(s, v, U)) = U
         /\ \A m \in From(s, v, U) : m.server = s /\ m.validity = v /\ m.uid \in U
         /\ s \in Servers /\ v \in Epochs => From(s, v, U) \in SUBSET Message
<1>1. \A m \in From(s, v, U) : m.server = s /\ m.validity = v /\ m.uid \in U
  BY DEF From
<1>2. ASSUME NEW u \in U PROVE \E m \in From(s, v, U) : m.uid = u
  <2>1. [server |-> s, validity |-> v, uid |-> u] \in From(s, v, U) BY DEF From
  <2>2. QED BY <2>1
<1>3. UidsOf(From(s, v, U)) = U BY <1>1, <1>2 DEF UidsOf
<1>4. s \in Servers /\ v \in Epochs => From(s, v, U) \in SUBSET Message
  BY DEF From, Message
<1>5. QED BY <1>1, <1>3, <1>4

(* Messages of one server and one epoch are told apart by their UIDs. *)
LEMMA OneEpoch ==
  ASSUME NEW M \in SUBSET Message, NEW s, NEW v,
         \A m \in M : m.server = s /\ m.validity = v
  PROVE  /\ M = From(s, v, UidsOf(M))
         /\ Cardinality(M) = Cardinality(UidsOf(M))
<1> DEFINE f == [m \in M |-> m.uid]
<1>1. UidsOf(M) \in SUBSET Uids BY DEF UidsOf, Message
<1>2. ASSUME NEW m \in M PROVE m = [server |-> s, validity |-> v, uid |-> m.uid]
  BY DEF Message
<1>3. M = From(s, v, UidsOf(M)) BY <1>2 DEF From, UidsOf
<1>4. f \in [M -> UidsOf(M)] /\ \A t \in UidsOf(M) : \E m \in M : f[m] = t
  BY DEF UidsOf
<1>5. \A a, b \in M : f[a] = f[b] => a = b BY <1>2
<1>6. ExistsBijection(M, UidsOf(M))
  <2> HIDE DEF f
  <2>1. f \in Bijection(M, UidsOf(M)) BY <1>4, <1>5, Fun_IsBij
  <2>2. QED BY <2>1 DEF ExistsBijection
<1>7. ExistsBijection(UidsOf(M), M) BY <1>6, Fun_ExistsBijSymmetric
<1>8. IsFiniteSet(UidsOf(M)) BY <1>1, UidSets
<1>9. Cardinality(M) = Cardinality(UidsOf(M)) BY <1>7, <1>8, FS_Bijection
<1>10. QED BY <1>3, <1>9

LEMMA NewestIn == \A S, n : Newest(S, n) \subseteq S
BY DEF Newest

(* A window as large as the mailbox holds all of it. *)
LEMMA NewestAll ==
  ASSUME NEW S \in SUBSET Uids
  PROVE  Newest(S, Cardinality(S)) = S
<1>0. S \subseteq Nat BY ProjectionAssumption DEF Uids
<1>1. IsFiniteSet(S) /\ Cardinality(S) \in Nat BY UidSets, ProjectionAssumption
<1>2. ASSUME NEW u \in S PROVE Cardinality({w \in S : w > u}) < Cardinality(S)
  <2> DEFINE T == {w \in S : w > u}
  <2>1. T \in SUBSET S /\ T # S BY <1>0
  <2> HIDE DEF T
  <2>2. IsFiniteSet(T) /\ Cardinality(T) <= Cardinality(S) /\ Cardinality(T) # Cardinality(S)
    BY <2>1, <1>1, FS_Subset
  <2>3. Cardinality(T) \in Nat BY <2>2, FS_CardinalityType
  <2>4. Cardinality(T) < Cardinality(S) BY <2>2, <2>3, <1>1
  <2>5. QED BY <2>4 DEF T
<1>3. QED BY <1>2 DEF Newest

(* A set that lies within another and is as large is that other. *)
LEMMA EquallyMany ==
  ASSUME NEW S \in SUBSET Uids, NEW T \in SUBSET S, Cardinality(T) = Cardinality(S)
  PROVE  T = S
<1>1. IsFiniteSet(S) BY UidSets
<1>2. QED BY <1>1, FS_Subset

----------------------------------------------------------------------------
(* The inductive invariant *)

Settled == "endpoint" \notin mix

Box == mailbox[endpoint]

Claim(v, n, c, R) == [validity |-> v, next |-> n, count |-> c, rows |-> R]

Now == Claim(Box.validity, Box.next, Cardinality(Box.uids), Messages(endpoint))

ProjectionClaims ==
  IF projection.coverage = "COMPLETE"
    THEN {Claim(projection.validity, projection.next, projection.count, projection.rows)} ELSE {}

Claiming(k) == EpochObserved(k.state) /\ (k.pc = "lookup" \/ (k.pc = "write" /\ k.complete))

ClaimOf(k) == Claim(k.state.validity, k.state.next, k.state.count, k.point)

Claims == ProjectionClaims \cup {ClaimOf(query[q]) : q \in {p \in Queries : Claiming(query[p])}}

Of(R, v) == \A m \in R : m.server = endpoint /\ m.validity = v

Below(R, n) == \A m \in R : m.uid < n

Sound(x) ==
  /\ x.validity # Unknown /\ x.validity <= Box.validity
  /\ Of(x.rows, x.validity) /\ Below(x.rows, x.next)
  /\ Cardinality(x.rows) = x.count
  /\ x.validity = Box.validity =>
       /\ x.next <= Box.next
       /\ \A u \in Box.uids : u < x.next => u \in UidsOf(x.rows)

Same(x, y) == x.validity = y.validity /\ x.next = y.next /\ x.count = y.count

ClaimsOK ==
  /\ \A x \in Claims : Sound(x)
  /\ \A x, y \in Claims : Same(x, y) => x.rows = y.rows

CurrentRows(v, R) ==
  /\ v <= Box.validity
  /\ v = Box.validity => Of(R, v) /\ Below(R, Box.next)

ProjectionOK == CurrentRows(projection.validity, projection.rows)

Refreshing == {"status", "search", "fetch"}

EpochOK(k) ==
  /\ k.server = endpoint
  /\ k.epoch <= Box.validity
  /\ k.epoch # Unknown => "uidvalidity" \in Box.reports
  /\ k.pc \in {"lookup", "baseline"} /\ k.state.next # Unknown => "uidnext" \in Box.reports
  /\ k.pc \in {"idle", "qualify", "lookup", "baseline", "status", "search"} => k.emails = {}
  /\ k.pc = "lookup" => k.epoch = k.state.validity

OldOK(k) ==
  k.pc \in Refreshing =>
    /\ CurrentRows(k.epoch, k.old)
    /\ k.old # {} => k.epoch # Unknown
    /\ k.mode = "delta" =>
         /\ "uidvalidity" \in Box.reports /\ "uidnext" \in Box.reports
         /\ k.epoch = Box.validity => \A u \in Box.uids : u <= High(k.old) => u \in UidsOf(k.old)

Known(k) == IF k.mode = "delta" THEN UidsOf(k.old) \cup k.listed ELSE k.listed

StateOK(k) ==
  k.pc \in {"search", "fetch"} =>
    /\ k.state.validity # Unknown <=> "uidvalidity" \in Box.reports
    /\ k.state.next # Unknown <=> "uidnext" \in Box.reports
    /\ k.state.validity <= Box.validity
    /\ k.state.validity = Box.validity => k.state.next <= Box.next

FetchOK(k) ==
  k.pc = "fetch" =>
    /\ k.session # Unknown /\ k.session <= Box.validity /\ k.state.validity <= k.session
    /\ k.session = Box.validity => \A u \in k.listed : u < Box.next
    /\ k.todo \subseteq k.listed
    /\ \A m \in k.emails :
         \/ m.server = endpoint /\ m.validity = k.session /\ m.uid \in k.listed
         \/ /\ k.mode = "snapshot" /\ m \in k.old
            /\ k.epoch # Unknown /\ k.epoch = k.state.validity
    /\ k.mode = "delta" => \A u \in k.listed : u > High(k.old)
    /\ k.mode = "snapshot" =>
         k.point = {[server |-> endpoint, validity |-> k.session, uid |-> u] : u \in k.listed}
    /\ EpochObserved(k.state) /\ k.state.validity = Box.validity /\ k.state.next = Box.next
       /\ (k.mode = "delta" => k.epoch = Box.validity)
         => Box.uids \subseteq Known(k)

WriteOK(k) ==
  /\ k.pc = "write" => CurrentRows(k.state.validity, k.emails)
  /\ (k.pc = "write" /\ k.complete) \/ k.pc = "keywords" \/ k.result = "page" => k.emails = k.point
  /\ k.result = "page" => k.pc = "done"

QueryOK(k) == EpochOK(k) /\ OldOK(k) /\ StateOK(k) /\ FetchOK(k) /\ WriteOK(k)

BoxesOK == \A s \in Servers : \A u \in mailbox[s].uids : u < mailbox[s].next

Safety ==
  /\ BoxesOK
  /\ Settled => /\ ClaimsOK
                /\ ProjectionOK
                /\ \A q \in Queries : QueryOK(query[q])

Inv == TypeOK /\ Safety

----------------------------------------------------------------------------
(* Claims *)

LEMMA BoxType ==
  ASSUME TypeOK
  PROVE  /\ endpoint \in Servers /\ Box \in Mailbox
         /\ Box.validity \in Epochs /\ Box.next \in 1..MaxUid + 1
         /\ Box.uids \in SUBSET Uids /\ Box.reports \in SUBSET Fields
BY DEF TypeOK, Box, Mailbox

LEMMA MessagesOf ==
  ASSUME TypeOK
  PROVE  /\ Messages(endpoint) = From(endpoint, Box.validity, Box.uids)
         /\ \A U : Fetched(endpoint, U) = From(endpoint, Box.validity, U)
BY DEF Messages, Fetched, From, Box

LEMMA ClaimsType ==
  ASSUME TypeOK
  PROVE  \A x \in Claims \cup {Now} :
           /\ x.rows \in SUBSET Message
           /\ x.validity \in Nat /\ x.next \in Nat /\ x.count \in Nat
<1>0. MaxUid \in Nat /\ MaxEpoch \in Nat BY ProjectionAssumption
<1>1. ASSUME NEW x \in ProjectionClaims
      PROVE  /\ x.rows \in SUBSET Message
             /\ x.validity \in Nat /\ x.next \in Nat /\ x.count \in Nat
  BY <1>0 DEF TypeOK, ProjectionClaims, Claim, Projection
<1>2. ASSUME NEW q \in Queries
      PROVE  LET x == ClaimOf(query[q])
             IN /\ x.rows \in SUBSET Message
                /\ x.validity \in Nat /\ x.next \in Nat /\ x.count \in Nat
  <2>1. query[q].state \in State /\ query[q].point \in SUBSET Message
    BY DEF TypeOK, Query
  <2>2. QED BY <1>0, <2>1 DEF ClaimOf, Claim, State
<1>3. /\ Now.rows \in SUBSET Message
      /\ Now.validity \in Nat /\ Now.next \in Nat /\ Now.count \in Nat
  <2>1. Messages(endpoint) \in SUBSET Message BY BoxType, MessagesOf, FromUids
  <2>2. Cardinality(Box.uids) \in Nat BY BoxType, UidSets, <1>0
  <2>3. Box.validity \in Nat /\ Box.next \in Nat BY BoxType, <1>0 DEF Epochs
  <2>4. QED BY <2>1, <2>2, <2>3 DEF Now, Claim
<1>4. QED BY <1>1, <1>2, <1>3 DEF Claims

LEMMA NowIsSound ==
  ASSUME TypeOK, BoxesOK
  PROVE  Sound(Now)
<1> DEFINE M == From(endpoint, Box.validity, Box.uids)
<1>1. /\ Now.validity = Box.validity /\ Now.next = Box.next /\ Now.rows = M
      /\ Now.count = Cardinality(Box.uids)
  BY MessagesOf DEF Now, Claim
<1>2. /\ UidsOf(M) = Box.uids /\ M \in SUBSET Message
      /\ \A m \in M : m.server = endpoint /\ m.validity = Box.validity /\ m.uid \in Box.uids
  BY BoxType, FromUids
<1>3. \A u \in Box.uids : u < Box.next BY BoxType DEF BoxesOK, Box
<1> HIDE DEF M
<1>4. Cardinality(M) = Cardinality(Box.uids) BY <1>2, OneEpoch
<1>5. Box.validity # Unknown /\ Box.validity <= Box.validity /\ Box.next <= Box.next
  BY BoxType, ProjectionAssumption DEF Epochs, Unknown
<1>6. Of(M, Box.validity) /\ Below(M, Box.next) BY <1>2, <1>3 DEF Of, Below
<1>7. QED BY <1>1, <1>2, <1>4, <1>5, <1>6 DEF Sound

(* A sound claim with the numbers of the mailbox as it is names exactly its *)
(* messages: nothing was added since, so nothing can have gone either.     *)
LEMMA NowAgrees ==
  ASSUME TypeOK, BoxesOK, NEW x, Sound(x), x.rows \in SUBSET Message, Same(x, Now)
  PROVE  x.rows = Messages(endpoint)
<1>1. /\ x.validity = Box.validity /\ x.next = Box.next /\ x.count = Cardinality(Box.uids)
  BY DEF Same, Now, Claim
<1>2. \A u \in Box.uids : u < Box.next BY BoxType DEF BoxesOK, Box
<1>3. Box.uids \in SUBSET UidsOf(x.rows) BY <1>1, <1>2 DEF Sound
<1>4. \A m \in x.rows : m.server = endpoint /\ m.validity = Box.validity
  BY <1>1 DEF Sound, Of
<1>5. /\ x.rows = From(endpoint, Box.validity, UidsOf(x.rows))
      /\ Cardinality(x.rows) = Cardinality(UidsOf(x.rows))
  BY <1>4, OneEpoch
<1>6. UidsOf(x.rows) \in SUBSET Uids BY DEF UidsOf, Message
<1>7. Cardinality(Box.uids) = Cardinality(UidsOf(x.rows)) BY <1>1, <1>5 DEF Sound
<1>8. Box.uids = UidsOf(x.rows) BY <1>3, <1>6, <1>7, EquallyMany
<1>9. QED BY <1>5, <1>8, MessagesOf

LEMMA NowAlone ==
  ASSUME TypeOK, BoxesOK, Claims \subseteq {Now}
  PROVE  ClaimsOK
BY NowIsSound DEF ClaimsOK

(* A step that leaves the mailbox alone and claims nothing but what others  *)
(* claimed before, or the mailbox as it is.                                *)
LEMMA ClaimsStay ==
  ASSUME TypeOK, BoxesOK, ClaimsOK, UNCHANGED <<mailbox, endpoint>>,
         Claims' \subseteq Claims \cup {Now}
  PROVE  ClaimsOK'
<1>1. \A x : Sound(x) => Sound(x)' BY DEF Sound, Of, Below, Box
<1>2. \A x \in Claims \cup {Now} : Sound(x) BY NowIsSound DEF ClaimsOK
<1>3. ASSUME NEW x \in Claims, Same(x, Now) PROVE x.rows = Now.rows
  BY <1>2, <1>3, ClaimsType, NowAgrees DEF Now, Claim
<1>4. ASSUME NEW x \in Claims \cup {Now}, NEW y \in Claims \cup {Now}, Same(x, y)
      PROVE  x.rows = y.rows
  BY <1>3, <1>4 DEF ClaimsOK, Same
<1>5. QED BY <1>1, <1>2, <1>4 DEF ClaimsOK, Same

----------------------------------------------------------------------------
(* Initial states *)

LEMMA StatusType ==
  ASSUME TypeOK, NEW s \in Servers
  PROVE  /\ StatusOf(s) \in State
         /\ StatusOf(s).validity # Unknown <=> "uidvalidity" \in mailbox[s].reports
         /\ StatusOf(s).next # Unknown <=> "uidnext" \in mailbox[s].reports
         /\ StatusOf(s).validity \in {Unknown, mailbox[s].validity}
         /\ StatusOf(s).next \in {Unknown, mailbox[s].next}
         /\ StatusOf(s).count = Cardinality(mailbox[s].uids)
<1>1. /\ mailbox[s].validity \in Epochs /\ mailbox[s].next \in 1..MaxUid + 1
      /\ mailbox[s].uids \in SUBSET Uids
  BY DEF TypeOK, Mailbox
<1>2. Cardinality(mailbox[s].uids) \in 0..MaxUid BY <1>1, UidSets
<1>3. QED BY <1>1, <1>2, ProjectionAssumption DEF StatusOf, State, Epochs, Unknown

LEMMA IdleQueryType ==
  ASSUME NEW s \in Servers PROVE IdleQuery(s) \in Query
<1>1. NoState \in State BY ProjectionAssumption DEF NoState, State, Unknown
<1>2. Unknown \in 0..MaxEpoch BY ProjectionAssumption DEF Unknown
<1>3. QED BY <1>1, <1>2 DEF IdleQuery, Query

LEMMA FetchedType ==
  ASSUME TypeOK, NEW s \in Servers, NEW U \in SUBSET Uids
  PROVE  Fetched(s, U) \in SUBSET Message
BY DEF TypeOK, Mailbox, Fetched, Message

(* What an earlier call left behind is well-formed, holds messages of the   *)
(* mailbox, and claims to be complete only if it holds all of them.        *)
LEMMA LeftBehindType ==
  ASSUME mailbox \in [Servers -> Mailbox], NEW s \in Servers, NEW p \in LeftBehind(s)
  PROVE  /\ p \in Projection
         /\ p.rows \subseteq Messages(s)
         /\ p.coverage = "COMPLETE" =>
              /\ p.rows = Messages(s) /\ p.validity = mailbox[s].validity
              /\ p.next = mailbox[s].next /\ p.count = Cardinality(mailbox[s].uids)
<1> DEFINE box == mailbox[s]
<1>1. /\ box.validity \in Epochs /\ box.next \in 1..MaxUid + 1 /\ box.uids \in SUBSET Uids
  BY DEF Mailbox
<1>2. Cardinality(box.uids) \in 0..MaxUid BY <1>1, UidSets
<1>3. CASE p = NoProjection
  BY <1>3, ProjectionAssumption DEF NoProjection, Projection, Unknown
<1>4. ASSUME NEW n \in 0..WindowRows, p = Coverage(s, n)
      PROVE  /\ p \in Projection
             /\ p.rows \subseteq Messages(s)
             /\ p.coverage = "COMPLETE" =>
                  /\ p.rows = Messages(s) /\ p.validity = box.validity
                  /\ p.next = box.next /\ p.count = Cardinality(box.uids)
  <2> DEFINE R == Fetched(s, Newest(box.uids, n))
  <2>1. /\ p.validity = box.validity /\ p.rows = R /\ p.next = box.next
        /\ p.count = Cardinality(box.uids)
        /\ p.coverage = IF n = Cardinality(box.uids) THEN "COMPLETE" ELSE "PARTIAL"
        /\ p = [validity |-> p.validity, rows |-> p.rows, coverage |-> p.coverage,
                next |-> p.next, count |-> p.count]
    BY <1>4 DEF Coverage
  <2>2. R \subseteq Messages(s) BY NewestIn DEF Fetched, Messages
  <2>3. R \subseteq Message BY <2>2, <1>1 DEF Messages, Fetched, Message
  <2>4. n = Cardinality(box.uids) => R = Messages(s) BY <1>1, NewestAll DEF Messages
  <2> HIDE DEF R
  <2>5. p \in Projection
    <3>1. p.validity \in 0..MaxEpoch /\ p.next \in 0..MaxUid + 1 /\ p.count \in 0..MaxUid
      BY <1>1, <1>2, <2>1, ProjectionAssumption DEF Epochs
    <3>2. QED BY <2>1, <2>3, <3>1 DEF Projection
  <2>6. QED BY <2>1, <2>2, <2>4, <2>5
<1>5. QED BY <1>3, <1>4 DEF LeftBehind

LEMMA FilledType ==
  ASSUME NEW k \in 0..MaxUid, NEW R \in SUBSET Fields
  PROVE  /\ Filled(k, R) \in Mailbox
         /\ \A u \in Filled(k, R).uids : u < Filled(k, R).next
<1>0. MaxUid \in Nat /\ MaxEpoch \in Nat \ {0} BY ProjectionAssumption
<1>1. 1 \in Epochs /\ k + 1 \in 1..MaxUid + 1 /\ 1..k \subseteq Uids
  BY <1>0 DEF Epochs, Uids
<1>2. \A u \in 1..k : u < k + 1 BY <1>0
<1>3. QED BY <1>1, <1>2 DEF Filled, Mailbox

LEMMA InitInv == Init => Inv
<1> SUFFICES ASSUME Init PROVE Inv OBVIOUS
<1>1. mailbox \in [Servers -> Mailbox] /\ BoxesOK
  <2>1. ASSUME NEW s \in Servers
        PROVE  mailbox[s] \in Mailbox /\ \A u \in mailbox[s].uids : u < mailbox[s].next
    BY FilledType DEF Init
  <2>2. QED BY <2>1 DEF Init, BoxesOK
<1>2. endpoint \in Servers  BY ProjectionAssumption DEF Init
<1>3. projection \in Projection /\ projection.rows \subseteq Messages(endpoint)
      /\ (projection.coverage = "COMPLETE" =>
            /\ projection.rows = Messages(endpoint)
            /\ projection.validity = mailbox[endpoint].validity
            /\ projection.next = mailbox[endpoint].next
            /\ projection.count = Cardinality(mailbox[endpoint].uids))
  <2>1. projection \in LeftBehind(endpoint) BY DEF Init
  <2>2. QED BY <1>1, <1>2, <2>1, LeftBehindType
<1>4. query = [q \in Queries |-> IdleQuery(endpoint)] BY DEF Init
<1>5. TypeOK BY <1>1, <1>2, <1>3, <1>4, IdleQueryType DEF Init, TypeOK
<1>6. ClaimsOK
  <2>1. \A q \in Queries : ~Claiming(query[q])
    BY <1>4 DEF Claiming, IdleQuery
  <2>2. ProjectionClaims \subseteq {Now} BY <1>3 DEF ProjectionClaims, Now, Box
  <2>3. Claims \subseteq {Now} BY <2>1, <2>2 DEF Claims
  <2>4. QED BY <1>1, <1>5, <2>3, NowAlone
<1>7. ProjectionOK
  <2>1. Messages(endpoint) = From(endpoint, Box.validity, Box.uids) BY <1>5, MessagesOf
  <2>2. \A m \in projection.rows :
          m.server = endpoint /\ m.validity = Box.validity /\ m.uid \in Box.uids
    BY <1>3, <1>5, <2>1, BoxType, FromUids
  <2>3. \A u \in Box.uids : u < Box.next BY <1>1, <1>2 DEF BoxesOK, Box
  <2>4. projection.validity <= Box.validity
    <3>1. projection.validity \in {Unknown, Box.validity}
      BY DEF Init, LeftBehind, NoProjection, Coverage, Box
    <3>2. QED BY <1>5, <3>1, BoxType, ProjectionAssumption DEF Unknown, Epochs
  <2>5. QED BY <2>2, <2>3, <2>4 DEF ProjectionOK, CurrentRows, Of, Below
<1>8. \A q \in Queries : QueryOK(query[q])
  <2>1. Unknown <= Box.validity
    BY <1>5, BoxType, ProjectionAssumption DEF Unknown, Epochs
  <2>2. QED
    BY <1>4, <2>1
    DEF QueryOK, EpochOK, OldOK, StateOK, FetchOK, WriteOK, IdleQuery, Refreshing, Unknown
<1>9. QED BY <1>1, <1>5, <1>6, <1>7, <1>8 DEF Inv, Safety

----------------------------------------------------------------------------
(* The world *)

(* What can happen to the mailbox: in one epoch UIDs only grow, and no      *)
(* message returns.                                                        *)
Moves ==
  /\ Box'.reports = Box.reports
  /\ Box'.validity >= Box.validity
  /\ Box'.validity = Box.validity =>
       /\ Box'.next >= Box.next
       /\ \A u \in Box'.uids : u \in Box.uids \/ u >= Box.next

LEMMA ClaimsMove ==
  ASSUME TypeOK, TypeOK', ClaimsOK, Moves, endpoint' = endpoint, Claims' \subseteq Claims
  PROVE  ClaimsOK'
<1>0. MaxUid \in Nat /\ MaxEpoch \in Nat BY ProjectionAssumption
<1>1. /\ Box.validity \in Nat /\ Box.next \in Nat /\ Box.uids \subseteq Nat
      /\ Box'.validity \in Nat /\ Box'.next \in Nat /\ Box'.uids \subseteq Nat
  <2>1. /\ Box.validity \in Epochs /\ Box.next \in 1..MaxUid + 1 /\ Box.uids \in SUBSET Uids
    BY BoxType
  <2>2. /\ Box'.validity \in Epochs /\ Box'.next \in 1..MaxUid + 1
        /\ Box'.uids \in SUBSET Uids
    BY DEF TypeOK, Box, Mailbox
  <2>3. QED BY <2>1, <2>2, <1>0 DEF Epochs, Uids
<1>2. ASSUME NEW x \in Claims PROVE Sound(x)'
  <2>1. Sound(x) /\ x.validity \in Nat /\ x.next \in Nat BY ClaimsType DEF ClaimsOK
  <2>2. x.validity <= Box'.validity BY <1>1, <2>1 DEF Sound, Moves
  <2>3. x.validity = Box'.validity => x.validity = Box.validity /\ Box'.validity = Box.validity
    BY <1>1, <2>1 DEF Sound, Moves
  <2>4. x.validity = Box'.validity =>
          /\ x.next <= Box'.next
          /\ \A u \in Box'.uids : u < x.next => u \in UidsOf(x.rows)
    <3> SUFFICES ASSUME x.validity = Box'.validity
                 PROVE  /\ x.next <= Box'.next
                        /\ \A u \in Box'.uids : u < x.next => u \in UidsOf(x.rows)
      OBVIOUS
    <3>1. /\ x.next <= Box.next /\ Box'.next >= Box.next
          /\ \A u \in Box.uids : u < x.next => u \in UidsOf(x.rows)
          /\ \A u \in Box'.uids : u \in Box.uids \/ u >= Box.next
      BY <2>1, <2>3 DEF Sound, Moves
    <3>2. QED BY <1>1, <2>1, <3>1
  <2>5. QED BY <2>1, <2>2, <2>4 DEF Sound, Of, UidsOf, Below
<1>3. QED BY <1>2 DEF ClaimsOK, Same

LEMMA RowsMove ==
  ASSUME TypeOK, TypeOK', Moves, endpoint' = endpoint,
         NEW v \in 0..MaxEpoch, NEW R \in SUBSET Message, CurrentRows(v, R)
  PROVE  CurrentRows(v, R)'
<1>0. MaxUid \in Nat /\ MaxEpoch \in Nat BY ProjectionAssumption
<1>1. /\ Box.validity \in Nat /\ Box.next \in Nat
      /\ Box'.validity \in Nat /\ Box'.next \in Nat
  BY <1>0 DEF TypeOK, Box, Mailbox, Epochs
<1>2. \A m \in R : m.uid \in Nat BY <1>0 DEF Message, Uids
<1>3. QED BY <1>0, <1>1, <1>2 DEF CurrentRows, Of, Below, Moves

LEMMA QueryTypes ==
  ASSUME NEW k \in Query
  PROVE  /\ k.server \in Servers /\ k.epoch \in Nat /\ k.session \in Nat
         /\ k.epoch \in 0..MaxEpoch /\ k.session \in 0..MaxEpoch
         /\ k.state \in State /\ k.state.validity \in Nat /\ k.state.next \in Nat
         /\ k.state.validity \in 0..MaxEpoch
         /\ k.listed \in SUBSET Uids /\ k.todo \in SUBSET Uids
         /\ k.listed \subseteq Nat /\ k.todo \subseteq Nat
         /\ k.old \in SUBSET Message /\ k.emails \in SUBSET Message
         /\ k.point \in SUBSET Message
<1>0. MaxUid \in Nat /\ MaxEpoch \in Nat BY ProjectionAssumption
<1>1. /\ k.server \in Servers /\ k.epoch \in 0..MaxEpoch /\ k.session \in 0..MaxEpoch
      /\ k.state \in State /\ k.listed \in SUBSET Uids /\ k.todo \in SUBSET Uids
      /\ k.old \in SUBSET Message /\ k.emails \in SUBSET Message
      /\ k.point \in SUBSET Message
  BY DEF Query
<1>2. k.state.validity \in 0..MaxEpoch /\ k.state.next \in 0..MaxUid + 1 BY <1>1 DEF State
<1>3. QED BY <1>0, <1>1, <1>2 DEF Uids

(* What a query remembers stays true whatever happens to the mailbox.      *)
LEMMA QueryMoves ==
  ASSUME TypeOK, TypeOK', BoxesOK', Moves, endpoint' = endpoint,
         NEW k \in Query, QueryOK(k)
  PROVE  QueryOK(k)'
<1>0. MaxUid \in Nat /\ MaxEpoch \in Nat BY ProjectionAssumption
<1>1. /\ Box.validity \in Nat /\ Box.next \in Nat /\ Box.next >= 1 /\ Box.uids \subseteq Nat
      /\ Box'.validity \in Nat /\ Box'.next \in Nat /\ Box'.uids \subseteq Nat
  <2>1. /\ Box.validity \in Epochs /\ Box.next \in 1..MaxUid + 1 /\ Box.uids \in SUBSET Uids
    BY BoxType
  <2>2. /\ Box'.validity \in Epochs /\ Box'.next \in 1..MaxUid + 1
        /\ Box'.uids \in SUBSET Uids
    BY DEF TypeOK, Box, Mailbox
  <2>3. QED BY <2>1, <2>2, <1>0 DEF Epochs, Uids
<1>2. \A u \in Box'.uids : u < Box'.next BY DEF TypeOK, BoxesOK, Box
<1>3. EpochOK(k)' BY <1>1, QueryTypes DEF QueryOK, EpochOK, Moves
<1>4. OldOK(k)'
  <2> SUFFICES ASSUME k.pc \in Refreshing
               PROVE  /\ CurrentRows(k.epoch, k.old)'
                      /\ k.old # {} => k.epoch # Unknown
                      /\ k.mode = "delta" =>
                           /\ "uidvalidity" \in Box'.reports /\ "uidnext" \in Box'.reports
                           /\ k.epoch = Box'.validity =>
                                \A u \in Box'.uids : u <= High(k.old) => u \in UidsOf(k.old)
    BY DEF OldOK, High, UidsOf
  <2>1. /\ CurrentRows(k.epoch, k.old) /\ (k.old # {} => k.epoch # Unknown)
        /\ k.mode = "delta" =>
             /\ "uidvalidity" \in Box.reports /\ "uidnext" \in Box.reports
             /\ k.epoch = Box.validity =>
                  \A u \in Box.uids : u <= High(k.old) => u \in UidsOf(k.old)
    BY DEF QueryOK, OldOK
  <2>2. CurrentRows(k.epoch, k.old)' BY <2>1, QueryTypes, RowsMove
  <2>3. ASSUME k.mode = "delta", k.epoch = Box'.validity,
               NEW u \in Box'.uids, u <= High(k.old)
        PROVE  u \in UidsOf(k.old)
    <3>1. k.epoch = Box.validity /\ Box'.validity = Box.validity
      BY <1>1, <2>1, <2>3, QueryTypes DEF CurrentRows, Moves
    <3>2. High(k.old) \in Nat /\ High(k.old) < Box.next
      <4>1. High(k.old) \in 0..MaxUid /\ (k.old # {} => \E m \in k.old : High(k.old) = m.uid)
        BY QueryTypes, HighOf
      <4>2. \A m \in k.old : m.uid < Box.next BY <2>1, <3>1 DEF CurrentRows, Below
      <4>3. k.old = {} => High(k.old) = 0 BY DEF High
      <4>4. QED BY <1>0, <1>1, <4>1, <4>2, <4>3
    <3>3. u \in Box.uids \/ u >= Box.next BY <3>1 DEF Moves
    <3>4. QED BY <1>1, <2>1, <2>3, <3>1, <3>2, <3>3
  <2>4. QED BY <2>1, <2>2, <2>3 DEF Moves
<1>5. StateOK(k)'
  BY <1>1, QueryTypes DEF QueryOK, StateOK, Moves
<1>6. FetchOK(k)'
  <2> SUFFICES ASSUME k.pc = "fetch" PROVE FetchOK(k)' BY DEF FetchOK
  <2>1. FetchOK(k) /\ StateOK(k) /\ EpochOK(k) BY DEF QueryOK
  <2>2. /\ k.session # Unknown /\ k.session <= Box'.validity
        /\ k.session = Box'.validity => \A u \in k.listed : u < Box'.next
    BY <1>1, <2>1, QueryTypes DEF FetchOK, Moves
  <2>3. ASSUME EpochObserved(k.state), k.state.validity = Box'.validity,
               k.state.next = Box'.next, k.mode = "delta" => k.epoch = Box'.validity
        PROVE  Box'.uids \subseteq Known(k)
    <3>1. /\ k.state.validity <= Box.validity
          /\ k.state.validity = Box.validity => k.state.next <= Box.next
          /\ k.epoch <= Box.validity
      BY <2>1 DEF StateOK, EpochOK
    <3>2. /\ k.state.validity = Box.validity /\ Box'.validity = Box.validity
          /\ Box'.next = Box.next
          /\ k.mode = "delta" => k.epoch = Box.validity
      BY <1>1, <2>3, <3>1, QueryTypes DEF Moves
    <3>3. Box.uids \subseteq Known(k) BY <2>1, <2>3, <3>2 DEF FetchOK
    <3>4. \A u \in Box'.uids : u \in Box.uids BY <1>1, <1>2, <3>2 DEF Moves
    <3>5. QED BY <3>3, <3>4
  <2>4. Known(k)' = Known(k) /\ EpochObserved(k.state)' = EpochObserved(k.state)
        /\ High(k.old)' = High(k.old)
    BY DEF Known, UidsOf, EpochObserved, High
  <2>5. QED BY <2>1, <2>2, <2>3, <2>4 DEF FetchOK
<1>7. WriteOK(k)'
  <2>1. CurrentRows(k.state.validity, k.emails) => CurrentRows(k.state.validity, k.emails)'
    BY QueryTypes, RowsMove
  <2>2. QED BY <2>1 DEF QueryOK, WriteOK
<1>8. QED BY <1>3, <1>4, <1>5, <1>6, <1>7 DEF QueryOK

(* The steps of the world *)
LEMMA WorldType == TypeOK /\ BoxesOK /\ World => TypeOK' /\ BoxesOK'
<1> SUFFICES ASSUME TypeOK, BoxesOK, World PROVE TypeOK' /\ BoxesOK' OBVIOUS
<1>0. MaxUid \in Nat /\ MaxEpoch \in Nat BY ProjectionAssumption
<1>1. ASSUME NEW s \in Servers
      PROVE  /\ mailbox[s].validity \in Epochs /\ mailbox[s].next \in 1..MaxUid + 1
             /\ mailbox[s].uids \in SUBSET Uids /\ mailbox[s].reports \in SUBSET Fields
             /\ \A u \in mailbox[s].uids : u < mailbox[s].next
  BY DEF TypeOK, Mailbox, BoxesOK
<1>2. ASSUME NEW s \in Servers, NEW b \in Mailbox, \A u \in b.uids : u < b.next,
             mailbox' = [mailbox EXCEPT ![s] = b], UNCHANGED <<mix, endpoint, projection, query>>
      PROVE  TypeOK' /\ BoxesOK'
  BY <1>2 DEF TypeOK, BoxesOK
<1>3. ASSUME NEW s \in Servers, Append(s) PROVE TypeOK' /\ BoxesOK'
  <2> DEFINE b == [mailbox[s] EXCEPT !.uids = @ \cup {mailbox[s].next}, !.next = @ + 1]
  <2>1. /\ mailbox[s] \in Mailbox /\ mailbox[s].next \in Uids
        /\ mailbox[s].next + 1 \in 1..MaxUid + 1
    BY <1>0, <1>1, <1>3 DEF Append, TypeOK, Uids
  <2>2. b \in Mailbox /\ \A u \in b.uids : u < b.next
    <3>1. b \in Mailbox BY <2>1 DEF Mailbox
    <3>2. /\ b.uids = mailbox[s].uids \cup {mailbox[s].next}
          /\ b.next = mailbox[s].next + 1
      BY <2>1 DEF Mailbox
    <3>3. \A u \in mailbox[s].uids : u \in Nat /\ u < mailbox[s].next BY <1>0, <1>1 DEF Uids
    <3>4. mailbox[s].next \in Nat BY <1>0, <1>1
    <3>5. QED BY <3>1, <3>2, <3>3, <3>4
  <2>3. mailbox' = [mailbox EXCEPT ![s] = b] BY <1>3 DEF Append, TypeOK
  <2> HIDE DEF b
  <2>4. QED BY <1>2, <1>3, <2>2, <2>3 DEF Append
<1>4. ASSUME NEW s \in Servers, NEW u \in Uids, Expunge(s, u) PROVE TypeOK' /\ BoxesOK'
  <2> DEFINE b == [mailbox[s] EXCEPT !.uids = @ \ {u}]
  <2>1. b \in Mailbox /\ \A w \in b.uids : w < b.next
    BY <1>1 DEF TypeOK, Mailbox
  <2>2. mailbox' = [mailbox EXCEPT ![s] = b] BY <1>4 DEF Expunge, TypeOK
  <2> HIDE DEF b
  <2>3. QED BY <1>2, <1>4, <2>1, <2>2 DEF Expunge
<1>5. ASSUME NEW s \in Servers, NEW k \in 0..MaxUid, Reset(s, k) PROVE TypeOK' /\ BoxesOK'
  <2> DEFINE b == [mailbox[s] EXCEPT !.validity = @ + 1, !.next = k + 1, !.uids = 1..k]
  <2>1. /\ mailbox[s] \in Mailbox /\ mailbox[s].validity + 1 \in Epochs
        /\ k + 1 \in 1..MaxUid + 1 /\ 1..k \subseteq Uids /\ \A u \in 1..k : u < k + 1
    BY <1>0, <1>1, <1>5 DEF Reset, TypeOK, Uids, Epochs
  <2>2. b \in Mailbox /\ \A u \in b.uids : u < b.next BY <2>1 DEF Mailbox
  <2>3. mailbox' = [mailbox EXCEPT ![s] = b] BY <1>5 DEF Reset, TypeOK
  <2> HIDE DEF b
  <2>4. QED BY <1>2, <1>5, <2>2, <2>3 DEF Reset
<1>6. CASE Invalidate BY <1>6 DEF Invalidate, TypeOK, Projection, BoxesOK
<1>7. ASSUME NEW s \in Servers, ChangeEndpoint(s) PROVE TypeOK' /\ BoxesOK'
  <2>1. NoProjection \in Projection
    BY ProjectionAssumption DEF NoProjection, Projection, Unknown
  <2>2. QED BY <1>7, <2>1 DEF ChangeEndpoint, TypeOK, BoxesOK
<1>8. QED BY <1>3, <1>4, <1>5, <1>6, <1>7 DEF World

LEMMA WorldMoves == TypeOK /\ World /\ Settled => Moves /\ endpoint' = endpoint
<1> SUFFICES ASSUME TypeOK, World, Settled PROVE Moves /\ endpoint' = endpoint OBVIOUS
<1>0. MaxUid \in Nat /\ MaxEpoch \in Nat BY ProjectionAssumption
<1>1. /\ endpoint \in Servers /\ mailbox \in [Servers -> Mailbox]
      /\ Box \in Mailbox /\ Box.validity \in Nat /\ Box.next \in Nat
  BY <1>0, BoxType DEF TypeOK, Epochs
<1>2. ASSUME UNCHANGED <<mailbox, endpoint>> PROVE Moves
  BY <1>1, <1>2 DEF Moves, Box
<1>3. ASSUME NEW s \in Servers, Append(s) PROVE Moves /\ endpoint' = endpoint
  BY <1>1, <1>3 DEF Append, Moves, Box, Mailbox
<1>4. ASSUME NEW s \in Servers, NEW u \in Uids, Expunge(s, u)
      PROVE  Moves /\ endpoint' = endpoint
  BY <1>1, <1>4 DEF Expunge, Moves, Box, Mailbox
<1>5. ASSUME NEW s \in Servers, NEW k \in 0..MaxUid, Reset(s, k)
      PROVE  Moves /\ endpoint' = endpoint
  BY <1>1, <1>5 DEF Reset, Moves, Box, Mailbox
<1>6. CASE Invalidate BY <1>2, <1>6 DEF Invalidate
<1>7. ~ \E s \in Servers : ChangeEndpoint(s) BY DEF ChangeEndpoint, Settled
<1>8. QED BY <1>3, <1>4, <1>5, <1>6, <1>7 DEF World

LEMMA WorldSafe == Inv /\ World => Inv'
<1> SUFFICES ASSUME Inv, World PROVE Inv' OBVIOUS
<1>0. TypeOK /\ BoxesOK BY DEF Inv, Safety
<1>1. TypeOK' /\ BoxesOK' BY <1>0, WorldType
<1>2. mix' = mix /\ query' = query
  BY DEF World, Append, Expunge, Reset, Invalidate, ChangeEndpoint
<1>3. ASSUME Settled PROVE ClaimsOK' /\ ProjectionOK' /\ \A q \in Queries : QueryOK(query[q])'
  <2>1. ClaimsOK /\ ProjectionOK /\ \A q \in Queries : QueryOK(query[q])
    BY <1>3 DEF Inv, Safety
  <2>2. Moves /\ endpoint' = endpoint BY <1>0, <1>3, WorldMoves
  <2>3. /\ projection'.validity = projection.validity /\ projection'.rows = projection.rows
        /\ projection'.next = projection.next /\ projection'.count = projection.count
        /\ projection'.coverage = "COMPLETE" => projection.coverage = "COMPLETE"
    BY <1>0, <1>3
    DEF World, Append, Expunge, Reset, Invalidate, ChangeEndpoint, Settled, TypeOK, Projection
  <2>4. Claims' \subseteq Claims
    <3>1. ProjectionClaims' \subseteq ProjectionClaims BY <2>3 DEF ProjectionClaims, Claim
    <3>2. \A q \in Queries : Claiming(query[q])' = Claiming(query[q])
      BY <1>2 DEF Claiming, EpochObserved
    <3>3. QED BY <1>2, <3>1, <3>2 DEF Claims, ClaimOf, Claim
  <2>5. ClaimsOK' BY <1>0, <1>1, <2>1, <2>2, <2>4, ClaimsMove
  <2>6. ProjectionOK'
    <3>1. projection.validity \in 0..MaxEpoch /\ projection.rows \in SUBSET Message
      BY <1>0 DEF TypeOK, Projection
    <3>2. CurrentRows(projection.validity, projection.rows)'
      <4>1. \A v \in 0..MaxEpoch, R \in SUBSET Message :
              CurrentRows(v, R) =>
                /\ v <= Box'.validity
                /\ v = Box'.validity => /\ \A m \in R : m.server = endpoint' /\ m.validity = v
                                       /\ \A m \in R : m.uid < Box'.next
        BY <1>0, <1>1, <2>2, RowsMove DEF CurrentRows, Of, Below
      <4>2. QED BY <2>1, <2>3, <3>1, <4>1 DEF ProjectionOK, CurrentRows, Of, Below
    <3>3. QED BY <3>2 DEF ProjectionOK
  <2>7. ASSUME NEW q \in Queries PROVE QueryOK(query[q])'
    <3>1. query[q] \in Query /\ QueryOK(query[q]) BY <1>0, <2>1 DEF TypeOK
    <3> DEFINE k == query[q]
    <3>2. k' = k BY <1>2
    <3>3. \A j \in Query : QueryOK(j) => QueryOK(j)' BY <1>0, <1>1, <2>2, QueryMoves
    <3>4. QED BY <1>2, <3>1, <3>3
  <2>8. QED BY <2>5, <2>6, <2>7
<1>4. QED BY <1>1, <1>2, <1>3 DEF Inv, Safety, Settled

----------------------------------------------------------------------------
(* The steps of a query *)

(* What a step of a query has to establish: what the query remembers then,  *)
(* and that what it or the projection claims is true.                      *)
LEMMA StepSafe ==
  ASSUME Inv, NEW q \in Queries, NEW k \in Query, query' = [query EXCEPT ![q] = k],
         UNCHANGED <<mix, mailbox, endpoint>>, projection' \in Projection,
         Settled => /\ QueryOK(k)
                    /\ CurrentRows(projection'.validity, projection'.rows)
                    /\ ProjectionClaims' \subseteq Claims \cup {Now}
                    /\ Claiming(k) => ClaimOf(k) \in Claims \cup {Now}
  PROVE  Inv'
<1>1. TypeOK /\ BoxesOK BY DEF Inv, Safety
<1>2. TypeOK' /\ BoxesOK' BY <1>1 DEF TypeOK, BoxesOK
<1>3. Box' = Box BY DEF Box
<1>4. ASSUME Settled PROVE ClaimsOK' /\ ProjectionOK' /\ \A p \in Queries : QueryOK(query[p])'
  <2>1. ClaimsOK /\ \A p \in Queries : QueryOK(query[p]) BY <1>4 DEF Inv, Safety
  <2>2. \A p \in Queries : query'[p] = IF p = q THEN k ELSE query[p] BY <1>1 DEF TypeOK
  <2>3. \A j : /\ QueryOK(j)' = QueryOK(j)
               /\ \A v, R : CurrentRows(v, R)' = CurrentRows(v, R)
               /\ Claiming(j)' = Claiming(j) /\ ClaimOf(j)' = ClaimOf(j)
    BY <1>3
    DEF QueryOK, EpochOK, OldOK, StateOK, FetchOK, WriteOK, CurrentRows, Of, Below, High, UidsOf,
        EpochObserved, Known, Claiming, ClaimOf, Claim
  <2>4. Claims' \subseteq Claims \cup {Now}
    <3>1. ASSUME NEW p \in Queries, Claiming(query'[p])
          PROVE  ClaimOf(query'[p]) \in Claims \cup {Now}
      BY <1>4, <2>2, <3>1 DEF Claims
    <3>2. Claims' = ProjectionClaims' \cup
                    {ClaimOf(query'[p]) : p \in {j \in Queries : Claiming(query'[j])}}
      BY DEF Claims, Claiming, ClaimOf, Claim, EpochObserved
    <3>3. QED BY <1>4, <3>1, <3>2
  <2>5. ClaimsOK' BY <1>1, <2>1, <2>4, ClaimsStay
  <2>6. ProjectionOK' BY <1>3, <1>4 DEF ProjectionOK, CurrentRows, Of, Below
  <2>7. ASSUME NEW p \in Queries PROVE QueryOK(query[p])'
    <3>1. QueryOK(query'[p]) BY <1>4, <2>1, <2>2
    <3>2. EpochOK(query[p])' /\ StateOK(query[p])'
      BY <1>3, <3>1 DEF QueryOK, EpochOK, StateOK
    <3>3. OldOK(query[p])'
      BY <1>3, <3>1 DEF QueryOK, OldOK, CurrentRows, Of, Below, High, UidsOf
    <3>4. FetchOK(query[p])'
      BY <1>3, <3>1 DEF QueryOK, FetchOK, High, UidsOf, EpochObserved, Known
    <3>5. WriteOK(query[p])'
      BY <1>3, <3>1 DEF QueryOK, WriteOK, CurrentRows, Of, Below
    <3>6. QED BY <3>2, <3>3, <3>4, <3>5 DEF QueryOK
  <2>8. QED BY <2>5, <2>6, <2>7
<1>5. QED BY <1>2, <1>4 DEF Inv, Safety, Settled

(* The steps that leave the projection alone. *)
LEMMA QueryStepSafe ==
  ASSUME Inv, NEW q \in Queries, NEW k \in Query, query' = [query EXCEPT ![q] = k],
         UNCHANGED <<mix, mailbox, endpoint, projection>>,
         Settled => QueryOK(k) /\ (Claiming(k) => ClaimOf(k) \in Claims \cup {Now})
  PROVE  Inv'
<1>1. projection' \in Projection BY DEF Inv, TypeOK
<1>2. Settled => CurrentRows(projection'.validity, projection'.rows)
  BY DEF Inv, Safety, ProjectionOK
<1>3. ProjectionClaims' \subseteq Claims \cup {Now} BY DEF ProjectionClaims, Claims, Claim
<1>4. QED BY <1>1, <1>2, <1>3, StepSafe

LEMMA AtQuery ==
  ASSUME Inv, NEW q \in Queries
  PROVE  /\ query[q] \in Query /\ query[q].server \in Servers
         /\ Settled => QueryOK(query[q]) /\ query[q].server = endpoint
BY QueryTypes DEF Inv, TypeOK, Safety, QueryOK, EpochOK

LEMMA EndedSafe ==
  ASSUME Inv, NEW q \in Queries, NEW how \in {"page", "fallback", "failed"},
         how = "page" /\ Settled => query[q].emails = query[q].point
  PROVE  LET k == Ended(q, how)
         IN  k \in Query /\ ~Claiming(k) /\ (Settled => QueryOK(k))
<1>1. query[q] \in Query /\ query[q].server \in Servers
      /\ query[q].emails \in SUBSET Message /\ query[q].point \in SUBSET Message
  BY AtQuery, QueryTypes
<1> DEFINE k == Ended(q, how)
<1>2. IdleQuery(query[q].server) \in Query BY <1>1, IdleQueryType
<1>3. k \in Query BY <1>1, <1>2 DEF Ended, Query
<1>4. /\ k.pc = "done" /\ k.server = query[q].server /\ k.epoch = Unknown
      /\ k.result = how
      /\ k.emails = IF how = "page" THEN query[q].emails ELSE {}
      /\ k.point = IF how = "page" THEN query[q].point ELSE {}
  BY DEF Ended, IdleQuery
<1>5. Settled => QueryOK(k)
  <2>1. Unknown <= Box.validity
    BY BoxType, ProjectionAssumption DEF Inv, Unknown, Epochs
  <2> HIDE DEF k
  <2>2. Settled => k.server = endpoint BY <1>4, AtQuery
  <2>3. QED BY <1>4, <2>1, <2>2
    DEF QueryOK, EpochOK, OldOK, StateOK, FetchOK, WriteOK, Refreshing, Unknown
<1>6. QED BY <1>3, <1>4, <1>5 DEF Claiming

LEMMA StartSafe == \A q \in Queries : Inv /\ Start(q) => Inv'
<1> SUFFICES ASSUME NEW q \in Queries, Inv, Start(q) PROVE Inv' OBVIOUS
<1> DEFINE k == [IdleQuery(endpoint) EXCEPT !.pc = "qualify"]
<1>1. TypeOK /\ endpoint \in Servers BY DEF Inv, TypeOK
<1>2. k \in Query
  <2>1. IdleQuery(endpoint) \in Query BY <1>1, IdleQueryType
  <2>2. QED BY <2>1 DEF Query
<1>3. QueryOK(k)
  <2>1. Unknown <= Box.validity
    BY <1>1, BoxType, ProjectionAssumption DEF Unknown, Epochs
  <2>2. QED BY <2>1
    DEF IdleQuery, QueryOK, EpochOK, OldOK, StateOK, FetchOK, WriteOK, Refreshing, Unknown
<1>4. ~Claiming(k) BY DEF Claiming, IdleQuery
<1>5. query' = [query EXCEPT ![q] = k] /\ UNCHANGED <<mix, mailbox, endpoint, projection>>
  BY DEF Start
<1> HIDE DEF k
<1>6. QED BY <1>2, <1>3, <1>4, <1>5, QueryStepSafe

LEMMA QualifySafe == \A q \in Queries : Inv /\ Qualify(q) => Inv'
<1> SUFFICES ASSUME NEW q \in Queries, Inv, Qualify(q) PROVE Inv' OBVIOUS
<1> DEFINE s == query[q].server
           st == StatusOf(s)
           k == [query[q] EXCEPT !.pc = "lookup", !.state = st, !.epoch = st.validity,
                                 !.point = Messages(s)]
<1>1. TypeOK /\ query[q] \in Query /\ s \in Servers /\ query[q].pc = "qualify"
  BY AtQuery DEF Inv, Qualify
<1>2. /\ st \in State /\ Messages(s) \in SUBSET Message
      /\ st.validity \in {Unknown, mailbox[s].validity}
      /\ st.validity # Unknown => "uidvalidity" \in mailbox[s].reports
      /\ st.next # Unknown => "uidnext" \in mailbox[s].reports
      /\ st.next \in {Unknown, mailbox[s].next}
      /\ st.count = Cardinality(mailbox[s].uids)
  <2>1. mailbox[s].uids \in SUBSET Uids BY <1>1 DEF TypeOK, Mailbox
  <2>2. QED BY <1>1, <2>1, StatusType, FetchedType DEF Messages
<1>3. query' = [query EXCEPT ![q] = k] /\ UNCHANGED <<mix, mailbox, endpoint, projection>>
  BY <1>1 DEF Qualify, TypeOK
<1> HIDE DEF st
<1>4. /\ k.pc = "lookup" /\ k.server = s /\ k.state = st /\ k.epoch = st.validity
      /\ k.point = Messages(s) /\ k.emails = query[q].emails /\ k.result = query[q].result
  BY <1>1 DEF Query
<1>5. k \in Query
  <2>1. st.validity \in 0..MaxEpoch BY <1>2 DEF State
  <2>2. QED BY <1>1, <1>2, <2>1 DEF Query
<1> HIDE DEF k
<1>6. ASSUME Settled PROVE QueryOK(k) /\ (Claiming(k) => ClaimOf(k) = Now)
  <2>1. s = endpoint /\ QueryOK(query[q]) BY <1>6, AtQuery
  <2>2. st.validity <= Box.validity
    BY <1>1, <1>2, <2>1, BoxType, ProjectionAssumption DEF Unknown, Epochs, Box
  <2>3. QueryOK(k)
    BY <1>1, <1>2, <1>4, <2>1, <2>2
    DEF QueryOK, EpochOK, OldOK, StateOK, FetchOK, WriteOK, Refreshing, Box
  <2>4. Claiming(k) => ClaimOf(k) = Now
    BY <1>2, <1>4, <2>1 DEF Claiming, EpochObserved, ClaimOf, Now, Box
  <2>5. QED BY <2>3, <2>4
<1>7. QED BY <1>3, <1>5, <1>6, QueryStepSafe

LEMMA LookupSafe == \A q \in Queries : Inv /\ Lookup(q) => Inv'
<1> SUFFICES ASSUME NEW q \in Queries, Inv, Lookup(q) PROVE Inv' OBVIOUS
<1>1. TypeOK /\ query[q] \in Query /\ query[q].pc = "lookup"
  BY AtQuery DEF Inv, Lookup
<1>2. CASE Covers(query[q].state)
  <2> DEFINE k == [query[q] EXCEPT !.pc = "keywords", !.emails = projection.rows,
                                   !.state = NoState, !.epoch = Unknown]
  <2>1. query' = [query EXCEPT ![q] = k] /\ UNCHANGED <<mix, mailbox, endpoint, projection>>
    BY <1>1, <1>2 DEF Lookup, TypeOK
  <2>2. /\ k.pc = "keywords" /\ k.server = query[q].server /\ k.epoch = Unknown
        /\ k.state = NoState /\ k.emails = projection.rows /\ k.point = query[q].point
        /\ k.result = query[q].result
    BY <1>1 DEF Query
  <2>3. k \in Query
    <3>1. NoState \in State /\ Unknown \in 0..MaxEpoch /\ projection.rows \in SUBSET Message
      BY <1>1, ProjectionAssumption DEF NoState, State, Unknown, TypeOK, Projection
    <3>2. QED BY <1>1, <3>1 DEF Query
  <2> HIDE DEF k
  <2>4. ASSUME Settled PROVE QueryOK(k)
    <3>1. QueryOK(query[q]) /\ query[q].server = endpoint BY <2>4, AtQuery
    <3> DEFINE x == Claim(projection.validity, projection.next, projection.count, projection.rows)
               y == ClaimOf(query[q])
    <3>2. x \in Claims /\ y \in Claims /\ Same(x, y)
      BY <1>1, <1>2
      DEF Covers, Claims, ProjectionClaims, Claiming, ClaimOf, Claim, Same
    <3>3. projection.rows = query[q].point
      BY <2>4, <3>2 DEF Inv, Safety, ClaimsOK, ClaimOf, Claim
    <3>4. Unknown <= Box.validity
      BY <1>1, BoxType, ProjectionAssumption DEF Unknown, Epochs
    <3>5. QED BY <1>1, <2>2, <3>1, <3>3, <3>4
      DEF QueryOK, EpochOK, OldOK, StateOK, FetchOK, WriteOK, Refreshing, Unknown
  <2>5. ~Claiming(k) BY <2>2 DEF Claiming
  <2>6. QED BY <2>1, <2>3, <2>4, <2>5, QueryStepSafe
<1>3. CASE ~Covers(query[q].state)
  <2> DEFINE k == [query[q] EXCEPT !.pc = "baseline", !.server = endpoint, !.point = {}]
  <2>1. query' = [query EXCEPT ![q] = k] /\ UNCHANGED <<mix, mailbox, endpoint, projection>>
    BY <1>1, <1>3 DEF Lookup, TypeOK
  <2>2. /\ k.pc = "baseline" /\ k.server = endpoint /\ k.epoch = query[q].epoch
        /\ k.state = query[q].state /\ k.emails = query[q].emails
        /\ k.result = query[q].result
    BY <1>1 DEF Query
  <2>3. k \in Query BY <1>1 DEF Query, TypeOK
  <2> HIDE DEF k
  <2>4. Settled => QueryOK(k)
    BY <1>1, <2>2, AtQuery
    DEF QueryOK, EpochOK, OldOK, StateOK, FetchOK, WriteOK, Refreshing
  <2>5. ~Claiming(k) BY <2>2 DEF Claiming
  <2>6. QED BY <2>1, <2>3, <2>4, <2>5, QueryStepSafe
<1>4. QED BY <1>2, <1>3

(* The rows of a complete projection of this epoch are all the messages the *)
(* mailbox has up to the highest of them.                                  *)
LEMMA CompleteUpToHigh ==
  ASSUME Inv, Settled, projection.coverage = "COMPLETE", projection.validity = Box.validity,
         NEW u \in Box.uids, u <= High(projection.rows)
  PROVE  u \in UidsOf(projection.rows)
<1> DEFINE x == Claim(projection.validity, projection.next, projection.count, projection.rows)
           R == projection.rows
<1>0. MaxUid \in Nat BY ProjectionAssumption
<1>1. TypeOK /\ R \in SUBSET Message /\ projection.next \in Nat
  BY <1>0 DEF Inv, TypeOK, Projection
<1>2. x \in Claims /\ x.rows = R /\ x.validity = Box.validity /\ x.next = projection.next
  BY DEF Claims, ProjectionClaims, Claim
<1>3. Sound(x) BY <1>2 DEF Inv, Safety, ClaimsOK
<1>4. /\ \A w \in Box.uids : w < x.next => w \in UidsOf(R)
      /\ \A m \in R : m.uid < x.next
  BY <1>2, <1>3 DEF Sound, Below
<1>5. u \in Nat /\ u # 0 BY <1>0, <1>1, BoxType DEF Uids
<1>6. High(R) \in 0..MaxUid /\ (R # {} => \E m \in R : High(R) = m.uid) BY <1>1, HighOf
<1>7. R # {} BY <1>5 DEF High
<1>8. High(R) < x.next BY <1>4, <1>6, <1>7
<1>9. u < x.next BY <1>0, <1>1, <1>2, <1>5, <1>6, <1>8
<1>10. QED BY <1>4, <1>9

LEMMA BaselineSafe == \A q \in Queries : Inv /\ Baseline(q) => Inv'
<1> SUFFICES ASSUME NEW q \in Queries, Inv, Baseline(q) PROVE Inv' OBVIOUS
<1> DEFINE usable == /\ query[q].epoch # Unknown
                     /\ projection.validity = query[q].epoch
                     /\ projection.coverage # "none"
           extend == /\ usable
                     /\ projection.coverage = "COMPLETE"
                     /\ query[q].state.next # Unknown
                     /\ projection.count < WindowRows
           mode == IF extend THEN "delta" ELSE "snapshot"
           old == IF usable THEN projection.rows ELSE {}
           k == [query[q] EXCEPT !.pc = "status", !.mode = mode, !.old = old]
<1>1. TypeOK /\ query[q] \in Query /\ query[q].pc = "baseline"
  BY AtQuery DEF Inv, Baseline
<1>2. query' = [query EXCEPT ![q] = k] /\ UNCHANGED <<mix, mailbox, endpoint, projection>>
  BY <1>1 DEF Baseline, TypeOK
<1>3. mode \in {"delta", "snapshot"} /\ old \in SUBSET Message
  BY <1>1 DEF TypeOK, Projection
<1>4. /\ mode = "delta" => extend
      /\ old # {} => usable
      /\ usable => old = projection.rows
  OBVIOUS
<1> HIDE DEF mode, old
<1>5. /\ k.pc = "status" /\ k.mode = mode /\ k.old = old /\ k.server = query[q].server
      /\ k.epoch = query[q].epoch /\ k.state = query[q].state /\ k.emails = query[q].emails
      /\ k.result = query[q].result
  BY <1>1 DEF Query
<1>6. k \in Query BY <1>1, <1>3 DEF Query
<1> HIDE DEF k
<1>7. ASSUME Settled PROVE QueryOK(k)
  <2>1. QueryOK(query[q]) /\ ProjectionOK BY <1>7, AtQuery DEF Inv, Safety
  <2>2. CurrentRows(k.epoch, k.old)
    <3>1. k.epoch <= Box.validity BY <1>5, <2>1 DEF QueryOK, EpochOK
    <3>2. CASE usable BY <1>4, <1>5, <2>1, <3>2 DEF ProjectionOK
    <3>3. CASE ~usable BY <1>4, <1>5, <3>1, <3>3 DEF CurrentRows, Of, Below
    <3>4. QED BY <3>2, <3>3
  <2>3. ASSUME k.mode = "delta"
        PROVE  /\ "uidvalidity" \in Box.reports /\ "uidnext" \in Box.reports
               /\ k.epoch = Box.validity => \A u \in Box.uids : u <= High(k.old) => u \in UidsOf(k.old)
    <3>1. extend BY <1>4, <1>5, <2>3
    <3>2. "uidvalidity" \in Box.reports /\ "uidnext" \in Box.reports
      BY <1>1, <2>1, <3>1 DEF QueryOK, EpochOK
    <3>3. QED BY <1>4, <1>5, <1>7, <3>1, <3>2, CompleteUpToHigh
  <2>4. EpochOK(k) BY <1>1, <1>5, <2>1 DEF QueryOK, EpochOK
  <2>5. OldOK(k) BY <1>4, <1>5, <2>2, <2>3 DEF OldOK
  <2>6. QED BY <1>1, <1>5, <2>1, <2>4, <2>5 DEF QueryOK, StateOK, FetchOK, WriteOK
<1>8. ~Claiming(k) BY <1>5 DEF Claiming
<1>9. QED BY <1>2, <1>6, <1>7, <1>8, QueryStepSafe

LEMMA EndsSafe ==
  ASSUME Inv, NEW q \in Queries, NEW how \in {"page", "fallback", "failed"},
         how = "page" /\ Settled => query[q].emails = query[q].point,
         query' = [query EXCEPT ![q] = Ended(q, how)],
         UNCHANGED <<mix, mailbox, endpoint, projection>>
  PROVE  Inv'
<1> DEFINE k == Ended(q, how)
<1>1. k \in Query /\ ~Claiming(k) /\ (Settled => QueryOK(k)) BY EndedSafe
<1> HIDE DEF k
<1>2. query' = [query EXCEPT ![q] = k] BY DEF k
<1>3. QED BY <1>1, <1>2, QueryStepSafe

LEMMA ProjectionFailsSafe == \A q \in Queries : Inv /\ ProjectionFails(q) => Inv'
BY EndsSafe DEF ProjectionFails

LEMMA StatusSafe == \A q \in Queries : Inv /\ Status(q) => Inv'
<1> SUFFICES ASSUME NEW q \in Queries, Inv, Status(q) PROVE Inv' OBVIOUS
<1> DEFINE s == query[q].server
           st == StatusOf(s)
           k == [query[q] EXCEPT !.pc = "search", !.state = st]
<1>1. TypeOK /\ query[q] \in Query /\ s \in Servers /\ query[q].pc = "status"
  BY AtQuery DEF Inv, Status
<1>2. /\ st \in State /\ st.validity \in {Unknown, mailbox[s].validity}
      /\ st.validity # Unknown <=> "uidvalidity" \in mailbox[s].reports
      /\ st.next # Unknown <=> "uidnext" \in mailbox[s].reports
      /\ st.next \in {Unknown, mailbox[s].next}
  BY <1>1, StatusType
<1>3. query' = [query EXCEPT ![q] = k] /\ UNCHANGED <<mix, mailbox, endpoint, projection>>
  BY <1>1 DEF Status, TypeOK
<1> HIDE DEF st
<1>4. /\ k.pc = "search" /\ k.server = s /\ k.state = st /\ k.epoch = query[q].epoch
      /\ k.mode = query[q].mode /\ k.old = query[q].old /\ k.emails = query[q].emails
      /\ k.result = query[q].result
  BY <1>1 DEF Query
<1>5. k \in Query BY <1>1, <1>2 DEF Query
<1> HIDE DEF k
<1>6. ASSUME Settled PROVE QueryOK(k)
  <2>1. s = endpoint /\ QueryOK(query[q]) BY <1>6, AtQuery
  <2>2. st.validity <= Box.validity /\ st.next <= Box.next
    BY <1>1, <1>2, <2>1, BoxType, ProjectionAssumption DEF Unknown, Epochs, Box
  <2>3. StateOK(k) BY <1>2, <1>4, <2>1, <2>2 DEF StateOK, Box
  <2>4. OldOK(k) BY <1>1, <1>4, <2>1 DEF QueryOK, OldOK, Refreshing
  <2>5. QED BY <1>1, <1>4, <2>1, <2>3, <2>4 DEF QueryOK, EpochOK, FetchOK, WriteOK
<1>7. ~Claiming(k) BY <1>4 DEF Claiming
<1>8. QED BY <1>3, <1>5, <1>6, <1>7, QueryStepSafe

(* A delta that is no use is forgotten. *)
LEMMA SnapshotSafe ==
  ASSUME Inv, NEW q \in Queries, query[q].pc \in Refreshing,
         query' = [query EXCEPT ![q] = Snapshot(q)],
         UNCHANGED <<mix, mailbox, endpoint, projection>>
  PROVE  Inv'
<1> DEFINE k == Snapshot(q)
<1>1. query[q] \in Query BY AtQuery
<1>2. /\ k.pc = "status" /\ k.mode = "snapshot" /\ k.server = query[q].server
      /\ k.epoch = query[q].epoch /\ k.old = query[q].old /\ k.emails = {}
      /\ k.result = query[q].result
  BY <1>1 DEF Snapshot, Query
<1>3. k \in Query
  <2>1. Unknown \in 0..MaxEpoch BY ProjectionAssumption DEF Unknown
  <2>2. QED BY <1>1, <2>1 DEF Snapshot, Query
<1>4. query' = [query EXCEPT ![q] = k] OBVIOUS
<1> HIDE DEF k
<1>5. ASSUME Settled PROVE QueryOK(k)
  <2>1. QueryOK(query[q]) BY <1>5, AtQuery
  <2>2. OldOK(k) BY <1>2, <2>1 DEF QueryOK, OldOK
  <2>3. QED BY <1>2, <2>1, <2>2
    DEF QueryOK, EpochOK, StateOK, FetchOK, WriteOK, Refreshing
<1>6. ~Claiming(k) BY <1>2 DEF Claiming
<1>7. QED BY <1>3, <1>4, <1>5, <1>6, QueryStepSafe

LEMMA SearchAboveSafe == \A q \in Queries : Inv /\ SearchAbove(q) => Inv'
<1> SUFFICES ASSUME NEW q \in Queries, Inv, SearchAbove(q) PROVE Inv' OBVIOUS
<1> DEFINE box == mailbox[query[q].server]
           above == {u \in box.uids : u > High(query[q].old)}
           found == IF above = {} THEN Newest(box.uids, 1) ELSE above
           fits == found = above /\ Cardinality(found) <= WindowRows - Cardinality(query[q].old)
           k == [query[q] EXCEPT !.pc = "fetch", !.session = box.validity, !.listed = found,
                                 !.todo = found]
<1>1. /\ TypeOK /\ query[q] \in Query /\ query[q].server \in Servers
      /\ query[q].pc = "search" /\ query[q].mode = "delta"
      /\ UNCHANGED <<mix, mailbox, endpoint, projection>>
  BY AtQuery DEF Inv, SearchAbove
<1>2. query' = [query EXCEPT ![q] = IF fits THEN k ELSE Snapshot(q)]
  BY DEF SearchAbove
<1>3. CASE ~fits
  <2>1. query' = [query EXCEPT ![q] = Snapshot(q)] BY <1>2, <1>3
  <2>2. QED BY <1>1, <2>1, SnapshotSafe DEF Refreshing
<1>4. CASE fits
  <2>1. query' = [query EXCEPT ![q] = k] BY <1>2, <1>4
  <2>2. found = above BY <1>4
  <2>3. /\ box.validity \in Epochs /\ box.uids \in SUBSET Uids /\ above \in SUBSET box.uids
    BY <1>1 DEF TypeOK, Mailbox
  <2>4. \A u \in above : u > High(query[q].old) OBVIOUS
  <2>5. \A u \in box.uids : u \in above \/ u <= High(query[q].old)
    <3>1. MaxUid \in Nat /\ High(query[q].old) \in 0..MaxUid
      BY <1>1, HighOf, QueryTypes, ProjectionAssumption
    <3>2. QED BY <2>3, <3>1 DEF Uids
  <2> HIDE DEF above, found
  <2>6. /\ k.pc = "fetch" /\ k.server = query[q].server /\ k.state = query[q].state
        /\ k.epoch = query[q].epoch /\ k.mode = "delta" /\ k.old = query[q].old
        /\ k.session = box.validity /\ k.listed = above /\ k.todo = above
        /\ k.emails = query[q].emails /\ k.result = query[q].result
    BY <1>1, <2>2 DEF Query
  <2>7. k \in Query
    <3>1. box.validity \in 0..MaxEpoch BY <2>3, ProjectionAssumption DEF Epochs
    <3>2. QED BY <1>1, <2>2, <2>3, <3>1 DEF Query
  <2> HIDE DEF k
  <2>8. ASSUME Settled PROVE QueryOK(k)
    <3>1. QueryOK(query[q]) /\ box = Box BY <2>8, AtQuery DEF Box
    <3>2. query[q].emails = {} BY <1>1, <3>1 DEF QueryOK, EpochOK
    <3>3. EpochOK(k) BY <1>1, <2>6, <3>1 DEF QueryOK, EpochOK
    <3>4. OldOK(k) BY <1>1, <2>6, <3>1 DEF QueryOK, OldOK, Refreshing
    <3>5. StateOK(k) BY <1>1, <2>6, <3>1 DEF QueryOK, StateOK
    <3>6. FetchOK(k)
      <4>1. /\ k.session # Unknown /\ k.session <= Box.validity
            /\ k.state.validity <= k.session
        BY <1>1, <2>3, <2>6, <3>1, ProjectionAssumption
        DEF QueryOK, StateOK, Epochs, Unknown
      <4>2. \A u \in k.listed : u < Box.next BY <1>1, <2>3, <2>6, <3>1 DEF Inv, Safety, BoxesOK
      <4>3. \A u \in k.listed : u > High(k.old) BY <2>4, <2>6
      <4>4. k.epoch = Box.validity => Box.uids \subseteq Known(k)
        <5>1. k.epoch = Box.validity => \A u \in Box.uids : u <= High(k.old) => u \in UidsOf(k.old)
          BY <1>1, <2>6, <3>4 DEF OldOK, Refreshing
        <5>2. QED BY <2>5, <2>6, <3>1, <5>1 DEF Known
      <4>5. QED BY <2>6, <3>2, <4>1, <4>2, <4>3, <4>4 DEF FetchOK
    <3>7. WriteOK(k) BY <1>1, <2>6, <3>1 DEF QueryOK, WriteOK
    <3>8. QED BY <3>3, <3>4, <3>5, <3>6, <3>7 DEF QueryOK
  <2>9. ~Claiming(k) BY <2>6 DEF Claiming
  <2>10. QED BY <1>1, <2>1, <2>7, <2>8, <2>9, QueryStepSafe
<1>5. QED BY <1>3, <1>4

LEMMA SearchAllSafe == \A q \in Queries : Inv /\ SearchAll(q) => Inv'
<1> SUFFICES ASSUME NEW q \in Queries, Inv, SearchAll(q) PROVE Inv' OBVIOUS
<1> DEFINE s == query[q].server
           box == mailbox[s]
           empty == ~EpochObserved(query[q].state) /\ query[q].state.count = 0
           found == IF empty THEN {} ELSE box.uids
           selected == Newest(found, WindowRows)
           kept == query[q].epoch # Unknown /\ query[q].epoch = query[q].state.validity
           retained == IF kept THEN {m \in query[q].old : m.uid \in selected} ELSE {}
           todo == selected \ UidsOf(retained)
           point == Fetched(s, found)
           k == [query[q] EXCEPT !.pc = "fetch", !.session = box.validity, !.listed = found,
                                 !.emails = retained, !.todo = todo, !.point = point]
<1>1. /\ TypeOK /\ query[q] \in Query /\ s \in Servers
      /\ query[q].pc = "search" /\ query[q].mode = "snapshot"
      /\ UNCHANGED <<mix, mailbox, endpoint, projection>>
  BY AtQuery DEF Inv, SearchAll
<1>2. query' = [query EXCEPT ![q] = k] BY <1>1 DEF SearchAll, TypeOK
<1>3. /\ box.validity \in Epochs /\ box.uids \in SUBSET Uids
      /\ box.validity \in 0..MaxEpoch
  BY <1>1, ProjectionAssumption DEF TypeOK, Mailbox, Epochs
<1>4. /\ found \subseteq box.uids /\ selected \subseteq found /\ todo \subseteq selected
      /\ retained \subseteq query[q].old /\ (retained # {} => kept)
      /\ \A m \in retained : m.uid \in found
      /\ EpochObserved(query[q].state) => found = box.uids
  <2>1. selected \subseteq found BY NewestIn
  <2>2. QED BY <2>1
<1>5. point \in SUBSET Message BY <1>1, <1>3, <1>4, FetchedType
<1> HIDE DEF found, selected, retained, todo
<1>6. /\ k.pc = "fetch" /\ k.server = s /\ k.state = query[q].state
      /\ k.epoch = query[q].epoch /\ k.mode = "snapshot" /\ k.old = query[q].old
      /\ k.session = box.validity /\ k.listed = found /\ k.todo = todo
      /\ k.emails = retained /\ k.point = point /\ k.result = query[q].result
  BY <1>1 DEF Query
<1>7. k \in Query
  <2>1. retained \in SUBSET Message BY <1>1, <1>4, QueryTypes
  <2>2. found \in SUBSET Uids /\ todo \in SUBSET Uids BY <1>3, <1>4
  <2>3. QED BY <1>1, <1>3, <1>5, <2>1, <2>2 DEF Query
<1> HIDE DEF k
<1>8. ASSUME Settled PROVE QueryOK(k)
  <2>1. QueryOK(query[q]) /\ s = endpoint /\ box = Box BY <1>8, AtQuery DEF Box
  <2>2. EpochOK(k) BY <1>1, <1>6, <2>1 DEF QueryOK, EpochOK
  <2>3. OldOK(k) BY <1>1, <1>6, <2>1 DEF QueryOK, OldOK, Refreshing
  <2>4. StateOK(k) BY <1>1, <1>6, <2>1 DEF QueryOK, StateOK
  <2>5. FetchOK(k)
    <3>1. /\ k.session # Unknown /\ k.session <= Box.validity
          /\ k.state.validity <= k.session
      BY <1>1, <1>3, <1>6, <2>1, ProjectionAssumption
      DEF QueryOK, StateOK, Epochs, Unknown
    <3>2. \A u \in k.listed : u < Box.next
      BY <1>1, <1>4, <1>6, <2>1 DEF Inv, Safety, BoxesOK
    <3>3. k.todo \subseteq k.listed BY <1>4, <1>6
    <3>4. \A m \in k.emails : /\ k.mode = "snapshot" /\ m \in k.old
                             /\ k.epoch # Unknown /\ k.epoch = k.state.validity
      BY <1>4, <1>6
    <3>5. k.point = {[server |-> endpoint, validity |-> k.session, uid |-> u] : u \in k.listed}
      BY <1>6, <2>1 DEF Fetched
    <3>6. EpochObserved(k.state) => Box.uids \subseteq Known(k)
      BY <1>4, <1>6, <2>1 DEF Known
    <3>7. QED BY <1>6, <3>1, <3>2, <3>3, <3>4, <3>5, <3>6 DEF FetchOK
  <2>6. WriteOK(k) BY <1>1, <1>6, <2>1 DEF QueryOK, WriteOK
  <2>7. QED BY <2>2, <2>3, <2>4, <2>5, <2>6 DEF QueryOK
<1>9. ~Claiming(k) BY <1>6 DEF Claiming
<1>10. QED BY <1>1, <1>2, <1>7, <1>8, <1>9, QueryStepSafe

LEMMA FetchBatchSafe == \A q \in Queries : Inv /\ FetchBatch(q) => Inv'
<1> SUFFICES ASSUME NEW q \in Queries, Inv, FetchBatch(q) PROVE Inv' OBVIOUS
<1> DEFINE box == mailbox[query[q].server]
           batch == IF query[q].mode = "delta" THEN query[q].todo
                    ELSE Newest(query[q].todo, BatchRows)
<1>1. /\ TypeOK /\ query[q] \in Query /\ query[q].server \in Servers
      /\ query[q].pc = "fetch" /\ query[q].session = box.validity
      /\ UNCHANGED <<mix, mailbox, endpoint, projection>>
  BY AtQuery DEF Inv, FetchBatch
<1>2. batch \subseteq query[q].todo BY NewestIn
<1> HIDE DEF batch
<1>3. PICK gone \in SUBSET (batch \ box.uids) :
        query' = [query EXCEPT
          ![q].todo = @ \ batch,
          ![q].emails = @ \cup Fetched(query[q].server, (batch \cap box.uids) \cup gone)]
  BY DEF FetchBatch, batch
<1> DEFINE U == (batch \cap box.uids) \cup gone
           M == Fetched(query[q].server, U)
           k == [query[q] EXCEPT !.todo = @ \ batch, !.emails = @ \cup M]
<1>4. query' = [query EXCEPT ![q] = k] BY <1>1, <1>3 DEF TypeOK
<1>5. U \subseteq query[q].todo /\ query[q].todo \in SUBSET Uids BY <1>1, <1>2, QueryTypes
<1> HIDE DEF U
<1>6. M \in SUBSET Message BY <1>1, <1>5, FetchedType
<1>7. \A m \in M : m.server = query[q].server /\ m.validity = box.validity /\ m.uid \in U
  BY DEF Fetched
<1> HIDE DEF M
<1>8. /\ k.pc = "fetch" /\ k.server = query[q].server /\ k.state = query[q].state
      /\ k.epoch = query[q].epoch /\ k.mode = query[q].mode /\ k.old = query[q].old
      /\ k.session = query[q].session /\ k.listed = query[q].listed
      /\ k.todo \subseteq query[q].todo
      /\ k.emails = query[q].emails \cup M /\ k.point = query[q].point
      /\ k.result = query[q].result
  BY <1>1 DEF Query
<1>9. k \in Query
  <2>1. query[q].emails \cup M \in SUBSET Message BY <1>1, <1>6, QueryTypes
  <2>2. query[q].todo \ batch \in SUBSET Uids BY <1>5
  <2>3. QED BY <1>1, <2>1, <2>2 DEF Query
<1> HIDE DEF k
<1>10. ASSUME Settled PROVE QueryOK(k)
  <2>1. QueryOK(query[q]) /\ query[q].server = endpoint /\ box = Box
    BY <1>10, AtQuery DEF Box
  <2>2. EpochOK(k) BY <1>1, <1>8, <2>1 DEF QueryOK, EpochOK
  <2>3. OldOK(k) BY <1>1, <1>8, <2>1 DEF QueryOK, OldOK, Refreshing
  <2>4. StateOK(k) BY <1>1, <1>8, <2>1 DEF QueryOK, StateOK
  <2>5. FetchOK(k)
    <3>1. FetchOK(query[q]) BY <2>1 DEF QueryOK
    <3>2. \A m \in M : m.server = endpoint /\ m.validity = k.session /\ m.uid \in k.listed
      BY <1>1, <1>5, <1>7, <1>8, <2>1, <3>1 DEF FetchOK
    <3>3. \A m \in k.emails :
            \/ m.server = endpoint /\ m.validity = k.session /\ m.uid \in k.listed
            \/ /\ k.mode = "snapshot" /\ m \in k.old
               /\ k.epoch # Unknown /\ k.epoch = k.state.validity
      BY <1>1, <1>8, <3>1, <3>2 DEF FetchOK
    <3>4. k.todo \subseteq k.listed BY <1>1, <1>8, <3>1 DEF FetchOK
    <3>5. Known(k) = Known(query[q]) BY <1>8 DEF Known
    <3>6. QED BY <1>1, <1>8, <3>1, <3>3, <3>4, <3>5 DEF FetchOK
  <2>6. WriteOK(k) BY <1>1, <1>8, <2>1 DEF QueryOK, WriteOK
  <2>7. QED BY <2>2, <2>3, <2>4, <2>5, <2>6 DEF QueryOK
<1>11. ~Claiming(k) BY <1>8 DEF Claiming
<1>12. QED BY <1>1, <1>4, <1>9, <1>10, <1>11, QueryStepSafe

(* Everything fetched while the first STATUS still holds is of one epoch,   *)
(* that of the session, the rows that were kept included.                  *)
LEMMA OfOneSession ==
  ASSUME Inv, Settled, NEW q \in Queries, query[q].pc = "fetch",
         query[q].state.validity \in {Unknown, Box.validity}
  PROVE  /\ query[q].state.validity = Box.validity => query[q].session = Box.validity
         /\ \A m \in query[q].emails :
              m.server = endpoint /\ m.validity = query[q].session
<1> DEFINE k == query[q]
<1>1. TypeOK /\ k \in Query /\ QueryOK(k) BY AtQuery DEF Inv
<1>2. /\ Box.validity \in Nat /\ Box.validity # Unknown /\ k.session \in Nat
      /\ k.state.validity \in Nat
  BY <1>1, BoxType, QueryTypes, ProjectionAssumption DEF Epochs, Unknown
<1>3. FetchOK(k) /\ OldOK(k) BY <1>1 DEF QueryOK
<1>4. k.session <= Box.validity /\ k.state.validity <= k.session BY <1>3 DEF FetchOK
<1>5. k.state.validity = Box.validity => k.session = Box.validity BY <1>2, <1>4
<1>6. ASSUME NEW m \in k.emails PROVE m.server = endpoint /\ m.validity = k.session
  <2>1. CASE m.server = endpoint /\ m.validity = k.session BY <2>1
  <2>2. CASE m \in k.old /\ k.epoch # Unknown /\ k.epoch = k.state.validity
    <3>1. k.epoch = Box.validity BY <2>2
    <3>2. Of(k.old, k.epoch) BY <1>3, <3>1 DEF OldOK, Refreshing, CurrentRows
    <3>3. QED BY <1>5, <2>2, <3>1, <3>2 DEF Of
  <2>3. QED BY <1>3, <2>1, <2>2 DEF FetchOK
<1>7. QED BY <1>5, <1>6

LEMMA FetchedRows ==
  ASSUME Inv, Settled, NEW q \in Queries, query[q].pc = "fetch"
  PROVE  CurrentRows(query[q].state.validity, query[q].emails)
<1> DEFINE k == query[q]
<1>1. TypeOK /\ k \in Query /\ QueryOK(k) BY AtQuery DEF Inv
<1>2. FetchOK(k) /\ OldOK(k) /\ k.state.validity <= Box.validity
  BY <1>1 DEF QueryOK, StateOK
<1>3. ASSUME k.state.validity = Box.validity
      PROVE  Of(k.emails, k.state.validity) /\ Below(k.emails, Box.next)
  <2>1. k.session = Box.validity BY <1>3, OfOneSession
  <2>2. Of(k.emails, k.state.validity) BY <1>3, <2>1, OfOneSession DEF Of
  <2>3. ASSUME NEW m \in k.emails PROVE m.uid < Box.next
    <3>1. CASE m.uid \in k.listed BY <1>2, <2>1, <3>1 DEF FetchOK
    <3>2. CASE m \in k.old /\ k.epoch = k.state.validity
      BY <1>2, <1>3, <3>2 DEF OldOK, Refreshing, CurrentRows, Below
    <3>3. QED BY <1>2, <3>1, <3>2 DEF FetchOK
  <2>4. QED BY <2>2, <2>3 DEF Below
<1>4. QED BY <1>2, <1>3 DEF CurrentRows

LEMMA ObservedIs ==
  ASSUME Inv, NEW q \in Queries, NEW st \in State, NEW M \in SUBSET Message,
         NEW whole \in BOOLEAN
  PROVE  LET k == Observed(q, st, M, whole)
         IN  /\ k \in Query
             /\ k.pc = "write" /\ k.server = query[q].server /\ k.epoch = Unknown
             /\ k.state = st /\ k.emails = M /\ k.complete = whole
             /\ k.point = query[q].point /\ k.result = query[q].result
             /\ k.mode = query[q].mode /\ k.old = query[q].old
<1>1. query[q] \in Query BY AtQuery
<1>2. Unknown \in 0..MaxEpoch BY ProjectionAssumption DEF Unknown
<1>3. QED BY <1>1, <1>2 DEF Observed, Query

(* An observation is safe to write if its rows are current and, when it is  *)
(* complete, what it claims is the mailbox as it is.                       *)
LEMMA ObservationSafe ==
  ASSUME Inv, NEW q \in Queries, query[q].pc = "fetch",
         NEW k \in Query, query' = [query EXCEPT ![q] = k],
         UNCHANGED <<mix, mailbox, endpoint, projection>>,
         k.pc = "write", k.server = query[q].server, k.epoch = Unknown,
         k.result = query[q].result,
         Settled => /\ CurrentRows(k.state.validity, k.emails)
                    /\ k.complete => k.emails = k.point
                    /\ k.complete /\ EpochObserved(k.state) => ClaimOf(k) = Now
  PROVE  Inv'
<1>1. ASSUME Settled PROVE QueryOK(k)
  <2>1. QueryOK(query[q]) BY <1>1, AtQuery
  <2>2. Unknown <= Box.validity
    BY BoxType, ProjectionAssumption DEF Inv, Unknown, Epochs
  <2>3. EpochOK(k) BY <2>1, <2>2 DEF QueryOK, EpochOK
  <2>4. WriteOK(k) BY <1>1, <2>1 DEF QueryOK, WriteOK
  <2>5. QED BY <2>3, <2>4 DEF QueryOK, OldOK, StateOK, FetchOK, Refreshing
<1>2. Settled /\ Claiming(k) => ClaimOf(k) \in Claims \cup {Now} BY DEF Claiming
<1>3. QED BY <1>1, <1>2, QueryStepSafe

LEMMA FinishSnapshotSafe == \A q \in Queries : Inv /\ FinishSnapshot(q) => Inv'
<1> SUFFICES ASSUME NEW q \in Queries, Inv, FinishSnapshot(q) PROVE Inv' OBVIOUS
<1> DEFINE s == query[q].server
           j == query[q]
           final == StatusOf(s)
           emails == IF final.validity = j.state.validity THEN j.emails ELSE {}
           whole == /\ final = j.state
                    /\ InEpoch(emails, final)
                    /\ Cardinality(j.listed) <= WindowRows
                    /\ UidsOf(emails) = j.listed
                    /\ final.count = Cardinality(j.listed)
           k == Observed(q, final, emails, whole)
<1>1. /\ TypeOK /\ j \in Query /\ s \in Servers /\ j.pc = "fetch" /\ j.mode = "snapshot"
      /\ query' = [query EXCEPT ![q] = k]
      /\ UNCHANGED <<mix, mailbox, endpoint, projection>>
  BY AtQuery DEF Inv, FinishSnapshot
<1>2. /\ final \in State /\ final.validity \in {Unknown, mailbox[s].validity}
      /\ final.next \in {Unknown, mailbox[s].next}
      /\ final.count = Cardinality(mailbox[s].uids)
  BY <1>1, StatusType
<1>3. emails \in SUBSET Message BY <1>1, QueryTypes
<1>4. whole => final = j.state /\ UidsOf(j.emails) = j.listed /\ final.count = Cardinality(j.listed)
              /\ emails = j.emails
  OBVIOUS
<1>5. whole \in BOOLEAN OBVIOUS
<1>6. emails = {} \/ (emails = j.emails /\ final.validity = j.state.validity) OBVIOUS
<1> HIDE DEF final, emails, whole
<1>7. /\ k \in Query /\ k.pc = "write" /\ k.server = s /\ k.epoch = Unknown
      /\ k.state = final /\ k.emails = emails /\ k.complete = whole
      /\ k.point = j.point /\ k.result = j.result
  BY <1>2, <1>3, <1>5, ObservedIs
<1> HIDE DEF k
<1>8. ASSUME Settled
      PROVE  /\ CurrentRows(final.validity, emails)
             /\ whole => emails = j.point
             /\ whole /\ EpochObserved(final) => ClaimOf(k) = Now
  <2>1. QueryOK(j) /\ s = endpoint /\ mailbox[s] = Box BY <1>8, AtQuery DEF Box
  <2>2. FetchOK(j) BY <2>1 DEF QueryOK
  <2>3. final.validity <= Box.validity
    BY <1>1, <1>2, <2>1, BoxType, ProjectionAssumption DEF Unknown, Epochs
  <2>4. CurrentRows(final.validity, emails)
    <3>1. CASE emails = {} BY <2>3, <3>1 DEF CurrentRows, Of, Below
    <3>2. CASE emails = j.emails /\ final.validity = j.state.validity
      BY <1>1, <1>8, <3>2, FetchedRows
    <3>3. QED BY <1>6, <3>1, <3>2
  <2>5. ASSUME whole
        PROVE  /\ j.point = From(endpoint, j.session, j.listed)
               /\ emails = j.point
               /\ final.validity = Box.validity => j.session = Box.validity
    <3>1. j.state.validity \in {Unknown, Box.validity} BY <1>2, <1>4, <2>1, <2>5
    <3>2. /\ \A m \in j.emails : m.server = endpoint /\ m.validity = j.session
          /\ j.state.validity = Box.validity => j.session = Box.validity
      BY <1>1, <1>8, <3>1, OfOneSession
    <3>3. j.emails = From(endpoint, j.session, j.listed)
      BY <1>1, <1>4, <2>5, <3>2, QueryTypes, OneEpoch
    <3>4. j.point = From(endpoint, j.session, j.listed) BY <1>1, <2>2 DEF FetchOK, From
    <3>5. QED BY <1>4, <2>5, <3>2, <3>3, <3>4
  <2>6. ASSUME whole, EpochObserved(final) PROVE ClaimOf(k) = Now
    <3>1. /\ final.validity = Box.validity /\ final.next = Box.next
          /\ final.count = Cardinality(Box.uids)
      BY <1>2, <2>1, <2>6 DEF EpochObserved
    <3>2. Box.uids \subseteq j.listed
      BY <1>1, <1>4, <2>2, <2>6, <3>1 DEF FetchOK, Known
    <3>3. j.listed \in SUBSET Uids BY <1>1, QueryTypes
    <3>4. Box.uids = j.listed BY <1>4, <2>6, <3>1, <3>2, <3>3, EquallyMany
    <3>5. j.point = Messages(endpoint) BY <1>1, <2>5, <2>6, <3>1, <3>4, MessagesOf
    <3>6. QED BY <1>7, <3>1, <3>5 DEF ClaimOf, Now, Claim
  <2>7. QED BY <2>4, <2>5, <2>6
<1>9. QED BY <1>1, <1>7, <1>8, ObservationSafe

(* A delta that fits the last STATUS gives, with the rows it extends, the   *)
(* whole mailbox: no message is missing, so as many messages are the same. *)
LEMMA DeltaIsWhole ==
  ASSUME Inv, Settled, NEW q \in Queries, query[q].pc = "fetch", query[q].mode = "delta",
         StatusOf(endpoint) = query[q].state, UidsOf(query[q].emails) = query[q].listed,
         query[q].state.validity = query[q].epoch,
         query[q].state.count = Cardinality(query[q].old) + Cardinality(query[q].emails)
  PROVE  /\ query[q].old \cup query[q].emails = Messages(endpoint)
         /\ query[q].state.validity = Box.validity /\ query[q].state.next = Box.next
         /\ query[q].state.count = Cardinality(Box.uids)
<1> DEFINE k == query[q]
           O == UidsOf(k.old)
           S == O \cup k.listed
<1>1. TypeOK /\ k \in Query /\ QueryOK(k) BY AtQuery DEF Inv
<1>2. FetchOK(k) /\ OldOK(k) BY <1>1 DEF QueryOK
<1>3. /\ k.state.validity = Box.validity /\ k.state.next = Box.next
      /\ k.state.count = Cardinality(Box.uids)
      /\ k.epoch = Box.validity /\ EpochObserved(k.state)
  <2>1. "uidvalidity" \in Box.reports /\ "uidnext" \in Box.reports
    BY <1>2 DEF OldOK, Refreshing
  <2>2. /\ StatusOf(endpoint).validity # Unknown /\ StatusOf(endpoint).next # Unknown
        /\ StatusOf(endpoint).validity \in {Unknown, Box.validity}
        /\ StatusOf(endpoint).next \in {Unknown, Box.next}
        /\ StatusOf(endpoint).count = Cardinality(Box.uids)
    BY <1>1, <2>1, BoxType, StatusType DEF Box
  <2>3. QED BY <2>2 DEF EpochObserved
<1>4. /\ k.session = Box.validity
      /\ \A m \in k.emails : m.server = endpoint /\ m.validity = Box.validity
  BY <1>3, OfOneSession
<1>5. \A m \in k.old : m.server = endpoint /\ m.validity = Box.validity
  BY <1>2, <1>3 DEF OldOK, Refreshing, CurrentRows, Of
<1>6. /\ k.old \in SUBSET Message /\ k.emails \in SUBSET Message
      /\ k.listed \in SUBSET Uids /\ O \in SUBSET Uids /\ S \in SUBSET Uids
  BY <1>1, QueryTypes DEF UidsOf, Message
<1>7. Cardinality(k.old) = Cardinality(O) /\ Cardinality(k.emails) = Cardinality(k.listed)
  <2>1. Cardinality(k.old) = Cardinality(O) BY <1>5, <1>6, OneEpoch
  <2>2. Cardinality(k.emails) = Cardinality(UidsOf(k.emails)) BY <1>4, <1>6, OneEpoch
  <2>3. UidsOf(k.emails) = k.listed OBVIOUS
  <2>4. QED BY <2>1, <2>2, <2>3
<1>8. O \cap k.listed = {}
  <2>1. \A u \in O : u <= High(k.old) BY <1>6, HighOf DEF UidsOf
  <2>2. \A u \in k.listed : u > High(k.old) BY <1>2 DEF FetchOK
  <2>3. MaxUid \in Nat /\ High(k.old) \in 0..MaxUid BY <1>6, HighOf, ProjectionAssumption
  <2>4. \A u \in O : u \in Nat BY <1>6, <2>3 DEF Uids
  <2>5. QED BY <2>1, <2>2, <2>3, <2>4
<1>9. Cardinality(S) = Cardinality(O) + Cardinality(k.listed)
  <2>1. /\ IsFiniteSet(O) /\ IsFiniteSet(k.listed)
        /\ Cardinality(O) \in 0..MaxUid /\ Cardinality(k.listed) \in 0..MaxUid
    BY <1>6, UidSets
  <2>2. Cardinality(S) = Cardinality(O) + Cardinality(k.listed) - Cardinality(O \cap k.listed)
    BY <2>1, FS_Union
  <2>3. Cardinality(O \cap k.listed) = 0 BY <1>8, FS_EmptySet
  <2> HIDE DEF S, O
  <2>4. QED BY <2>1, <2>2, <2>3, ProjectionAssumption
<1>10. Box.uids \subseteq S BY <1>2, <1>3 DEF FetchOK, Known
<1>11. Box.uids = S BY <1>3, <1>6, <1>7, <1>9, <1>10, EquallyMany
<1>12. UidsOf(k.old \cup k.emails) = S BY DEF UidsOf
<1>13. k.old \cup k.emails = From(endpoint, Box.validity, Box.uids)
  BY <1>4, <1>5, <1>6, <1>11, <1>12, OneEpoch
<1>14. QED BY <1>1, <1>3, <1>13, MessagesOf

LEMMA FinishDeltaSafe == \A q \in Queries : Inv /\ FinishDelta(q) => Inv'
<1> SUFFICES ASSUME NEW q \in Queries, Inv, FinishDelta(q) PROVE Inv' OBVIOUS
<1> DEFINE s == query[q].server
           j == query[q]
           final == StatusOf(s)
           resumable == /\ final = j.state
                        /\ UidsOf(j.emails) = j.listed
                        /\ InEpoch(j.emails, final)
           mergeable == /\ final.validity = j.epoch
                        /\ final.count = Cardinality(j.old) + Cardinality(j.emails)
                        /\ final.count <= WindowRows
           M == j.old \cup j.emails
           o == Observed(q, final, M, TRUE)
           k == [o EXCEPT !.point = Messages(s)]
<1>1. /\ TypeOK /\ j \in Query /\ s \in Servers /\ j.pc = "fetch" /\ j.mode = "delta"
      /\ query' = [query EXCEPT ![q] = IF resumable /\ mergeable THEN k ELSE Snapshot(q)]
      /\ UNCHANGED <<mix, mailbox, endpoint, projection>>
  BY AtQuery DEF Inv, FinishDelta
<1>2. CASE ~(resumable /\ mergeable)
  <2>1. query' = [query EXCEPT ![q] = Snapshot(q)] BY <1>1, <1>2
  <2>2. QED BY <1>1, <2>1, SnapshotSafe DEF Refreshing
<1>3. CASE resumable /\ mergeable
  <2>1. query' = [query EXCEPT ![q] = k] BY <1>1, <1>3
  <2>2. final \in State BY <1>1, StatusType
  <2>3. M \in SUBSET Message BY <1>1, QueryTypes
  <2>4. /\ final = j.state /\ UidsOf(j.emails) = j.listed /\ final.validity = j.epoch
        /\ final.count = Cardinality(j.old) + Cardinality(j.emails)
    BY <1>3
  <2> HIDE DEF M
  <2>5. /\ o \in Query /\ o.pc = "write" /\ o.server = s /\ o.epoch = Unknown
        /\ o.state = final /\ o.emails = M /\ o.result = j.result
    <3>1. PICK whole \in BOOLEAN : whole = TRUE OBVIOUS
    <3> HIDE DEF final
    <3>2. o = Observed(q, final, M, whole) BY <3>1
    <3> HIDE DEF o
    <3>3. /\ o \in Query /\ o.pc = "write" /\ o.server = query[q].server /\ o.epoch = Unknown
          /\ o.state = final /\ o.emails = M /\ o.result = query[q].result
      BY <2>2, <2>3, <3>2, ObservedIs
    <3>4. QED BY <3>3
  <2> HIDE DEF o
  <2>6. Messages(s) \in SUBSET Message
    <3>1. mailbox[s].uids \in SUBSET Uids BY <1>1 DEF TypeOK, Mailbox
    <3>2. QED BY <1>1, <3>1, FetchedType DEF Messages
  <2>7. /\ k \in Query /\ k.pc = "write" /\ k.server = s /\ k.epoch = Unknown
        /\ k.state = final /\ k.emails = M /\ k.point = Messages(s) /\ k.result = j.result
    BY <2>5, <2>6 DEF Query
  <2> HIDE DEF k
  <2>8. ASSUME Settled
        PROVE  /\ CurrentRows(final.validity, M)
               /\ M = Messages(s)
               /\ ClaimOf(k) = Now
    <3>1. s = endpoint BY <2>8, AtQuery
    <3>2. /\ M = Messages(endpoint)
          /\ final.validity = Box.validity /\ final.next = Box.next
          /\ final.count = Cardinality(Box.uids)
      BY <1>1, <2>4, <2>8, <3>1, DeltaIsWhole DEF M
    <3>3. CurrentRows(Box.validity, Messages(endpoint))
      <4>1. /\ Messages(endpoint) = From(endpoint, Box.validity, Box.uids)
            /\ Box.uids \in SUBSET Uids /\ Box.validity \in Nat
        BY <1>1, MessagesOf, BoxType, ProjectionAssumption DEF Epochs
      <4>2. \A m \in Messages(endpoint) :
              m.server = endpoint /\ m.validity = Box.validity /\ m.uid \in Box.uids
        BY <4>1, FromUids
      <4>3. \A u \in Box.uids : u < Box.next
        BY <1>1, BoxType DEF Inv, Safety, BoxesOK, Box
      <4>4. QED BY <4>1, <4>2, <4>3 DEF CurrentRows, Of, Below
    <3>4. QED BY <2>7, <3>1, <3>2, <3>3 DEF ClaimOf, Now, Claim
  <2>9. QED BY <1>1, <2>1, <2>7, <2>8, ObservationSafe
<1>4. QED BY <1>2, <1>3

LEMMA ProviderFailsSafe == \A q \in Queries : Inv /\ ProviderFails(q) => Inv'
<1> SUFFICES ASSUME NEW q \in Queries, Inv, ProviderFails(q) PROVE Inv' OBVIOUS
<1> DEFINE j == query[q]
           k == Observed(q, j.state, j.emails, FALSE)
<1>1. UNCHANGED <<mix, mailbox, endpoint, projection>> BY DEF ProviderFails
<1>2. CASE query' = [query EXCEPT ![q] = Ended(q, "fallback")] BY <1>1, <1>2, EndsSafe
<1>3. CASE query' = [query EXCEPT ![q] = Ended(q, "failed")] BY <1>1, <1>3, EndsSafe
<1>4. CASE j.pc \in Refreshing /\ query' = [query EXCEPT ![q] = Snapshot(q)]
  BY <1>1, <1>4, SnapshotSafe
<1>5. CASE j.pc = "fetch" /\ query' = [query EXCEPT ![q] = k]
  <2>1. j.state \in State /\ j.emails \in SUBSET Message BY AtQuery, QueryTypes
  <2>2. /\ k \in Query /\ k.pc = "write" /\ k.server = j.server /\ k.epoch = Unknown
        /\ k.state = j.state /\ k.emails = j.emails /\ k.complete = FALSE
        /\ k.result = j.result
    <3>1. PICK whole \in BOOLEAN : whole = FALSE OBVIOUS
    <3>2. k = Observed(q, j.state, j.emails, whole) BY <3>1
    <3> HIDE DEF k
    <3>3. /\ k \in Query /\ k.pc = "write" /\ k.server = query[q].server /\ k.epoch = Unknown
          /\ k.state = j.state /\ k.emails = j.emails /\ k.complete = whole
          /\ k.result = query[q].result
      BY <2>1, <3>2, ObservedIs
    <3>4. QED BY <3>1, <3>3
  <2>3. query' = [query EXCEPT ![q] = k] BY <1>5
  <2> HIDE DEF k
  <2>4. Settled => CurrentRows(j.state.validity, j.emails) BY <1>5, FetchedRows
  <2>5. QED BY <1>1, <1>5, <2>2, <2>3, <2>4, ObservationSafe
<1>6. QED BY <1>2, <1>3, <1>4, <1>5 DEF ProviderFails, Refreshing

LEMMA WriteSafe == \A q \in Queries : Inv /\ Write(q) => Inv'
<1> SUFFICES ASSUME NEW q \in Queries, Inv, Write(q) PROVE Inv' OBVIOUS
<1> DEFINE j == query[q]
           asked == [j EXCEPT !.pc = "keywords", !.mode = "snapshot", !.old = {},
                              !.state = NoState]
           k == CASE j.complete /\ Reused(j) -> asked
                  [] j.complete /\ ~Reused(j) -> Ended(q, "page")
                  [] ~j.complete -> Ended(q, "fallback")
<1>1. /\ TypeOK /\ j \in Query /\ j.pc = "write" /\ j.complete \in BOOLEAN
      /\ UNCHANGED <<mix, mailbox, endpoint>>
  BY AtQuery DEF Inv, Write, Query
<1>2. query' = [query EXCEPT ![q] = k]
  <2>1. query[q] = j /\ [query[q] EXCEPT !.pc = "keywords", !.mode = "snapshot", !.old = {},
                                       !.state = NoState] = asked
    OBVIOUS
  <2>2. QED BY <2>1 DEF Write
<1>3. Settled => QueryOK(j) /\ (j.complete => j.emails = j.point)
  BY <1>1, AtQuery DEF QueryOK, WriteOK
<1>4. k \in Query /\ ~Claiming(k) /\ (Settled => QueryOK(k))
  <2>1. CASE j.complete /\ Reused(j)
    <3>1. k = asked BY <2>1
    <3>2. /\ asked.pc = "keywords" /\ asked.server = j.server /\ asked.epoch = j.epoch
          /\ asked.emails = j.emails /\ asked.point = j.point /\ asked.result = j.result
          /\ asked.state = NoState
      BY <1>1 DEF Query
    <3>3. asked \in Query
      <4>1. NoState \in State BY ProjectionAssumption DEF NoState, State, Unknown
      <4>2. QED BY <1>1, <4>1 DEF Query
    <3> HIDE DEF asked
    <3>4. Settled => QueryOK(asked)
      BY <1>1, <1>3, <2>1, <3>2
      DEF QueryOK, EpochOK, OldOK, StateOK, FetchOK, WriteOK, Refreshing
    <3>5. ~Claiming(asked) BY <3>2 DEF Claiming
    <3>6. QED BY <3>1, <3>3, <3>4, <3>5
  <2>2. CASE j.complete /\ ~Reused(j)
    <3>1. k = Ended(q, "page") BY <2>2
    <3>2. QED BY <1>3, <2>2, <3>1, EndedSafe
  <2>3. CASE ~j.complete
    <3>1. k = Ended(q, "fallback") BY <2>3
    <3>2. QED BY <3>1, EndedSafe
  <2>4. QED BY <2>1, <2>2, <2>3
<1> HIDE DEF k
<1>5. CASE UNCHANGED projection BY <1>1, <1>2, <1>4, <1>5, QueryStepSafe
<1>6. CASE EpochObserved(j.state) /\ projection' = Written(j)
  <2>1. projection' \in Projection
    BY <1>1, <1>6, QueryTypes DEF Written, Projection, State
  <2>2. ASSUME Settled
        PROVE  /\ CurrentRows(projection'.validity, projection'.rows)
               /\ ProjectionClaims' \subseteq Claims
    <3>1. QueryOK(j) BY <1>3, <2>2
    <3>2. /\ projection'.validity = j.state.validity /\ projection'.rows = j.emails
          /\ projection'.next = j.state.next /\ projection'.count = j.state.count
          /\ projection'.coverage = "COMPLETE" => j.complete
      BY <1>1, <1>6 DEF Written
    <3>3. CurrentRows(projection'.validity, projection'.rows)
      BY <1>1, <3>1, <3>2 DEF QueryOK, WriteOK
    <3>4. ASSUME j.complete PROVE ClaimOf(j) \in Claims
      BY <1>1, <1>6, <3>4 DEF Claims, Claiming
    <3>5. ProjectionClaims' \subseteq Claims
      BY <1>3, <2>2, <3>2, <3>4 DEF ProjectionClaims, ClaimOf, Claim
    <3>6. QED BY <3>3, <3>5
  <2>3. QED BY <1>1, <1>2, <1>4, <2>1, <2>2, StepSafe
<1>7. QED BY <1>5, <1>6 DEF Write

LEMMA RefreshKeywordsSafe == \A q \in Queries : Inv /\ RefreshKeywords(q) => Inv'
<1> SUFFICES ASSUME NEW q \in Queries, Inv, RefreshKeywords(q) PROVE Inv' OBVIOUS
<1> DEFINE j == query[q]
           box == mailbox[j.server]
           o == Ended(q, "page")
           k == [o EXCEPT !.keywords = box.validity]
<1>1. /\ TypeOK /\ j \in Query /\ j.pc = "keywords" /\ j.server \in Servers
      /\ UNCHANGED <<mix, mailbox, endpoint, projection>>
  BY AtQuery DEF Inv, RefreshKeywords
<1>2. Settled => j.emails = j.point BY <1>1, AtQuery DEF QueryOK, WriteOK
<1>3. CASE query' = [query EXCEPT ![q] = o] BY <1>1, <1>2, <1>3, EndsSafe
<1>4. CASE query' = [query EXCEPT ![q] = Ended(q, "failed")] BY <1>1, <1>4, EndsSafe
<1>5. CASE query' = [query EXCEPT ![q] = k]
  <2>1. o \in Query /\ ~Claiming(o) /\ (Settled => QueryOK(o)) BY <1>2, EndedSafe
  <2>2. o.pc = "done" BY DEF Ended, IdleQuery
  <2> HIDE DEF o
  <2>3. /\ k.pc = "done" /\ k.server = o.server /\ k.epoch = o.epoch /\ k.state = o.state
        /\ k.emails = o.emails /\ k.point = o.point /\ k.result = o.result
    BY <2>1, <2>2 DEF Query
  <2>4. k \in Query
    <3>1. box.validity \in 0..MaxEpoch
      BY <1>1, ProjectionAssumption DEF TypeOK, Mailbox, Epochs
    <3>2. QED BY <2>1, <3>1 DEF Query
  <2>5. query' = [query EXCEPT ![q] = k] BY <1>5
  <2> HIDE DEF k
  <2>6. Settled => QueryOK(k)
    BY <2>1, <2>2, <2>3
    DEF QueryOK, EpochOK, OldOK, StateOK, FetchOK, WriteOK, Refreshing
  <2>7. ~Claiming(k) BY <2>3 DEF Claiming
  <2>8. QED BY <1>1, <2>4, <2>5, <2>6, <2>7, QueryStepSafe
<1>6. QED
  <2>1. \/ j.emails = {}
        \/ j.emails # {} /\ UidsOf(j.emails) \subseteq box.uids
        \/ ~(UidsOf(j.emails) \subseteq box.uids)
    OBVIOUS
  <2>2. j.emails = {} => UidsOf(j.emails) \subseteq box.uids BY DEF UidsOf
  <2>3. QED BY <1>3, <1>4, <1>5, <2>1, <2>2 DEF RefreshKeywords

----------------------------------------------------------------------------
(* Theorems *)

LEMMA StepInv == Inv /\ [Next]_vars => Inv'
<1> SUFFICES ASSUME Inv, [Next]_vars PROVE Inv' OBVIOUS
<1>1. CASE World BY <1>1, WorldSafe
<1>2. ASSUME NEW q \in Queries, Start(q) \/ Proceed(q) PROVE Inv'
  BY <1>2, StartSafe, QualifySafe, LookupSafe, BaselineSafe, ProjectionFailsSafe, StatusSafe,
     SearchAboveSafe, SearchAllSafe, FetchBatchSafe, FinishSnapshotSafe, FinishDeltaSafe,
     ProviderFailsSafe, WriteSafe, RefreshKeywordsSafe
  DEF Proceed
<1>3. CASE UNCHANGED vars
  <2>1. UNCHANGED <<mix, mailbox, endpoint, projection, query>> BY <1>3 DEF vars
  <2>2. TypeOK' /\ BoxesOK' BY <2>1 DEF Inv, Safety, TypeOK, BoxesOK
  <2>3. ASSUME NEW q \in Queries PROVE Inv'
    <3>1. /\ query' = [query EXCEPT ![q] = query[q]]
          /\ query[q] \in Query /\ (Settled => QueryOK(query[q]))
          /\ Claiming(query[q]) => ClaimOf(query[q]) \in Claims \cup {Now}
      BY <2>1, AtQuery DEF Inv, TypeOK, Claims
    <3>2. QED BY <2>1, <3>1, QueryStepSafe
  <2>4. ASSUME Queries = {} PROVE Inv'
    <3>1. Box' = Box BY <2>1 DEF Box
    <3>2. Claims' = Claims /\ \A x : Sound(x)' = Sound(x)
      BY <2>1, <2>4, <3>1
      DEF Claims, ProjectionClaims, Claim, Sound, Of, Below, UidsOf
    <3>3. QED BY <2>1, <2>2, <2>4, <3>1, <3>2
      DEF Inv, Safety, Settled, ClaimsOK, Same, ProjectionOK, CurrentRows, Of, Below
  <2>5. QED BY <2>3, <2>4
<1>4. QED BY <1>1, <1>2, <1>3 DEF Next

LEMMA InvHolds == Spec => []Inv
BY InitInv, StepInv, PTL DEF Spec

(* Whatever mail does, whichever commands and transactions fail and however *)
(* many queries refresh the mailbox at once: COMPLETE coverage with the     *)
(* numbers of the mailbox as it is names exactly its messages, as long as   *)
(* the account stays on its server.                                        *)
THEOREM CoverageIsTrue == Spec => []("endpoint" \notin mix => CoverageIsTruth)
<1>1. ASSUME Inv, Settled, Covers(StatusOf(endpoint)) PROVE projection.rows = Messages(endpoint)
  <2> DEFINE st == StatusOf(endpoint)
             x == Claim(projection.validity, projection.next, projection.count, projection.rows)
  <2>1. TypeOK /\ BoxesOK BY <1>1 DEF Inv, Safety
  <2>2. /\ st.validity \in {Unknown, Box.validity} /\ st.next \in {Unknown, Box.next}
        /\ st.count = Cardinality(Box.uids)
    BY <2>1, BoxType, StatusType DEF Box
  <2> HIDE DEF st
  <2>3. x \in Claims /\ Same(x, Now) /\ x.rows = projection.rows
    BY <1>1, <2>2
    DEF st, Covers, EpochObserved, Claims, ProjectionClaims, Claim, Same, Now
  <2>4. Sound(x) /\ x.rows \in SUBSET Message
    BY <1>1, <2>1, <2>3, ClaimsType DEF Inv, Safety, ClaimsOK
  <2> HIDE DEF x
  <2>5. QED BY <2>1, <2>3, <2>4, NowAgrees
<1>2. Inv => ("endpoint" \notin mix => CoverageIsTruth)
  BY <1>1 DEF CoverageIsTruth, Settled
<1>3. QED BY <1>2, InvHolds, PTL

(* A page that claims to be the whole mailbox was the whole mailbox at one  *)
(* moment of the call, from the projection, from a snapshot and from a      *)
(* delta, with any number of queries and failures.                         *)
THEOREM AnswersAreExact == Spec => []("endpoint" \notin mix => AnswerIsExact)
<1>1. Inv => ("endpoint" \notin mix => AnswerIsExact)
  BY DEF Inv, Safety, Settled, AnswerIsExact, QueryOK, WriteOK
<1>2. QED BY <1>1, InvHolds, PTL

(* Rows kept under the current epoch belong to it, so that a refresh may    *)
(* build on them: a write of an older epoch never passes for the new one.  *)
THEOREM RowsAreCurrent == Spec => []("endpoint" \notin mix => CurrentRowsAreCurrent)
<1>1. Inv => ("endpoint" \notin mix => CurrentRowsAreCurrent)
  BY DEF Inv, Safety, Settled, CurrentRowsAreCurrent, ProjectionOK, CurrentRows, Of, Box
<1>2. QED BY <1>1, InvHolds, PTL

=============================================================================
