------------------------ MODULE VendorReconcileProofs ------------------------
(***************************************************************************)
(* Theorems about VendorReconcile, for any numbers, formats and page size, *)
(* and any number of runs at the same time.                                *)
(***************************************************************************)
EXTENDS VendorReconcile, FiniteSetTheorems, SequenceTheorems, TLAPS

(* The entry is still to come for run r.                                   *)
Ahead(e, r) == \E k \in DOMAIN theirs : theirs[k] = e /\ k > (page[r] - 1) * PageSize

OnceListed(r) == Listed \cup removed[r]

Same(r) ==
  /\ pc'[r] = pc[r] /\ page'[r] = page[r] /\ raw'[r] = raw[r] /\ known'[r] = known[r]
  /\ toAdd'[r] = toAdd[r] /\ toPush'[r] = toPush[r] /\ diverged'[r] = diverged[r]
  /\ steady'[r] = steady[r] /\ removed'[r] = removed[r] /\ cut'[r] = cut[r]

(* No entry has been taken off since r started, and no page was an error.  *)
Whole(r) == removed[r] = {} /\ ~cut[r]

(* As long as its reading is whole, what stood on the list all the time is *)
(* read, or ahead; then it is in the comparison; then in our log, or still *)
(* to be added to it.  The numbers of our log go the other way.            *)
RunInv(r) ==
  /\ known[r] \subseteq ours /\ toPush[r] \subseteq ours
  /\ pc[r] = "idle" => raw[r] = {}
  /\ pc[r] # "idle" => raw[r] \subseteq OnceListed(r)
  /\ pc[r] = "paging" =>
       page[r] > 0 /\ (Whole(r) => \A e \in steady[r] : e \in raw[r] \/ Ahead(e, r))
  /\ pc[r] = "comparing" /\ Whole(r) => steady[r] \subseteq raw[r]
  /\ pc[r] = "writing" =>
       \A p \in known[r] \cap Domestic : p \in toPush[r] \/ OnTheirs(p, OnceListed(r))
  /\ pc[r] = "reporting" =>
       toAdd[r] = {} /\ \A p \in known[r] \cap Domestic : OnTheirs(p, OnceListed(r))
  /\ pc[r] \in {"writing", "reporting"} /\ Whole(r) =>
       \A e \in steady[r] : IF Number(e) THEN Parse[e] \in ours \cup toAdd[r] ELSE diverged[r]

IInv == TypeOK /\ IsFiniteSet(ours \cap Phone) /\ \A r \in Run : RunInv(r)
-----------------------------------------------------------------------------
(* No entry leaves the list or comes to an earlier place.                  *)
Grown ==
  /\ theirs' \in Seq(Entry)
  /\ \A k \in DOMAIN theirs : \E j \in DOMAIN theirs' : j >= k /\ theirs'[j] = theirs[k]

LEMMA FunctionIsSeq ==
  ASSUME NEW n \in Nat, NEW S, NEW s \in [1 .. n -> S]
  PROVE  s \in Seq(S) /\ Len(s) = n
OBVIOUS

LEMMA EntersAll ==
  ASSUME theirs \in Seq(Entry), NEW S \in SUBSET Entry, IsFiniteSet(S), Enter(S)
  PROVE  Grown /\ S \subseteq Listed'
<1> DEFINE T == S \ Listed
           n == Cardinality(T)
<1>1. IsFiniteSet(T) /\ n \in Nat
  BY FS_Subset, FS_CardinalityType
<1>2. PICK s \in Orders(T) : theirs' \in {s \o theirs, theirs \o s}
  BY DEF Enter
<1>3. s \in [1 .. n -> T] /\ \A j, k \in DOMAIN s : s[j] = s[k] => j = k
  BY DEF Orders
<1>4. s \in Seq(Entry) /\ Len(s) = n
  <2>1. \A k \in 1 .. n : s[k] \in Entry
    BY <1>3
  <2>2. s \in [1 .. n -> Entry]
    BY <1>3, <2>1
  <2>3. QED BY <1>1, <2>2, FunctionIsSeq
<1>5. \A e \in T : \E k \in 1 .. n : s[k] = e
  <2>1. s \in Injection(1 .. n, T)
    BY <1>3 DEF Injection, IsInjective
  <2>2. Cardinality(1 .. n) = n
    BY <1>1, FS_Interval
  <2>3. s \in Surjection(1 .. n, T)
    BY <1>1, <2>1, <2>2, FS_Injection
  <2>4. QED BY <2>3 DEF Surjection
<1>6. CASE theirs' = s \o theirs
  <2>1. theirs' \in Seq(Entry) /\ Len(theirs') = n + Len(theirs)
    BY <1>4, <1>6, ConcatProperties
  <2>2. \A k \in 1 .. Len(theirs) : n + k \in DOMAIN theirs' /\ theirs'[n + k] = theirs[k] /\ n + k >= k
    BY <1>1, <1>4, <1>6, <2>1
  <2>3. \A k \in 1 .. n : k \in DOMAIN theirs' /\ theirs'[k] = s[k]
    BY <1>1, <1>4, <1>6, <2>1
  <2>4. Grown
    <3>1. DOMAIN theirs = 1 .. Len(theirs)
      BY LenProperties
    <3>2. QED BY <2>1, <2>2, <3>1, Zenon DEF Grown
  <2>5. Listed \subseteq Listed'
    BY <2>4 DEF Grown, Listed
  <2>6. T \subseteq Listed'
    BY <1>5, <2>3 DEF Listed
  <2>7. QED BY <2>4, <2>5, <2>6
<1>7. CASE theirs' = theirs \o s
  <2>1. theirs' \in Seq(Entry) /\ Len(theirs') = Len(theirs) + n
    BY <1>4, <1>7, ConcatProperties
  <2>2. \A k \in 1 .. Len(theirs) : k \in DOMAIN theirs' /\ theirs'[k] = theirs[k] /\ k >= k
    BY <1>1, <1>4, <1>7, <2>1
  <2>3. \A k \in 1 .. n : Len(theirs) + k \in DOMAIN theirs' /\ theirs'[Len(theirs) + k] = s[k]
    BY <1>1, <1>4, <1>7, <2>1
  <2>4. Grown
    <3>1. DOMAIN theirs = 1 .. Len(theirs)
      BY LenProperties
    <3>2. QED BY <2>1, <2>2, <3>1, Zenon DEF Grown
  <2>5. Listed \subseteq Listed'
    BY <2>4 DEF Grown, Listed
  <2>6. T \subseteq Listed'
    BY <1>5, <2>3 DEF Listed
  <2>7. QED BY <2>4, <2>5, <2>6
<1>8. QED BY <1>2, <1>6, <1>7

LEMMA ListStays ==
  ASSUME TypeOK, UNCHANGED theirs
  PROVE  Grown
BY DEF TypeOK, Grown

(* What others do to the lists leaves a run as it is.                      *)
LEMMA RunKeeps ==
  ASSUME TypeOK, NEW r \in Run, RunInv(r), Same(r), ours \subseteq ours', Grown
  PROVE  RunInv(r)'
<1>1. OnceListed(r) \subseteq OnceListed(r)'
  BY DEF OnceListed, Listed, Same, Grown
<1>2. \A e : Ahead(e, r) => Ahead(e, r)'
  <2>1. SUFFICES ASSUME NEW e, Ahead(e, r) PROVE Ahead(e, r)'
    OBVIOUS
  <2>2. PICK k \in DOMAIN theirs : theirs[k] = e /\ k > (page[r] - 1) * PageSize
    BY <2>1 DEF Ahead
  <2>3. PICK j \in DOMAIN theirs' : j >= k /\ theirs'[j] = theirs[k]
    BY DEF Grown
  <2>4. k \in Nat /\ j \in Nat /\ page[r] \in Nat /\ page'[r] = page[r] /\ PageSize \in Nat
    <3>1. DOMAIN theirs \subseteq Nat /\ page[r] \in Nat /\ page'[r] = page[r]
      BY DEF TypeOK, Same
    <3>2. DOMAIN theirs' \subseteq Nat
      BY DEF Grown
    <3>3. QED BY <3>1, <3>2, ReconcileAssumption
  <2>5. QED BY <2>2, <2>3, <2>4 DEF Ahead
<1>3. \A p : OnTheirs(p, OnceListed(r)) => OnTheirs(p, OnceListed(r)')
  BY <1>1 DEF OnTheirs
<1>4. QED BY <1>1, <1>2, <1>3 DEF Same, Whole, RunInv
-----------------------------------------------------------------------------
LEMMA SpanOfPage ==
  ASSUME NEW low \in Nat, NEW n \in Nat \ {0}, NEW high \in Nat, high = low + n
  PROVE  Cardinality(low + 1 .. high) = n
<1>1. ~(low + 1 > high) /\ high - (low + 1) + 1 = n
  OBVIOUS
<1>2. QED BY <1>1, FS_Interval

(* A short page is the last: what is ahead of the run is on it.            *)
LEMMA PageIsRead ==
  ASSUME TypeOK, NEW r \in Run, page[r] > 0, NEW e, Ahead(e, r)
  PROVE  \/ \E k \in Indices(page[r]) : theirs[k] = e
         \/ /\ ~Short(Indices(page[r]))
            /\ \E k \in DOMAIN theirs : theirs[k] = e /\ k > page[r] * PageSize
<1> DEFINE n == page[r]
           low == (n - 1) * PageSize
           high == n * PageSize
           K == Indices(n)
<1>1. n \in Nat /\ PageSize \in Nat \ {0} /\ n - 1 \in Nat
  BY ReconcileAssumption DEF TypeOK
<1>2. low \in Nat /\ high \in Nat /\ high = low + PageSize
  BY <1>1
<1>3. DOMAIN theirs = 1 .. Len(theirs) /\ Len(theirs) \in Nat
  BY LenProperties DEF TypeOK
<1>4. PICK k \in DOMAIN theirs : theirs[k] = e /\ k > low
  BY DEF Ahead
<1>5. CASE k <= high
  BY <1>4, <1>5 DEF Indices
<1>6. CASE ~(k <= high)
  <2>1. k \in Nat /\ k <= Len(theirs) /\ k > high
    BY <1>2, <1>3, <1>6
  <2>2. low + 1 .. high \subseteq K
    BY <1>2, <1>3, <2>1 DEF Indices
  <2>3. Cardinality(low + 1 .. high) = PageSize
    BY <1>1, <1>2, SpanOfPage
  <2>4. IsFiniteSet(K)
    <3>1. IsFiniteSet(1 .. Len(theirs))
      BY <1>3, FS_Interval
    <3>2. K \subseteq 1 .. Len(theirs)
      BY <1>3 DEF Indices
    <3>3. QED BY <3>1, <3>2, FS_Subset
  <2>5. PageSize <= Cardinality(K) /\ Cardinality(K) \in Nat
    BY <2>2, <2>3, <2>4, FS_Subset, FS_CardinalityType
  <2>6. ~Short(K)
    BY <1>1, <2>5 DEF Short
  <2>7. QED BY <1>4, <2>1, <2>6
<1>7. QED BY <1>5, <1>6

LEMMA ReadPageStep ==
  ASSUME IInv, NEW r \in Run, ReadPage(r)
  PROVE  RunInv(r)'
<1> DEFINE K == Indices(page[r])
<1>1. /\ pc[r] = "paging" /\ raw' = [raw EXCEPT ![r] = @ \cup {theirs[k] : k \in K}]
      /\ UNCHANGED <<ours, theirs, toAdd, toPush, diverged, steady, removed, cut>>
  BY DEF ReadPage, history
<1>2. TypeOK /\ RunInv(r) /\ page[r] \in Nat
  BY DEF IInv, TypeOK
<1>3. page[r] > 0 /\ (Whole(r) => \A e \in steady[r] : e \in raw[r] \/ Ahead(e, r))
  BY <1>1, <1>2 DEF RunInv
<1>4. raw'[r] = raw[r] \cup {theirs[k] : k \in K} /\ raw'[r] \subseteq OnceListed(r)
  <2>1. raw'[r] = raw[r] \cup {theirs[k] : k \in K}
    BY <1>1, <1>2 DEF TypeOK
  <2>2. {theirs[k] : k \in K} \subseteq Listed
    BY DEF Indices, Listed
  <2>3. QED BY <1>1, <1>2, <2>1, <2>2 DEF RunInv, OnceListed
<1>5. OnceListed(r)' = OnceListed(r)
  BY <1>1 DEF OnceListed, Listed
<1>6. CASE /\ Short(K) /\ pc' = [pc EXCEPT ![r] = "comparing"]
           /\ known' = [known EXCEPT ![r] = ours]
  <2>1. pc'[r] = "comparing" /\ known'[r] = ours
    BY <1>2, <1>6 DEF TypeOK
  <2>2. Whole(r) => steady[r] \subseteq raw'[r]
    <3>1. ASSUME Whole(r), NEW e \in steady[r], e \notin raw[r]
          PROVE  e \in {theirs[k] : k \in K}
      <4>1. Ahead(e, r)
        BY <1>3, <3>1
      <4>2. \E k \in K : theirs[k] = e
        BY <1>2, <1>3, <1>6, <4>1, PageIsRead
      <4>3. QED BY <4>2
    <3>2. QED BY <1>4, <3>1
  <2>3. QED BY <1>1, <1>2, <1>4, <1>5, <2>1, <2>2 DEF Whole, RunInv
<1>7. CASE ~Short(K) /\ page' = [page EXCEPT ![r] = @ + 1] /\ UNCHANGED <<pc, known>>
  <2>1. page'[r] = page[r] + 1 /\ page'[r] > 0 /\ page'[r] - 1 = page[r]
    <3>1. page \in [Run -> Nat]
      BY <1>2 DEF TypeOK
    <3>2. page'[r] = page[r] + 1
      BY <1>7, <3>1
    <3>3. QED BY <1>2, <3>2
  <2>2. ASSUME Whole(r), NEW e \in steady[r], e \notin raw'[r]
        PROVE  Ahead(e, r)'
    <3>1. Ahead(e, r)
      BY <1>3, <1>4, <2>2
    <3>2. ~(\E k \in K : theirs[k] = e)
      BY <1>4, <2>2
    <3>3. \E k \in DOMAIN theirs : theirs[k] = e /\ k > page[r] * PageSize
      BY <1>2, <1>3, <3>1, <3>2, PageIsRead
    <3>4. QED BY <1>1, <2>1, <3>3 DEF Ahead
  <2>3. QED BY <1>1, <1>2, <1>4, <1>5, <1>7, <2>1, <2>2 DEF Whole, RunInv
<1>8. QED BY <1>6, <1>7 DEF ReadPage

(* An error in place of a page: the reading is not whole any more.         *)
LEMMA ReadErrorPageStep ==
  ASSUME IInv, NEW r \in Run, ReadErrorPage(r)
  PROVE  RunInv(r)'
<1>1. /\ pc[r] = "paging" /\ pc'[r] = "comparing" /\ known'[r] = ours /\ cut'[r]
      /\ UNCHANGED <<ours, theirs, raw, toPush, removed>>
  BY DEF ReadErrorPage, IInv, TypeOK
<1>2. RunInv(r) /\ OnceListed(r)' = OnceListed(r) /\ ~Whole(r)'
  BY <1>1 DEF IInv, OnceListed, Listed, Whole
<1>3. QED BY <1>1, <1>2 DEF RunInv

LEMMA CompareStep ==
  ASSUME IInv, NEW r \in Run, Compare(r)
  PROVE  RunInv(r)'
<1>1. PICK S \in SUBSET ours :
        /\ known[r] \subseteq S
        /\ toAdd' = [toAdd EXCEPT ![r] = ToAdd(raw[r], S)]
        /\ toPush' = [toPush EXCEPT ![r] = ToPush(raw[r], S)]
        /\ diverged' = [diverged EXCEPT ![r] =
             \/ ToAdd(raw[r], S) # {} \/ ToPush(raw[r], S) # {}
             \/ \E e \in raw[r] : ~Number(e)]
  BY DEF Compare
<1>2. /\ pc[r] = "comparing" /\ pc' = [pc EXCEPT ![r] = "writing"]
      /\ raw' = [raw EXCEPT ![r] = {}]
      /\ UNCHANGED <<ours, theirs, page, known, steady, removed, cut>>
  BY DEF Compare, history
<1>3. TypeOK /\ RunInv(r)
  BY DEF IInv
<1>4. /\ pc'[r] = "writing" /\ raw'[r] = {}
      /\ toAdd'[r] = ToAdd(raw[r], S) /\ toPush'[r] = ToPush(raw[r], S)
      /\ (\E e \in raw[r] : ~Number(e)) => diverged'[r]
  BY <1>1, <1>2, <1>3 DEF TypeOK
<1>5. OnceListed(r)' = OnceListed(r) /\ raw[r] \subseteq OnceListed(r)
  BY <1>2, <1>3 DEF OnceListed, Listed, RunInv
<1>6. ASSUME NEW p \in known[r] \cap Domestic
      PROVE  p \in toPush'[r] \/ OnTheirs(p, OnceListed(r))
  <2>1. p \in S \cap Phone
    BY <1>1 DEF Domestic
  <2>2. CASE p \in Numbers(raw[r])
    BY <1>5, <2>2 DEF Numbers, OnTheirs
  <2>3. CASE p \notin Numbers(raw[r])
    BY <1>4, <2>1, <2>3 DEF ToPush
  <2>4. QED BY <2>2, <2>3
<1>7. ASSUME Whole(r), NEW e \in steady[r]
      PROVE  IF Number(e) THEN Parse[e] \in ours \cup toAdd'[r] ELSE diverged'[r]
  <2>1. e \in raw[r]
    BY <1>2, <1>3, <1>7 DEF RunInv
  <2>2. CASE Number(e)
    <3>1. Parse[e] \in Numbers(raw[r])
      BY <2>1, <2>2 DEF Numbers
    <3>2. QED BY <1>4, <2>2, <3>1 DEF ToAdd
  <2>3. CASE ~Number(e)
    BY <1>4, <2>1, <2>3
  <2>4. QED BY <2>2, <2>3
<1>8. toPush'[r] \subseteq ours /\ known[r] \subseteq ours
  BY <1>1, <1>4 DEF ToPush
<1>9. QED BY <1>2, <1>4, <1>5, <1>6, <1>7, <1>8 DEF Whole, RunInv

LEMMA AddOneStep ==
  ASSUME IInv, NEW r \in Run, AddOne(r)
  PROVE  RunInv(r)'
<1>1. PICK p \in toAdd[r] :
        ours' = ours \cup {p} /\ toAdd' = [toAdd EXCEPT ![r] = @ \ {p}]
  BY DEF AddOne
<1>2. /\ pc[r] = "writing"
      /\ UNCHANGED <<theirs, pc, page, raw, known, toPush, diverged, steady, removed, cut>>
  BY DEF AddOne, history
<1>3. RunInv(r) /\ toAdd'[r] = toAdd[r] \ {p}
  BY <1>1 DEF IInv, TypeOK
<1>4. OnceListed(r)' = OnceListed(r) /\ ours \subseteq ours'
      /\ ours \cup toAdd[r] \subseteq ours' \cup toAdd'[r]
  BY <1>1, <1>2, <1>3 DEF OnceListed, Listed
<1>5. QED BY <1>2, <1>3, <1>4 DEF Whole, RunInv

LEMMA WiresAreFinite ==
  ASSUME NEW P \in SUBSET Phone, IsFiniteSet(P)
  PROVE  {Wire[p] : p \in P} \in SUBSET Entry /\ IsFiniteSet({Wire[p] : p \in P})
<1> DEFINE W == {Wire[p] : p \in P}
           f == [p \in P |-> Wire[p]]
<1>1. f \in Surjection(P, W)
  BY DEF Surjection
<1>2. IsFiniteSet(W)
  BY <1>1, FS_Surjection
<1>3. W \in SUBSET Entry
  BY ReconcileAssumption
<1>4. QED BY <1>2, <1>3

(* A POST, whether or not it is answered, leaves the list longer.          *)
LEMMA Posted ==
  ASSUME IInv, NEW r \in Run, NEW P \in SUBSET toPush[r], Enter({Wire[p] : p \in P})
  PROVE  Grown /\ {Wire[p] : p \in P} \subseteq Listed'
<1>1. P \subseteq ours \cap Phone
  BY DEF IInv, RunInv, TypeOK
<1>2. IsFiniteSet(P)
  BY <1>1, FS_Subset DEF IInv
<1>3. theirs \in Seq(Entry) /\ P \in SUBSET Phone
  BY <1>1 DEF IInv, TypeOK
<1>4. QED BY <1>2, <1>3, WiresAreFinite, EntersAll

LEMMA PushStep ==
  ASSUME IInv, NEW r \in Run, Push(r)
  PROVE  RunInv(r)' /\ Grown
<1>1. /\ pc[r] = "writing" /\ toAdd[r] = {} /\ pc' = [pc EXCEPT ![r] = "reporting"]
      /\ Enter({Wire[p] : p \in toPush[r]})
      /\ UNCHANGED <<ours, page, raw, known, toAdd, toPush, diverged, steady, removed, cut>>
  BY DEF Push, history
<1>2. Grown /\ {Wire[p] : p \in toPush[r]} \subseteq Listed'
  BY <1>1, Posted
<1>3. RunInv(r) /\ pc'[r] = "reporting"
  BY <1>1 DEF IInv, TypeOK
<1>4. OnceListed(r) \subseteq OnceListed(r)' /\ Listed' \subseteq OnceListed(r)'
  BY <1>1, <1>2 DEF OnceListed, Listed, Grown
<1>5. ASSUME NEW p \in known[r] \cap Domestic
      PROVE  OnTheirs(p, OnceListed(r)')
  <2>1. CASE p \in toPush[r]
    <3>1. Wire[p] \in OnceListed(r)' /\ Parse[Wire[p]] = p
      BY <1>2, <1>4, <2>1 DEF Domestic
    <3>2. QED BY <3>1 DEF OnTheirs
  <2>2. CASE OnTheirs(p, OnceListed(r))
    BY <1>4, <2>2 DEF OnTheirs
  <2>3. QED BY <1>1, <1>3, <2>1, <2>2 DEF RunInv
<1>6. QED BY <1>1, <1>2, <1>3, <1>4, <1>5 DEF Whole, RunInv

LEMMA EndRunStep ==
  ASSUME TypeOK, NEW r \in Run, EndRun(r)
  PROVE  RunInv(r)'
<1>1. /\ pc'[r] = "idle" /\ raw'[r] = {} /\ known'[r] = {} /\ toPush'[r] = {}
  BY DEF TypeOK, EndRun
<1>2. QED BY <1>1 DEF RunInv

LEMMA StartNightlyStep ==
  ASSUME IInv, NEW r \in Run, StartNightly(r)
  PROVE  RunInv(r)'
<1>1. /\ pc[r] = "idle" /\ UNCHANGED <<ours, theirs, raw, known, toPush>>
      /\ pc'[r] = "paging" /\ page'[r] = 1 /\ steady'[r] = Listed
  BY DEF StartNightly, IInv, TypeOK
<1>2. RunInv(r) /\ raw[r] = {}
  BY <1>1 DEF IInv, RunInv
<1>3. ASSUME NEW e \in Listed PROVE Ahead(e, r)'
  <2>1. PICK k \in DOMAIN theirs : theirs[k] = e
    BY <1>3 DEF Listed
  <2>2. k \in Nat \ {0} /\ PageSize \in Nat
    BY ReconcileAssumption DEF IInv, TypeOK
  <2>3. k > (1 - 1) * PageSize
    BY <2>2
  <2>4. QED BY <1>1, <2>1, <2>3 DEF Ahead
<1>4. QED BY <1>1, <1>2, <1>3 DEF RunInv

LEMMA StartFromExportStep ==
  ASSUME IInv, NEW r \in Run, StartFromExport(r)
  PROVE  RunInv(r)'
<1>1. /\ UNCHANGED <<ours, theirs, toPush>>
      /\ pc'[r] = "comparing" /\ raw'[r] = export /\ known'[r] = ours
      /\ steady'[r] = export \cap Listed /\ removed'[r] = export \ Listed
  BY DEF StartFromExport, IInv, TypeOK
<1>2. RunInv(r) /\ Listed' = Listed
  BY <1>1 DEF IInv, Listed
<1>3. raw'[r] \subseteq OnceListed(r)'
  BY <1>1, <1>2 DEF OnceListed
<1>4. QED BY <1>1, <1>2, <1>3 DEF Whole, RunInv

LEMMA TakenOff ==
  ASSUME TypeOK, NEW k \in DOMAIN theirs, Unblock(k)
  PROVE  theirs' \in Seq(Entry) /\ Listed \subseteq Listed' \cup {theirs[k]}
<1> DEFINE n == Len(theirs)
           a == SubSeq(theirs, 1, k - 1)
           b == SubSeq(theirs, k + 1, n)
<1>1. theirs \in Seq(Entry) /\ n \in Nat /\ k \in 1 .. n /\ theirs' = a \o b
  BY DEF TypeOK, Unblock
<1>2. \A j \in 1 .. n : theirs[j] \in Entry
  BY <1>1
<1>3. /\ a \in Seq(Entry) /\ Len(a) = k - 1
      /\ \A j \in 1 .. k - 1 : a[j] = theirs[j]
  BY <1>1
<1>4. /\ b \in Seq(Entry) /\ Len(b) = n - k
      /\ \A j \in 1 .. n - k : b[j] = theirs[k + j]
  BY <1>1
<1>5. /\ theirs' \in Seq(Entry) /\ Len(theirs') = n - 1
      /\ \A j \in 1 .. n - 1 : theirs'[j] = IF j <= k - 1 THEN a[j] ELSE b[j - (k - 1)]
  <2> HIDE DEF n, a, b
  <2>1. /\ theirs' \in Seq(Entry) /\ Len(theirs') = Len(a) + Len(b)
        /\ \A j \in 1 .. Len(a) + Len(b) :
             theirs'[j] = IF j <= Len(a) THEN a[j] ELSE b[j - Len(a)]
    BY <1>1, <1>3, <1>4, ConcatProperties
  <2>2. Len(a) + Len(b) = n - 1
    BY <1>1, <1>3, <1>4
  <2>3. QED BY <1>3, <2>1, <2>2
<1>6. ASSUME NEW j \in 1 .. n, j # k PROVE theirs[j] \in Listed'
  <2>1. CASE j < k
    <3>1. j \in 1 .. n - 1 /\ theirs'[j] = theirs[j]
      BY <1>1, <1>3, <1>5, <2>1
    <3>2. QED BY <1>5, <3>1 DEF Listed
  <2>2. CASE j > k
    <3>1. j - 1 \in 1 .. n - 1 /\ theirs'[j - 1] = theirs[j]
      <4>1. j - 1 \in 1 .. n - 1 /\ ~(j - 1 <= k - 1) /\ (j - 1) - (k - 1) \in 1 .. n - k
        BY <1>1, <2>2
      <4>2. theirs'[j - 1] = b[(j - 1) - (k - 1)]
        BY <1>5, <4>1
      <4>3. b[(j - 1) - (k - 1)] = theirs[k + ((j - 1) - (k - 1))]
        BY <1>4, <4>1
      <4>4. k + ((j - 1) - (k - 1)) = j
        BY <1>1
      <4>5. QED BY <4>1, <4>2, <4>3, <4>4
    <3>2. QED BY <1>5, <3>1 DEF Listed
  <2>3. QED BY <1>1, <1>6, <2>1, <2>2
<1>7. Listed = {theirs[j] : j \in 1 .. n}
  BY <1>1 DEF Listed
<1>8. QED BY <1>5, <1>6, <1>7

LEMMA UnblockStep ==
  ASSUME IInv, NEW k \in DOMAIN theirs, Unblock(k), NEW r \in Run
  PROVE  RunInv(r)'
<1>1. /\ removed' = [q \in Run |-> IF pc[q] = "idle" THEN {} ELSE removed[q] \cup {theirs[k]}]
      /\ UNCHANGED <<ours, pc, page, raw, known, toAdd, toPush, diverged>>
  BY DEF Unblock, local
<1>2. RunInv(r) /\ Listed \subseteq Listed' \cup {theirs[k]}
  BY TakenOff DEF IInv
<1>3. CASE pc[r] = "idle"
  BY <1>1, <1>2, <1>3 DEF RunInv
<1>4. CASE pc[r] # "idle"
  <2>1. removed'[r] = removed[r] \cup {theirs[k]} /\ removed'[r] # {}
    BY <1>1, <1>4
  <2>2. OnceListed(r) \subseteq OnceListed(r)'
    BY <1>2, <2>1 DEF OnceListed
  <2>3. \A p : OnTheirs(p, OnceListed(r)) => OnTheirs(p, OnceListed(r)')
    BY <2>2 DEF OnTheirs
  <2>4. QED BY <1>1, <1>2, <1>4, <2>1, <2>2, <2>3 DEF Whole, RunInv
<1>5. QED BY <1>3, <1>4
-----------------------------------------------------------------------------
LEMMA TypeStep ==
  ASSUME IInv, [Next]_vars
  PROVE  (TypeOK' /\ Grown) \/ \E k \in DOMAIN theirs : Unblock(k) /\ TypeOK'
<1>1. TypeOK
  BY DEF IInv
<1>2. ASSUME UNCHANGED theirs PROVE Grown
  BY <1>1, <1>2, ListStays
<1>3. ASSUME NEW r \in Run, StartNightly(r) PROVE TypeOK' /\ Grown
  BY <1>1, <1>2, <1>3 DEF TypeOK, StartNightly, Listed
<1>4. ASSUME NEW r \in Run, StartFromExport(r) PROVE TypeOK' /\ Grown
  BY <1>1, <1>2, <1>4 DEF TypeOK, StartFromExport, Listed
<1>5. ASSUME NEW r \in Run, ReadPage(r) PROVE TypeOK' /\ Grown
  <2>1. {theirs[k] : k \in Indices(page[r])} \subseteq Entry
    BY <1>1 DEF TypeOK, Indices
  <2>2. raw' \in [Run -> SUBSET Entry]
    BY <1>1, <1>5, <2>1 DEF TypeOK, ReadPage
  <2>3. page' \in [Run -> Nat] /\ known' \in [Run -> SUBSET (Phone \cup Email)]
        /\ pc' \in [Run -> {"idle", "paging", "comparing", "writing", "reporting"}]
    <3>1. CASE /\ pc' = [pc EXCEPT ![r] = "comparing"]
               /\ page' = [page EXCEPT ![r] = 0] /\ known' = [known EXCEPT ![r] = ours]
      BY <1>1, <3>1 DEF TypeOK
    <3>2. CASE page' = [page EXCEPT ![r] = @ + 1] /\ UNCHANGED <<pc, known>>
      <4>1. page \in [Run -> Nat]
        BY <1>1 DEF TypeOK
      <4>2. page' \in [Run -> Nat]
        BY <3>2, <4>1
      <4>3. QED BY <1>1, <3>2, <4>2 DEF TypeOK
    <3>3. QED BY <1>5, <3>1, <3>2 DEF ReadPage
  <2>4. QED BY <1>1, <1>2, <1>5, <2>2, <2>3 DEF TypeOK, ReadPage, history
<1>6. ASSUME NEW r \in Run, Compare(r) PROVE TypeOK' /\ Grown
  <2>1. PICK S \in SUBSET ours :
          /\ toAdd' = [toAdd EXCEPT ![r] = ToAdd(raw[r], S)]
          /\ toPush' = [toPush EXCEPT ![r] = ToPush(raw[r], S)]
          /\ diverged' = [diverged EXCEPT ![r] =
               \/ ToAdd(raw[r], S) # {} \/ ToPush(raw[r], S) # {}
               \/ \E e \in raw[r] : ~Number(e)]
    BY <1>6 DEF Compare
  <2>2. ToAdd(raw[r], S) \subseteq Phone /\ ToPush(raw[r], S) \subseteq Phone
    BY <1>1, ReconcileAssumption DEF TypeOK, ToAdd, ToPush, Numbers, Number
  <2>3. diverged' \in [Run -> BOOLEAN]
    BY <1>1, <2>1 DEF TypeOK
  <2>4. toAdd' \in [Run -> SUBSET Phone] /\ toPush' \in [Run -> SUBSET Phone]
    BY <1>1, <2>1, <2>2 DEF TypeOK
  <2>5. QED BY <1>1, <1>2, <1>6, <2>3, <2>4 DEF TypeOK, Compare, history
<1>7. ASSUME NEW r \in Run, AddOne(r) PROVE TypeOK' /\ Grown
  BY <1>1, <1>2, <1>7 DEF TypeOK, AddOne, history
<1>8. ASSUME NEW r \in Run, Push(r) PROVE TypeOK' /\ Grown
  BY <1>1, <1>8, PushStep DEF TypeOK, Push, history, Grown
<1>9. ASSUME NEW r \in Run, Report(r) PROVE TypeOK' /\ Grown
  BY <1>1, <1>2, <1>9 DEF TypeOK, Report, EndRun
<1>10. ASSUME NEW r \in Run, Fail(r) PROVE TypeOK' /\ Grown
  <2>1. Grown
    BY <1>2, <1>10, Posted DEF Fail
  <2>2. unreported' \subseteq Phone /\ fails' \in 0 .. MaxFails
    BY <1>1, <1>10, ReconcileAssumption DEF TypeOK, Fail
  <2>3. QED BY <1>1, <1>10, <2>1, <2>2 DEF TypeOK, Fail, EndRun, Grown
<1>11. ASSUME NEW p \in Phone, OptOutHere(p) PROVE TypeOK' /\ Grown
  BY <1>1, <1>2, <1>11 DEF TypeOK, OptOutHere, local, history
<1>12. ASSUME NEW e \in Entry, OptOutThere(e) PROVE TypeOK' /\ Grown
  <2>1. Grown
    BY <1>1, <1>12, FS_Singleton, EntersAll DEF TypeOK, OptOutThere
  <2>2. QED BY <1>1, <1>12, <2>1 DEF TypeOK, OptOutThere, local, history, Grown
<1>13. ASSUME NEW k \in DOMAIN theirs, Unblock(k) PROVE TypeOK'
  <2>1. theirs' \in Seq(Entry) /\ theirs[k] \in Entry
    BY <1>1, <1>13, TakenOff DEF TypeOK
  <2>2. unblocks' \in 0 .. MaxUnblocks
    BY <1>1, <1>13, ReconcileAssumption DEF TypeOK, Unblock
  <2>3. steady' \in [Run -> SUBSET Entry] /\ removed' \in [Run -> SUBSET Entry]
    BY <1>1, <1>13, <2>1 DEF TypeOK, Unblock
  <2>4. QED BY <1>1, <1>13, <2>1, <2>2, <2>3 DEF TypeOK, Unblock, local
<1>14. CASE DropExport
  BY <1>1, <1>2, <1>14 DEF TypeOK, DropExport, Listed, local, history
<1>15. ASSUME NEW r \in Run, ReadErrorPage(r) PROVE TypeOK' /\ Grown
  <2>1. fails' \in 0 .. MaxFails
    BY <1>1, <1>15, ReconcileAssumption DEF TypeOK, ReadErrorPage
  <2>2. QED BY <1>1, <1>2, <1>15, <2>1 DEF TypeOK, ReadErrorPage
<1>16. CASE UNCHANGED vars
  BY <1>1, <1>2, <1>16 DEF TypeOK, vars, local, history
<1>17. QED
  BY <1>3, <1>4, <1>5, <1>6, <1>7, <1>8, <1>9, <1>10, <1>11, <1>12, <1>13, <1>14, <1>15, <1>16
     DEF Next, Step

LEMMA FiniteStep ==
  ASSUME IInv, [Next]_vars
  PROVE  IsFiniteSet(ours' \cap Phone) /\ ours \subseteq ours'
<1>1. ours' = ours \/ \E p : ours' = ours \cup {p}
  BY DEF Next, Step, StartNightly, StartFromExport, ReadPage, ReadErrorPage, Compare, AddOne, Push, Report, Fail,
         OptOutHere, OptOutThere, Unblock, DropExport, vars
<1>2. CASE ours' = ours
  BY <1>2 DEF IInv
<1>3. ASSUME NEW p, ours' = ours \cup {p} PROVE IsFiniteSet(ours' \cap Phone)
  <2>1. IsFiniteSet((ours \cap Phone) \cup {p})
    BY FS_AddElement DEF IInv
  <2>2. ours' \cap Phone \subseteq (ours \cap Phone) \cup {p}
    BY <1>3
  <2>3. QED BY <2>1, <2>2, FS_Subset
<1>4. QED BY <1>1, <1>2, <1>3

LEMMA InvInit == Init => IInv
<1> SUFFICES ASSUME Init PROVE IInv
  OBVIOUS
<1>1. TypeOK
  BY ReconcileAssumption DEF Init, TypeOK
<1>2. IsFiniteSet(ours \cap Phone)
  <2>1. ours \cap Phone = {}
    BY ReconcileAssumption DEF Init
  <2>2. QED BY <2>1, FS_EmptySet
<1>3. \A r \in Run : RunInv(r)
  BY DEF Init, RunInv
<1>4. QED BY <1>1, <1>2, <1>3 DEF IInv

LEMMA InvStep == IInv /\ [Next]_vars => IInv'
<1> SUFFICES ASSUME IInv, [Next]_vars PROVE IInv'
  OBVIOUS
<1>1. TypeOK /\ \A r \in Run : RunInv(r)
  BY DEF IInv
<1>2. CASE \E k \in DOMAIN theirs : Unblock(k) /\ TypeOK'
  BY <1>2, FiniteStep, UnblockStep DEF IInv
<1>3. CASE TypeOK' /\ Grown
  <2>1. ours \subseteq ours' /\ IsFiniteSet(ours' \cap Phone)
    BY FiniteStep
  <2>2. \A q \in Run : Same(q) => RunInv(q)'
    BY <1>1, <1>3, <2>1, RunKeeps
  <2>3. ASSUME NEW r \in Run, StartNightly(r) PROVE \A q \in Run : RunInv(q)'
    <3>1. \A q \in Run \ {r} : Same(q)
      BY <1>1, <2>3 DEF TypeOK, StartNightly, Same
    <3>2. QED BY <2>2, <2>3, <3>1, StartNightlyStep
  <2>4. ASSUME NEW r \in Run, StartFromExport(r) PROVE \A q \in Run : RunInv(q)'
    <3>1. \A q \in Run \ {r} : Same(q)
      BY <1>1, <2>4 DEF TypeOK, StartFromExport, Same
    <3>2. QED BY <2>2, <2>4, <3>1, StartFromExportStep
  <2>5. ASSUME NEW r \in Run, ReadPage(r) PROVE \A q \in Run : RunInv(q)'
    <3>1. \A q \in Run \ {r} : Same(q)
      BY <1>1, <2>5 DEF TypeOK, ReadPage, Same, history
    <3>2. QED BY <2>2, <2>5, <3>1, ReadPageStep
  <2>6. ASSUME NEW r \in Run, Compare(r) PROVE \A q \in Run : RunInv(q)'
    <3>1. \A q \in Run \ {r} : Same(q)
      BY <1>1, <2>6 DEF TypeOK, Compare, Same, history
    <3>2. QED BY <2>2, <2>6, <3>1, CompareStep
  <2>7. ASSUME NEW r \in Run, AddOne(r) PROVE \A q \in Run : RunInv(q)'
    <3>1. \A q \in Run \ {r} : Same(q)
      BY <1>1, <2>7 DEF TypeOK, AddOne, Same, history
    <3>2. QED BY <2>2, <2>7, <3>1, AddOneStep
  <2>8. ASSUME NEW r \in Run, Push(r) PROVE \A q \in Run : RunInv(q)'
    <3>1. \A q \in Run \ {r} : Same(q)
      BY <1>1, <2>8 DEF TypeOK, Push, Same, history
    <3>2. QED BY <2>2, <2>8, <3>1, PushStep
  <2>9. ASSUME NEW r \in Run, Report(r) \/ Fail(r) PROVE \A q \in Run : RunInv(q)'
    <3>1. EndRun(r)
      BY <2>9 DEF Report, Fail
    <3>2. \A q \in Run \ {r} : Same(q)
      BY <1>1, <3>1 DEF TypeOK, EndRun, Same
    <3>3. QED BY <1>1, <2>2, <3>1, <3>2, EndRunStep
  <2>10. ASSUME \/ \E p \in Phone : OptOutHere(p)
                \/ \E e \in Entry : OptOutThere(e)
                \/ DropExport \/ UNCHANGED vars
         PROVE  \A q \in Run : RunInv(q)'
    <3>1. \A q \in Run : Same(q)
      BY <2>10 DEF OptOutHere, OptOutThere, DropExport, vars, local, history, Same
    <3>2. QED BY <2>2, <3>1
  <2>11. ASSUME NEW r \in Run, ReadErrorPage(r) PROVE \A q \in Run : RunInv(q)'
    <3>1. \A q \in Run \ {r} : Same(q)
      BY <1>1, <2>11 DEF TypeOK, ReadErrorPage, Same
    <3>2. QED BY <2>2, <2>11, <3>1, ReadErrorPageStep
  <2>12. ASSUME NEW k \in DOMAIN theirs, Unblock(k) PROVE \A q \in Run : RunInv(q)'
    BY <2>12, UnblockStep
  <2>13. \A q \in Run : RunInv(q)'
    BY <2>3, <2>4, <2>5, <2>6, <2>7, <2>8, <2>9, <2>10, <2>11, <2>12 DEF Next, Step
  <2>14. QED BY <1>3, <2>1, <2>13 DEF IInv
<1>4. QED BY <1>2, <1>3, TypeStep

LEMMA Invariant == Spec => []IInv
BY InvInit, InvStep, PTL DEF Spec

(* Lists, pages and what a run holds have their types, whatever moves under*)
(* the runs.                                                               *)
THEOREM TypeCorrect == Spec => []TypeOK
<1>1. IInv => TypeOK
  BY DEF IInv
<1>2. QED BY <1>1, Invariant, PTL

(* A run that gets to its report has pushed what was in our log when it    *)
(* listed it and, unless an error was taken for the last page or an entry  *)
(* was taken off, has taken over what was on the list: for pages of any    *)
(* size, lists that change while they are read, and any number of runs at  *)
(* the same time.                                                          *)
THEOREM RunsCloseGaps == Spec => []RunClosesGaps
<1>1. IInv => RunClosesGaps
  BY DEF IInv, RunInv, RunClosesGaps, HasTheirs, OnceListed, Whole
<1>2. QED BY <1>1, Invariant, PTL
=============================================================================
