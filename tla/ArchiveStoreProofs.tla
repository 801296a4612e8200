------------------------- MODULE ArchiveStoreProofs -------------------------
(***************************************************************************)
(* Proofs about ArchiveStore, for any sources, archives, batches, queries, *)
(* page sizes and bounds: whatever is committed passes the validation of   *)
(* the next open; rows move only for the session that holds the run, or    *)
(* with the removal of their source; and a query read page by page to its  *)
(* end has every matching record of one generation once, newest first.     *)
(*                                                                         *)
(* Each operation on the content is proved to keep DbOk and to move each   *)
(* source as Goes says; the invariant of the store, its sessions and its   *)
(* reader follows from that alone.                                         *)
(***************************************************************************)
EXTENDS ArchiveStore, FiniteSetTheorems, SequenceTheorems, WellFoundedInduction, TLAPS

(* A set of numbers that is not empty has a least one: what every induction *)
(* below rests on.                                                         *)
LEMMA LeastNatural ==
  ASSUME NEW T \in SUBSET Nat, T # {}
  PROVE  \E n \in T : \A m \in T : n <= m
<1> DEFINE R == OpToRel(<, Nat)
<1>1. \E n \in T : \A m \in T : ~(<<m, n>> \in R)
  <2> HIDE DEF R
  <2>1. IsWellFoundedOn(R, Nat)
    BY NatLessThanWellFounded DEF R
  <2> QED BY <2>1, WFMin
<1>2. \A m, n \in Nat : m < n => <<m, n>> \in R
  BY DEF OpToRel
<1>3. PICK n \in T : \A m \in T : ~(<<m, n>> \in R)
  BY <1>1
<1> HIDE DEF R
<1>4. ASSUME NEW m \in T PROVE n <= m
  <2>1. ~(m < n)
    BY <1>2, <1>3
  <2> QED BY <2>1
<1> QED BY <1>4

(* What the content has of one source.                                      *)
SourceOk(d, s) ==
  /\ Keyed(d.rows[s]) /\ Keyed(d.talks[s])
  /\ Observed(d, s) \subseteq d.identity
  /\ ~Present(d, s) => d.run[s] = NoRun /\ d.rows[s] = {} /\ d.talks[s] = {}
  /\ Present(d, s) => d.account /\ d.task[s] = "none"
  /\ d.run[s] # NoRun => RunLoads(d, s) /\ Integrity(d, s) /\ d.source[s].state = StateOf(d.run[s].phase)
  /\ d.run[s] = NoRun => d.rows[s] = {}
  /\ d.source[s].mapped => d.run[s] # NoRun

DbOk(d) == d \in DbForm /\ (d.identity # {} => d.account) /\ \A s \in Source : SourceOk(d, s)

SessionForm == [id : 1..made, source : Source, print : Archive \cup {None}]
StoreTypeOK ==
  /\ active \in {"absent", "empty", "v1", "v2"}
  /\ db \in DbForm
  /\ pc \in {"closed", "created", "migrating", "validated", "open", "failed"}
  /\ made \in Nat /\ issued \subseteq SessionForm /\ revoked \subseteq 1..made
  /\ held # None => held.source \in Source

FileOk ==
  /\ active = "v2" => DbOk(db)
  /\ active \in {"absent", "empty"} => db = EmptyDb
  /\ active = "v1" => db \in Legacy
  /\ pc = "created" => active = "empty"
  /\ pc = "migrating" => active = "v1" /\ Validates(Upgraded(db))
  /\ pc \in {"validated", "open"} => active = "v2"

SessionsOk ==
  /\ pc # "open" => issued = {}
  /\ \A j, k \in issued : j.id = k.id => j = k
  /\ \A k \in issued : k.id \in revoked =>
        k.id \in flagged \/ db.run[k.source].session # k.id \/ db.run[k.source].phase # "importing"

(* What a reader has seen are the newest of the records there were, and they*)
(* are still there while the run has that revision.                         *)
Descends(s) == \A i, j \in DOMAIN s : i < j => s[j] < s[i]
Above(W, x) == {i \in W : ~(i < x)}
Below(W, x) == {i \in W : i < x}
PagerOk ==
  pager # None =>
    LET q == pager.query
        seen == pager.seen
        c == pager.cursor
    IN /\ pager = [query |-> q, cursor |-> c, seen |-> seen, whole |-> pager.whole]
       /\ active = "v2" /\ q \in Query /\ seen \in Seq(Nat) /\ pager.whole \in SUBSET Nat
       /\ Descends(seen)
       /\ c = None => ToSet(seen) = pager.whole
       /\ c # None =>
            /\ c.query = q /\ c.generation.source = q.source /\ c.generation.rev \in Nat
            /\ seen # <<>> /\ c.last = seen[Len(seen)]
            /\ ToSet(seen) = Above(pager.whole, c.last)
            /\ Present(db, q.source) \/ db.task[q.source] # "none"
            /\ Present(db, q.source) => c.generation.rev <= db.run[q.source].rev
            /\ Present(db, q.source) /\ c.generation.rev = db.run[q.source].rev =>
                 pager.whole = Matching(db, q)

StoreInv == StoreTypeOK /\ FileOk /\ SessionsOk /\ PagerOk

-----------------------------------------------------------------------------
(* The ledger of warnings grows with its receipts.                          *)
Receipts == Seq([batch : BatchForm, items : Nat])
Sums_(f, q) == f[0] = 0 /\ \A i \in 1..Len(q) : f[i] = f[i - 1] + q[i].batch.warnings

(* Running sums over two lists agree as far as the lists do.                *)
LEMMA SumsAgree ==
  ASSUME NEW p \in Receipts, NEW q \in Receipts, Len(p) <= Len(q), \A i \in 1..Len(p) : p[i] = q[i],
         NEW f, NEW g, Sums_(f, p), Sums_(g, q)
  PROVE  \A i \in 0..Len(p) : f[i] = g[i]
<1> DEFINE Wrong == {i \in 0..Len(p) : f[i] # g[i]}
<1> SUFFICES ASSUME Wrong # {} PROVE FALSE
  OBVIOUS
<1>0. Wrong \in SUBSET Nat /\ Len(p) \in Nat /\ Len(q) \in Nat
  BY DEF Receipts
<1>1. PICK n \in Wrong : \A m \in Wrong : n <= m
  <2> HIDE DEF Wrong
  <2> QED BY <1>0, LeastNatural
<1>2. n # 0 /\ n - 1 \in 0..Len(p) /\ n \in 1..Len(p) /\ n \in 1..Len(q)
  BY <1>0, <1>1 DEF Sums_
<1>3. f[n - 1] = g[n - 1]
  BY <1>1, <1>2
<1> QED BY <1>1, <1>2, <1>3 DEF Sums_

(* The warnings of a receipt are counted.                                   *)
LEMMA WarningsAreNumbers ==
  ASSUME NEW q \in Receipts
  PROVE  \A i \in 1..Len(q) : q[i].batch.warnings \in Nat
<1>1. ASSUME NEW i \in 1..Len(q) PROVE q[i].batch.warnings \in Nat
  <2> DEFINE R == [batch : BatchForm, items : Nat]
  <2>1. q \in Seq(R)
    BY DEF Receipts
  <2>2. q[i] \in R
    <3> HIDE DEF R
    <3> QED BY <2>1
  <2>3. q[i].batch \in BatchForm
    BY <2>2
  <2> QED BY <2>3 DEF BatchForm
<1> QED BY <1>1

(* A list of receipts has running sums: by its least prefix without.        *)
LEMMA SumsExist ==
  ASSUME NEW q \in Receipts
  PROVE  \E f \in [0..Len(q) -> Nat] : Sums_(f, q)
<1> DEFINE P(n) == \E f \in [0..n -> Nat] : f[0] = 0 /\ \A i \in 1..n : f[i] = f[i - 1] + q[i].batch.warnings
           Wrong == {n \in 0..Len(q) : ~P(n)}
<1>0. Len(q) \in Nat
  BY DEF Receipts
<1> SUFFICES ASSUME Wrong # {} PROVE FALSE
  BY <1>0 DEF Sums_
<1>0a. Wrong \in SUBSET Nat
  BY <1>0
<1>1. PICK n \in Wrong : \A m \in Wrong : n <= m
  <2> HIDE DEF Wrong
  <2> QED BY <1>0a, LeastNatural
<1>2. P(0)
  <2>1. [i \in 0..0 |-> 0] \in [0..0 -> Nat] /\ [i \in 0..0 |-> 0][0] = 0
    OBVIOUS
  <2>2. \A i : i \in 1..0 => FALSE
    OBVIOUS
  <2> WITNESS [i \in 0..0 |-> 0] \in [0..0 -> Nat]
  <2> QED BY <2>1, <2>2
<1> HIDE DEF P
<1>3. n # 0 /\ n \in 1..Len(q) /\ n - 1 \in 0..Len(q)
  BY <1>0, <1>1, <1>2
<1>4. P(n - 1)
  BY <1>1, <1>3
<1>5. PICK f \in [0..(n - 1) -> Nat] : f[0] = 0 /\ \A i \in 1..(n - 1) : f[i] = f[i - 1] + q[i].batch.warnings
  BY <1>4 DEF P
<1> DEFINE g == [i \in 0..n |-> IF i = n THEN f[n - 1] + q[n].batch.warnings ELSE f[i]]
<1>6. q[n].batch.warnings \in Nat
  BY <1>3, WarningsAreNumbers
<1>7. g \in [0..n -> Nat] /\ g[n] = f[n - 1] + q[n].batch.warnings /\ \A i \in 0..(n - 1) : g[i] = f[i]
  BY <1>0, <1>3, <1>5, <1>6
<1> HIDE DEF g
<1>8. g[0] = 0 /\ \A i \in 1..n : g[i] = g[i - 1] + q[i].batch.warnings
  <2>1. n \in Nat /\ 0 \in 0..(n - 1) /\ n - 1 \in 0..(n - 1)
    BY <1>0, <1>3
  <2>2. g[0] = 0
    BY <1>5, <1>7, <2>1
  <2>3. ASSUME NEW i \in 1..n PROVE g[i] = g[i - 1] + q[i].batch.warnings
    <3>1. CASE i = n
      BY <1>7, <2>1, <3>1
    <3>2. CASE i # n
      <4>1. i \in 1..(n - 1) /\ i \in 0..(n - 1) /\ i - 1 \in 0..(n - 1)
        BY <2>1, <3>2
      <4> QED BY <1>5, <1>7, <4>1
    <3> QED BY <3>1, <3>2
  <2> QED BY <2>2, <2>3
<1>9. P(n)
  BY <1>7, <1>8 DEF P
<1> QED BY <1>1, <1>9

(* The recursive function of the model is such a sum.                       *)
LEMMA WarningsSum ==
  ASSUME NEW q \in Receipts
  PROVE  \E f \in [0..Len(q) -> Nat] : Sums_(f, q) /\ Warnings(q) = f[Len(q)]
<1> DEFINE Is(f) == f = [i \in 0..Len(q) |-> IF i = 0 THEN 0 ELSE f[i - 1] + q[i].batch.warnings]
           g == CHOOSE f : Is(f)
<1>0. Len(q) \in Nat
  BY DEF Receipts
<1>1. PICK f \in [0..Len(q) -> Nat] : Sums_(f, q)
  BY SumsExist
<1>2. Is(f)
  BY <1>0, <1>1 DEF Sums_
<1>3. Is(g)
  BY <1>2
<1>4. Warnings(q) = g[Len(q)]
  BY DEF Warnings
<1> HIDE DEF g
<1>5. Sums_(g, q)
  BY <1>0, <1>3 DEF Sums_
<1>6. \A i \in 0..Len(q) : g[i] = f[i]
  BY <1>0, <1>1, <1>5, SumsAgree
<1> QED BY <1>0, <1>1, <1>4, <1>6

(* A receipt adds its own warnings to the sum.                              *)
LEMMA WarningsAppended ==
  ASSUME NEW q \in Receipts, NEW r \in [batch : BatchForm, items : Nat]
  PROVE  Warnings(q) \in Nat /\ Warnings(Append(q, r)) = Warnings(q) + r.batch.warnings
<1> DEFINE p == Append(q, r)
<1>1. /\ p \in Receipts /\ Len(p) = Len(q) + 1 /\ p[Len(p)] = r /\ Len(q) \in Nat
      /\ \A i \in 1..Len(q) : p[i] = q[i]
  BY DEF Receipts
<1> HIDE DEF p
<1>2. PICK f \in [0..Len(q) -> Nat] : Sums_(f, q) /\ Warnings(q) = f[Len(q)]
  BY WarningsSum
<1>3. PICK g \in [0..Len(p) -> Nat] : Sums_(g, p) /\ Warnings(p) = g[Len(p)]
  BY <1>1, WarningsSum
<1>4. f[Len(q)] = g[Len(q)]
  <2>0. Len(q) <= Len(p) /\ \A i \in 1..Len(q) : q[i] = p[i]
    BY <1>1
  <2>1. \A i \in 0..Len(q) : f[i] = g[i]
    BY <1>1, <1>2, <1>3, <2>0, SumsAgree
  <2> QED BY <1>1, <2>1
<1>5. g[Len(p)] = g[Len(q)] + r.batch.warnings
  BY <1>1, <1>3 DEF Sums_
<1> QED BY <1>1, <1>2, <1>3, <1>4, <1>5 DEF p

LEMMA NoWarnings == Warnings(<<>>) = 0
<1>1. <<>> \in Receipts
  BY DEF Receipts
<1>2. PICK f : Sums_(f, <<>>) /\ Warnings(<<>>) = f[Len(<<>>)]
  BY <1>1, WarningsSum
<1> QED BY <1>2 DEF Sums_

-----------------------------------------------------------------------------
(* Records under a key are as many as their keys.                           *)
LEMMA CountByIds ==
  ASSUME NEW S, Keyed(S)
  PROVE  IsFiniteSet(Ids(S)) /\ Cardinality(Ids(S)) = Cardinality(S)
<1> DEFINE f == [x \in S |-> x.id]
<1>1. f \in [S -> Ids(S)] /\ \A t \in Ids(S) : \E x \in S : f[x] = t
  BY DEF Ids
<1>2. \A x, y \in S : f[x] = f[y] => x = y
  BY DEF Keyed
<1> HIDE DEF f
<1>3. f \in Bijection(S, Ids(S))
  BY <1>1, <1>2 DEF Bijection, Injection, Surjection, IsInjective
<1> QED BY <1>3, FS_Bijection DEF Keyed, ExistsBijection

(* A finite set with as many identifiers as members has a primary key.      *)
LEMMA WellFormedKeyed ==
  ASSUME NEW S, IsFiniteSet(S), Cardinality(Ids(S)) = Cardinality(S)
  PROVE  Keyed(S)
<1> DEFINE f == [x \in S |-> x.id]
<1>1. f \in [S -> Ids(S)] /\ \A t \in Ids(S) : \E x \in S : f[x] = t
  BY DEF Ids
<1>2. f \in Surjection(S, Ids(S))
  BY <1>1 DEF Surjection
<1>3. f \in Injection(S, Ids(S))
  BY <1>2, FS_SurjSameCardinalityImpliesInj
<1>4. \A x, y \in S : f[x] = f[y] => x = y
  BY <1>3 DEF Injection, IsInjective
<1> QED BY <1>4 DEF Keyed

(* What an upsert keeps and adds, and how many rows it makes.               *)
LEMMA Upserted ==
  ASSUME NEW old, NEW new, Keyed(old), Keyed(new)
  PROVE  /\ Keyed(Upsert(old, new)) /\ Ids(Upsert(old, new)) = Ids(old) \cup Ids(new)
         /\ Cardinality(Ids(new) \ Ids(old)) \in Nat /\ Cardinality(old) \in Nat
         /\ Cardinality(Upsert(old, new)) = Cardinality(old) + Cardinality(Ids(new) \ Ids(old))
<1> DEFINE kept == {y \in old : y.id \notin Ids(new)}
           all == kept \cup new
           added == Ids(new) \ Ids(old)
<1>1. Upsert(old, new) = all
  BY DEF Upsert
<1>2. IsFiniteSet(kept) /\ IsFiniteSet(all)
  <2>1. kept \in SUBSET old
    OBVIOUS
  <2> HIDE DEF kept
  <2> QED BY <2>1, FS_Subset, FS_Union DEF Keyed
<1>3. Keyed(all)
  <2>1. \A x \in kept, y \in new : x.id # y.id
    BY DEF Ids
  <2>2. \A x, y \in all : x.id = y.id => x = y
    BY <2>1 DEF Keyed
  <2> QED BY <1>2, <2>2 DEF Keyed
<1>4. Ids(all) = Ids(old) \cup added
  BY DEF Ids
<1>5. /\ IsFiniteSet(Ids(old)) /\ Cardinality(Ids(old)) = Cardinality(old)
      /\ IsFiniteSet(Ids(new)) /\ Cardinality(Ids(all)) = Cardinality(all)
  BY <1>3, CountByIds
<1>6. IsFiniteSet(added)
  BY <1>5, FS_Difference
<1>7. Ids(old) \cap added = {}
  OBVIOUS
<1> HIDE DEF added
<1>8. Cardinality(Ids(all)) = Cardinality(Ids(old)) + Cardinality(added) - Cardinality({})
  BY <1>4, <1>5, <1>6, <1>7, FS_Union
<1>9. Cardinality({}) = 0 /\ Cardinality(added) \in Nat /\ Cardinality(old) \in Nat
  BY <1>5, <1>6, FS_EmptySet, FS_CardinalityType
<1> QED BY <1>1, <1>3, <1>4, <1>5, <1>8, <1>9 DEF added

-----------------------------------------------------------------------------
(* What the columns hold after a write.                                     *)
Raised(run) == [run EXCEPT !.rev = @ + 1]

(* A run saved: its revision alone moves.                                   *)
LEMMA RaisedIs ==
  ASSUME NEW run \in RunForm
  PROVE  LET r == Raised(run)
         IN /\ r \in RunForm /\ r.rev = run.rev + 1 /\ r.phase = run.phase /\ r.session = run.session
            /\ r.code = run.code /\ r.items = run.items /\ r.receipts = run.receipts
            /\ r.warned = run.warned /\ r.missing = run.missing
BY DEF Raised, RunForm, Codes

(* What SaveRun writes, field by field.                                     *)
LEMMA SavedIs ==
  ASSUME NEW d \in DbForm, NEW s \in Source, NEW run \in RunForm
  PROVE  LET e == SaveRun(d, s, run)
         IN /\ e \in DbForm /\ e.run[s] = Raised(run) /\ \A x \in Source \ {s} : e.run[x] = d.run[x]
            /\ e.account = d.account /\ e.source = d.source /\ e.rows = d.rows /\ e.talks = d.talks
            /\ e.identity = d.identity /\ e.task = d.task
<1>1. SaveRun(d, s, run) = [d EXCEPT !.run[s] = Raised(run)]
  BY DEF SaveRun, Raised
<1>2. Raised(run) \in RunForm
  BY RaisedIs
<1> QED BY <1>1, <1>2 DEF DbForm

(* Every phase of a run has a state of its source.                          *)
LEMMA StatesAre ==
  ASSUME NEW run \in RunForm
  PROVE  StateOf(run.phase) \in States
BY DEF StateOf, States

StateTo(b, s, st) == [b EXCEPT !.source[s].state = st]

(* The source's state written, field by field.                              *)
LEMMA StateSet ==
  ASSUME NEW b \in DbForm, NEW s \in Source, NEW st \in States
  PROVE  LET e == StateTo(b, s, st)
         IN /\ e \in DbForm /\ e.run = b.run
            /\ e.source[s].state = st
            /\ e.source[s].print = b.source[s].print /\ e.source[s].mapped = b.source[s].mapped
            /\ \A x \in Source \ {s} : e.source[x] = b.source[x]
            /\ e.account = b.account /\ e.rows = b.rows /\ e.talks = b.talks
            /\ e.identity = b.identity /\ e.task = b.task
<1> DEFINE src == [b.source[s] EXCEPT !.state = st]
           e == StateTo(b, s, st)
<1>1. b.source \in [Source -> SourceForm] /\ b.source[s] \in SourceForm
  BY DEF DbForm
<1>2. src \in SourceForm /\ src.state = st /\ src.print = b.source[s].print /\ src.mapped = b.source[s].mapped
  BY <1>1 DEF SourceForm
<1>3. e = [b EXCEPT !.source = [b.source EXCEPT ![s] = src]]
  BY DEF StateTo
<1> HIDE DEF src
<1> DEFINE all == [b.source EXCEPT ![s] = src]
<1>4. all \in [Source -> SourceForm] /\ all[s] = src /\ \A x \in Source \ {s} : all[x] = b.source[x]
  BY <1>1, <1>2
<1> HIDE DEF all
<1>5. e \in DbForm /\ e.source = all /\ e.run = b.run
      /\ e.account = b.account /\ e.rows = b.rows /\ e.talks = b.talks
      /\ e.identity = b.identity /\ e.task = b.task
  BY <1>3, <1>4 DEF DbForm, all
<1>6. e.source[s].state = st /\ e.source[s].print = b.source[s].print /\ e.source[s].mapped = b.source[s].mapped
      /\ \A x \in Source \ {s} : e.source[x] = b.source[x]
  BY <1>2, <1>4, <1>5
<1> QED BY <1>5, <1>6

(* What Move writes: a run saved and the state of its source.               *)
LEMMA MovedIs ==
  ASSUME NEW d \in DbForm, NEW s \in Source, NEW run \in RunForm
  PROVE  LET e == Move(d, s, run)
         IN /\ e \in DbForm /\ e.run[s] = Raised(run)
            /\ e.source[s].state = StateOf(run.phase)
            /\ e.source[s].print = d.source[s].print /\ e.source[s].mapped = d.source[s].mapped
            /\ \A x \in Source \ {s} : e.run[x] = d.run[x] /\ e.source[x] = d.source[x]
            /\ e.account = d.account /\ e.rows = d.rows /\ e.talks = d.talks
            /\ e.identity = d.identity /\ e.task = d.task
<1> DEFINE b == SaveRun(d, s, run)
           st == StateOf(run.phase)
           e == StateTo(b, s, st)
<1>1. b \in DbForm /\ b.run[s] = Raised(run) /\ \A x \in Source \ {s} : b.run[x] = d.run[x]
  BY SavedIs
<1>2. b.account = d.account /\ b.source = d.source /\ b.rows = d.rows /\ b.talks = d.talks
      /\ b.identity = d.identity /\ b.task = d.task
  BY SavedIs
<1>3. st \in States
  BY StatesAre
<1>4. Move(d, s, run) = e
  BY DEF Move, StateTo
<1> HIDE DEF b, st, e
<1>5. e \in DbForm /\ e.run = b.run /\ e.source[s].state = st
      /\ e.source[s].print = b.source[s].print /\ e.source[s].mapped = b.source[s].mapped
  BY <1>1, <1>3, StateSet DEF e
<1>6. \A x \in Source \ {s} : e.source[x] = b.source[x]
  BY <1>1, <1>3, StateSet DEF e
<1>7. e.account = b.account /\ e.rows = b.rows /\ e.talks = b.talks
      /\ e.identity = b.identity /\ e.task = b.task
  BY <1>1, <1>3, StateSet DEF e
<1>8. Move(d, s, run).source[s].state = StateOf(run.phase)
  BY <1>4, <1>5 DEF st
<1> QED BY <1>1, <1>2, <1>4, <1>5, <1>6, <1>7, <1>8

-----------------------------------------------------------------------------
(* What a write leaves of a source.                                         *)
LEMMA IntegrityKept ==
  ASSUME NEW d, NEW e, NEW s, e.rows[s] = d.rows[s], e.run[s].receipts = d.run[s].receipts,
         e.run[s].items = d.run[s].items, e.run[s].warned = d.run[s].warned, Integrity(d, s)
  PROVE  Integrity(e, s)
<1> DEFINE items(q) == [i \in 0..Len(q) |-> IF i = 0 THEN 0 ELSE q[i].items]
           Whole(n, q, m, w) == /\ n = m
                                /\ \A i \in 1..Len(q) : items(q)[i - 1] <= items(q)[i]
                                /\ items(q)[Len(q)] = m
                                /\ Warnings(q) = w
<1>1. Integrity(d, s) <=> Whole(Cardinality(d.rows[s]), d.run[s].receipts, d.run[s].items, d.run[s].warned)
  BY DEF Integrity, Sums
<1>2. Integrity(e, s) <=> Whole(Cardinality(e.rows[s]), e.run[s].receipts, e.run[s].items, e.run[s].warned)
  BY DEF Integrity, Sums
<1> HIDE DEF Whole
<1> QED BY <1>1, <1>2

(* Items, receipts and warnings still add up after an append.               *)
LEMMA IntegrityAppended ==
  ASSUME NEW d \in DbForm, NEW e, NEW s \in Source, NEW b \in BatchForm, NEW n \in Nat, NEW m \in Nat,
         Integrity(d, s), m = d.run[s].items + n,
         Cardinality(e.rows[s]) = Cardinality(d.rows[s]) + n,
         e.run[s].receipts = Append(d.run[s].receipts, Receipt(b, m)),
         e.run[s].items = m, e.run[s].warned = d.run[s].warned + b.warnings
  PROVE  Integrity(e, s)
<1> DEFINE q == d.run[s].receipts
           p == e.run[s].receipts
           items(r) == [i \in 0..Len(r) |-> IF i = 0 THEN 0 ELSE r[i].items]
<1>0. d.run[s] \in RunForm
  BY DEF DbForm
<1>1. q \in Receipts /\ d.run[s].items \in Nat /\ d.run[s].warned \in Nat
  BY <1>0 DEF RunForm, Receipts
<1>2. /\ Cardinality(d.rows[s]) = d.run[s].items
      /\ \A i \in 1..Len(q) : items(q)[i - 1] <= items(q)[i]
      /\ items(q)[Len(q)] = d.run[s].items
      /\ Warnings(q) = d.run[s].warned
  BY DEF Integrity, Sums
<1>3. Receipt(b, m) \in [batch : BatchForm, items : Nat] /\ Receipt(b, m).items = m /\ Receipt(b, m).batch = b
  BY DEF Receipt
<1>4. Warnings(p) = Warnings(q) + b.warnings
  BY <1>1, <1>3, WarningsAppended
<1>5. /\ Len(p) = Len(q) + 1 /\ p[Len(p)].items = m /\ Len(q) \in Nat
      /\ \A i \in 1..Len(q) : p[i] = q[i]
  <2> HIDE DEF Receipts
  <2>1. q \in Seq([batch : BatchForm, items : Nat])
    BY <1>1 DEF Receipts
  <2> HIDE DEF q
  <2>2. p = Append(q, Receipt(b, m))
    BY DEF p, q
  <2> HIDE DEF p
  <2> QED BY <1>3, <2>1, <2>2
<1>6. \A i \in 1..Len(p) : items(p)[i - 1] <= items(p)[i]
  <2> SUFFICES ASSUME NEW i \in 1..Len(p) PROVE items(p)[i - 1] <= items(p)[i]
    OBVIOUS
  <2> HIDE DEF p, q
  <2>1. CASE i \in 1..Len(q)
    <3>1. items(p)[i - 1] = items(q)[i - 1] /\ items(p)[i] = items(q)[i]
      BY <1>5, <2>1
    <3> HIDE DEF items
    <3> QED BY <1>2, <2>1, <3>1
  <2>2. CASE i = Len(q) + 1
    <3>1. items(p)[i - 1] = items(q)[Len(q)] /\ items(p)[i] = m
      BY <1>5, <2>2
    <3> HIDE DEF items
    <3> QED BY <1>1, <1>2, <3>1
  <2> QED BY <1>5, <2>1, <2>2
<1>7. items(p)[Len(p)] = m
  <2> HIDE DEF p, q
  <2> QED BY <1>5
<1>8. Cardinality(e.rows[s]) = e.run[s].items /\ Warnings(p) = e.run[s].warned
  BY <1>1, <1>2, <1>4
<1> QED BY <1>6, <1>7, <1>8 DEF Integrity, Sums

(* A source whose columns are as they were is as good as it was.            *)
LEMMA SourceKept ==
  ASSUME NEW d, NEW e, NEW s, SourceOk(d, s),
         e.run[s] = d.run[s], e.source[s] = d.source[s], e.rows[s] = d.rows[s],
         e.talks[s] = d.talks[s], e.task[s] = d.task[s],
         Observed(e, s) \subseteq e.identity, Present(d, s) => e.account
  PROVE  SourceOk(e, s)
<1>1. Present(e, s) <=> Present(d, s)
  BY DEF Present
<1>2. Integrity(d, s) => Integrity(e, s)
  BY IntegrityKept
<1>3. RunLoads(d, s) => RunLoads(e, s)
  BY DEF RunLoads
<1> QED BY <1>1, <1>2, <1>3 DEF SourceOk

(* The resources a source names are those of its rows.                      *)
LEMMA ObservedSame ==
  ASSUME NEW d, NEW e, NEW s, e.rows[s] = d.rows[s], e.talks[s] = d.talks[s]
  PROVE  Observed(e, s) = Observed(d, s)
BY DEF Observed

-----------------------------------------------------------------------------
(* What an operation may do to a source: n is the session it issues.        *)
Goes(d, e, s, n) ==
  /\ e.run[s].phase = "importing" =>
        e.run[s].session = n \/ (d.run[s].phase = "importing" /\ d.run[s].session = e.run[s].session)
  /\ Present(d, s) \/ d.task[s] # "none" => Present(e, s) \/ e.task[s] # "none"
  /\ e.task[s] = "none" => d.task[s] = "none"
  /\ Present(d, s) /\ Present(e, s) =>
        /\ d.run[s].rev <= e.run[s].rev
        /\ d.run[s].rev = e.run[s].rev => e.rows[s] = d.rows[s] /\ e.talks[s] = d.talks[s]
Steps(d, e, n) == DbOk(e) /\ \A s \in Source : Goes(d, e, s, n)

(* The fields of the run a source does not have.                            *)
LEMMA NoRunIs ==
  /\ NoRun \in RunForm /\ NoRun.phase = "none" /\ NoRun.code = None /\ NoRun.rev = 0 /\ NoRun.items = 0
  /\ NoRun.receipts = <<>> /\ NoRun.warned = 0 /\ NoRun.session = None
<1>1. <<>> \in Seq([batch : BatchForm, items : Nat])
  OBVIOUS
<1> QED BY <1>1 DEF NoRun, RunForm, Phases, Codes

(* The fields of a content of DbForm, source by source.                     *)
LEMMA FormIs ==
  ASSUME NEW d \in DbForm, NEW s \in Source
  PROVE  /\ d.run[s] \in RunForm /\ d.source[s] \in SourceForm /\ d.run[s].rev \in Nat /\ d.run[s].items \in Nat
         /\ d.run[s].warned \in Nat /\ d.run[s].receipts \in Receipts /\ d.source[s].state \in States
         /\ d.rows[s] \subseteq Row /\ d.talks[s] \subseteq Talk
<1>1. d.run[s] \in RunForm /\ d.source[s] \in SourceForm /\ d.rows[s] \subseteq Row /\ d.talks[s] \subseteq Talk
  BY DEF DbForm
<1> QED BY <1>1 DEF RunForm, SourceForm, Receipts

(* A source whose columns are as they were has gone nowhere.                *)
LEMMA SameGoes ==
  ASSUME NEW d \in DbForm, NEW e, NEW s \in Source, NEW n, e.run[s] = d.run[s], e.source[s] = d.source[s],
         e.rows[s] = d.rows[s], e.talks[s] = d.talks[s], e.task[s] = d.task[s]
  PROVE  Goes(d, e, s, n)
<1>1. Present(e, s) <=> Present(d, s)
  BY DEF Present
<1>2. d.run[s].rev \in Nat
  BY FormIs
<1> QED BY <1>1, <1>2 DEF Goes

(* A refusal is a step.                                                     *)
LEMMA NothingDone ==
  ASSUME NEW d, DbOk(d), NEW n
  PROVE  Steps(d, d, n)
<1>1. d \in DbForm
  BY DEF DbOk
<1>2. \A s \in Source : Goes(d, d, s, n)
  BY <1>1, SameGoes
<1> QED BY <1>2 DEF Steps

(* A change of phase.                                                       *)
LEMMA MoveSteps ==
  ASSUME NEW d, DbOk(d), NEW s \in Source, NEW run \in RunForm, NEW n,
         Present(d, s), d.run[s] # NoRun,
         run.rev = d.run[s].rev, run.items = d.run[s].items, run.receipts = d.run[s].receipts,
         run.warned = d.run[s].warned, run.phase # "none",
         run.phase = "failed" <=> run.code # None,
         run.phase = "importing" => run.session = n
  PROVE  LET e == Move(d, s, run)
         IN Steps(d, e, n) /\ e.rows = d.rows /\ e.task = d.task /\ e.run[s].phase = run.phase
            /\ \A x \in Source \ {s} : e.run[x] = d.run[x]
<1> DEFINE e == Move(d, s, run)
<1>0. d \in DbForm /\ SourceOk(d, s) /\ (d.identity # {} => d.account)
  BY DEF DbOk
<1>1. /\ e \in DbForm /\ e.run[s] = Raised(run)
      /\ e.source[s].state = StateOf(run.phase)
      /\ e.source[s].print = d.source[s].print /\ e.source[s].mapped = d.source[s].mapped
      /\ \A x \in Source \ {s} : e.run[x] = d.run[x] /\ e.source[x] = d.source[x]
  BY <1>0, MovedIs
<1>2. /\ e.account = d.account /\ e.rows = d.rows /\ e.talks = d.talks
      /\ e.identity = d.identity /\ e.task = d.task
  BY <1>0, MovedIs
<1> HIDE DEF e
<1>3. /\ e.run[s].rev = d.run[s].rev + 1 /\ e.run[s].phase = run.phase /\ e.run[s].session = run.session
      /\ e.run[s].code = run.code /\ e.run[s].items = d.run[s].items
      /\ e.run[s].receipts = d.run[s].receipts /\ e.run[s].warned = d.run[s].warned
  BY <1>1, RaisedIs
<1>4. StateOf(run.phase) # "absent" /\ Present(e, s)
  BY <1>1 DEF StateOf, Present
<1>5. e.run[s] # NoRun
  BY <1>3, NoRunIs
<1>6. SourceOk(e, s)
  <2>1. RunLoads(e, s)
    BY <1>0, <1>3 DEF SourceOk, RunLoads
  <2>2. Integrity(e, s)
    BY <1>0, <1>2, <1>3, IntegrityKept DEF SourceOk
  <2>3. Observed(e, s) = Observed(d, s)
    BY <1>2, ObservedSame
  <2> QED BY <1>0, <1>1, <1>2, <1>3, <1>4, <1>5, <2>1, <2>2, <2>3 DEF SourceOk
<1>7. ASSUME NEW x \in Source \ {s} PROVE SourceOk(e, x) /\ Goes(d, e, x, n)
  <2>1. SourceOk(d, x)
    BY DEF DbOk
  <2>2. Observed(e, x) = Observed(d, x)
    BY <1>2, ObservedSame
  <2>3. SourceOk(e, x)
    <3>1. Observed(e, x) \subseteq e.identity /\ (Present(d, x) => e.account)
      BY <1>2, <2>1, <2>2 DEF SourceOk
    <3> QED BY <1>1, <1>2, <2>1, <3>1, SourceKept
  <2>4. Goes(d, e, x, n)
    BY <1>0, <1>1, <1>2, SameGoes
  <2> QED BY <2>3, <2>4
<1>8. Goes(d, e, s, n)
  <2>1. d.run[s].rev \in Nat
    BY <1>0, FormIs
  <2> QED BY <1>2, <1>3, <1>4, <2>1 DEF Goes
<1>9. DbOk(e)
  BY <1>0, <1>1, <1>2, <1>6, <1>7 DEF DbOk
<1>10. Steps(d, e, n)
  BY <1>7, <1>8, <1>9 DEF Steps
<1> QED BY <1>1, <1>2, <1>3, <1>10 DEF e

-----------------------------------------------------------------------------
(* The calls that end a session, and the one that starts another.           *)
LEMMA ActiveIs ==
  ASSUME NEW d, NEW k
  PROVE  /\ ActiveSession(d, k) = "ok" =>
               /\ Present(d, k.source) /\ d.run[k.source] # NoRun
               /\ d.run[k.source].session = k.id /\ d.run[k.source].phase = "importing"
         /\ ActiveSession(d, k) # "IncompleteSource"
BY DEF ActiveSession

Ended(d, k, r, n) ==
  /\ Steps(d, r.db, n) /\ r.db.rows = d.rows
  /\ r.error \in {"ok", "IncompleteSource"} => r.db.run[k.source].phase # "importing"

(* A refusal leaves the content as it is.                                   *)
LEMMA RefusedIs ==
  ASSUME NEW d, NEW error
  PROVE  Refuse(d, error).db = d /\ Refuse(d, error).error = error /\ Refuse(d, error).reply = None
BY DEF Refuse

(* A reply without a write leaves the content as it is.                     *)
LEMMA CommittedIs ==
  ASSUME NEW d, NEW reply
  PROVE  Commit(d, reply).db = d /\ Commit(d, reply).error = "ok" /\ Commit(d, reply).reply = reply
BY DEF Commit

(* A refused call ends no session.                                          *)
LEMMA RefusedEnds ==
  ASSUME NEW d, DbOk(d), NEW k, NEW n, NEW error, error \notin {"ok", "IncompleteSource"}
  PROVE  Ended(d, k, Refuse(d, error), n)
BY NothingDone, RefusedIs DEF Ended

(* A run with another phase.                                                *)
Finished(run, ph, c, m) == [run EXCEPT !.phase = ph, !.code = c, !.missing = m]
Failed(run) == [run EXCEPT !.phase = "failed", !.code = "storage_failure"]

(* A finished run, field by field.                                          *)
LEMMA PhaseIs ==
  ASSUME NEW run \in RunForm, NEW ph \in Phases, NEW c \in Codes, NEW m \in Nat
  PROVE  LET r == Finished(run, ph, c, m)
         IN /\ r \in RunForm /\ r.phase = ph /\ r.code = c /\ r.rev = run.rev /\ r.items = run.items
            /\ r.receipts = run.receipts /\ r.warned = run.warned /\ r.session = run.session
BY DEF RunForm, Finished

(* A run with another phase, field by field.                                *)
LEMMA PhaseOnlyIs ==
  ASSUME NEW run \in RunForm, NEW ph \in Phases
  PROVE  LET r == [run EXCEPT !.phase = ph]
         IN /\ r \in RunForm /\ r.phase = ph /\ r.code = run.code /\ r.rev = run.rev /\ r.items = run.items
            /\ r.receipts = run.receipts /\ r.warned = run.warned /\ r.session = run.session
BY DEF RunForm

(* A failed run, field by field.                                            *)
LEMMA FailedIs ==
  ASSUME NEW run \in RunForm
  PROVE  LET r == Failed(run)
         IN /\ r \in RunForm /\ r.phase = "failed" /\ r.code = "storage_failure" /\ r.rev = run.rev
            /\ r.items = run.items
            /\ r.receipts = run.receipts /\ r.warned = run.warned /\ r.session = run.session
BY DEF RunForm, Failed, Phases, Codes

(* A run given to another session, field by field.                          *)
LEMMA SessionIs ==
  ASSUME NEW run \in RunForm, NEW n \in Nat
  PROVE  LET r == [run EXCEPT !.session = n, !.phase = "importing", !.code = None]
         IN /\ r \in RunForm /\ r.phase = "importing" /\ r.code = None /\ r.rev = run.rev /\ r.items = run.items
            /\ r.receipts = run.receipts /\ r.warned = run.warned /\ r.session = n
BY DEF RunForm, Phases, Codes

(* The references counted by collect_warnings are finitely many.            *)
LEMMA MissingIsANumber ==
  ASSUME NEW d, NEW s, Keyed(d.rows[s])
  PROVE  MissingReplies(d, s) \in Nat
<1> DEFINE lost == {r \in d.rows[s] : r.reply # None /\ r.reply \notin Ids(d.rows[s])}
<1>1. lost \in SUBSET d.rows[s] /\ IsFiniteSet(d.rows[s])
  BY DEF Keyed
<1>2. IsFiniteSet(lost)
  <2> HIDE DEF lost
  <2> QED BY <1>1, FS_Subset
<1>3. Cardinality(lost) \in Nat
  <2> HIDE DEF lost
  <2> QED BY <1>2, FS_CardinalityType
<1> QED BY <1>3 DEF MissingReplies

(* An import under way has no failure code.                                 *)
LEMMA ImportingHasNoCode ==
  ASSUME NEW d, DbOk(d), NEW s \in Source, d.run[s].phase = "importing"
  PROVE  d.run[s].code = None
<1>1. d.run[s] # NoRun /\ SourceOk(d, s)
  BY NoRunIs DEF DbOk
<1> QED BY <1>1 DEF SourceOk, RunLoads

(* finish_import: the session no longer holds its run once it has returned. *)
LEMMA FinishEnds ==
  ASSUME NEW d, DbOk(d), NEW k, k.source \in Source, NEW n
  PROVE  Ended(d, k, FinishImport(d, k), n)
<1> DEFINE s == k.source
           missing == Incomplete(d, s)
           ph == IF missing THEN "failed" ELSE "ready"
           c == IF missing THEN "incomplete_source" ELSE None
           m == MissingReplies(d, s)
           run == Finished(d.run[s], ph, c, m)
           r == FinishImport(d, k)
<1>1. CASE ActiveSession(d, k) # "ok"
  <2>1. FinishImport(d, k) = Refuse(d, ActiveSession(d, k))
    BY <1>1 DEF FinishImport
  <2> QED BY <1>1, <2>1, RefusedEnds, ActiveIs
<1>2. CASE ActiveSession(d, k) = "ok"
  <2>1. /\ r.db = Move(d, s, run) /\ r.error = IF missing THEN "IncompleteSource" ELSE "ok"
    BY <1>2 DEF FinishImport, Finished
  <2>2. d \in DbForm /\ SourceOk(d, s)
    BY DEF DbOk
  <2>3. d.run[s] \in RunForm /\ m \in Nat
    BY <2>2, FormIs, MissingIsANumber DEF SourceOk
  <2>4. ph \in {"failed", "ready"} /\ c \in Codes
        /\ (ph = "failed" <=> c # None)
    BY ArchiveDbAssumption DEF Codes
  <2>5. ph \in Phases
    BY <2>4 DEF Phases
  <2> HIDE DEF ph, c, m, r, missing
  <2>6. /\ run \in RunForm /\ run.phase = ph /\ run.code = c /\ run.rev = d.run[s].rev
        /\ run.items = d.run[s].items /\ run.receipts = d.run[s].receipts /\ run.warned = d.run[s].warned
    BY <2>3, <2>4, <2>5, PhaseIs
  <2> HIDE DEF run
  <2>7. Present(d, s) /\ d.run[s] # NoRun
    BY <1>2, ActiveIs
  <2>8. /\ Steps(d, Move(d, s, run), n) /\ Move(d, s, run).rows = d.rows
        /\ Move(d, s, run).run[s].phase = run.phase
    BY <2>4, <2>6, <2>7, MoveSteps
  <2>9. Ended(d, k, r, n)
    BY <2>1, <2>4, <2>6, <2>8 DEF Ended
  <2> QED BY <2>9 DEF r
<1> QED BY <1>1, <1>2

(* cancel_import likewise.                                                  *)
LEMMA CancelEnds ==
  ASSUME NEW d, DbOk(d), NEW k, k.source \in Source, NEW n
  PROVE  Ended(d, k, CancelImport(d, k), n)
<1> DEFINE s == k.source
           run == [d.run[s] EXCEPT !.phase = "cancelled"]
           r == CancelImport(d, k)
<1>1. CASE ActiveSession(d, k) # "ok"
  <2>1. CancelImport(d, k) = Refuse(d, ActiveSession(d, k))
    BY <1>1 DEF CancelImport
  <2> QED BY <1>1, <2>1, RefusedEnds, ActiveIs
<1>2. CASE ActiveSession(d, k) = "ok"
  <2>1. r.db = Move(d, s, run)
    BY <1>2 DEF CancelImport, Commit
  <2>2. d \in DbForm
    BY DEF DbOk
  <2>3. d.run[s] \in RunForm /\ "cancelled" \in Phases
    BY <2>2, FormIs DEF Phases
  <2>4. Present(d, s) /\ d.run[s] # NoRun /\ d.run[s].code = None
    BY <1>2, ActiveIs, ImportingHasNoCode
  <2>6. /\ run \in RunForm /\ run.phase = "cancelled" /\ run.code = None /\ run.rev = d.run[s].rev
        /\ run.items = d.run[s].items /\ run.receipts = d.run[s].receipts /\ run.warned = d.run[s].warned
    BY <2>3, <2>4, PhaseOnlyIs
  <2> HIDE DEF run, r
  <2>8. /\ Steps(d, Move(d, s, run), n) /\ Move(d, s, run).rows = d.rows
        /\ Move(d, s, run).run[s].phase = run.phase
    BY <2>4, <2>6, MoveSteps
  <2>9. Ended(d, k, r, n)
    BY <2>1, <2>6, <2>8 DEF Ended
  <2> QED BY <2>9 DEF r
<1> QED BY <1>1, <1>2

(* fail_import likewise.                                                    *)
LEMMA FailEnds ==
  ASSUME NEW d, DbOk(d), NEW k, k.source \in Source, NEW n
  PROVE  Ended(d, k, FailImport(d, k, "storage_failure"), n)
<1> DEFINE s == k.source
           run == Failed(d.run[s])
           r == FailImport(d, k, "storage_failure")
<1>1. CASE ActiveSession(d, k) # "ok"
  <2>1. r = Refuse(d, ActiveSession(d, k))
    BY <1>1 DEF FailImport
  <2> QED BY <1>1, <2>1, RefusedEnds, ActiveIs
<1>2. CASE ActiveSession(d, k) = "ok"
  <2>1. r.db = Move(d, s, run)
    BY <1>2 DEF FailImport, Commit, Failed
  <2>2. d \in DbForm
    BY DEF DbOk
  <2>3. d.run[s] \in RunForm /\ "failed" \in Phases /\ "storage_failure" # None
        /\ "storage_failure" \in Codes
    BY <2>2, FormIs, ArchiveDbAssumption DEF Phases, Codes
  <2>4. Present(d, s) /\ d.run[s] # NoRun
    BY <1>2, ActiveIs
  <2>6. /\ run \in RunForm /\ run.phase = "failed" /\ run.code = "storage_failure" /\ run.rev = d.run[s].rev
        /\ run.items = d.run[s].items /\ run.receipts = d.run[s].receipts /\ run.warned = d.run[s].warned
    BY <2>3, <2>4, FailedIs
  <2> HIDE DEF run, r
  <2>8. /\ Steps(d, Move(d, s, run), n) /\ Move(d, s, run).rows = d.rows
        /\ Move(d, s, run).run[s].phase = run.phase
    BY <2>3, <2>4, <2>6, MoveSteps
  <2>9. Ended(d, k, r, n)
    BY <2>1, <2>6, <2>8 DEF Ended
  <2> QED BY <2>9 DEF r
<1> QED BY <1>1, <1>2

(* retry_import gives the run to the new session, and moves no row.         *)
LEMMA RetrySteps ==
  ASSUME NEW d, DbOk(d), NEW s \in Source, NEW checkpoint, NEW n \in Nat
  PROVE  LET r == RetryImport(d, s, checkpoint, n)
         IN Steps(d, r.db, n) /\ r.db.rows = d.rows
<1> DEFINE r == RetryImport(d, s, checkpoint, n)
           run == [d.run[s] EXCEPT !.session = n, !.phase = "importing", !.code = None]
<1>1. \/ r.db = d
      \/ Present(d, s) /\ d.run[s] # NoRun /\ r.db = Move(d, s, run)
  BY DEF RetryImport, Refuse, Commit
<1>2. CASE r.db = d
  BY <1>2, NothingDone
<1>3. CASE Present(d, s) /\ d.run[s] # NoRun /\ r.db = Move(d, s, run)
  <2>1. d.run[s] \in RunForm
    BY FormIs DEF DbOk
  <2>2. /\ run \in RunForm /\ run.phase = "importing" /\ run.code = None /\ run.rev = d.run[s].rev
        /\ run.items = d.run[s].items /\ run.receipts = d.run[s].receipts /\ run.warned = d.run[s].warned
        /\ run.session = n
    BY <2>1, SessionIs
  <2> HIDE DEF run, r
  <2>3. Steps(d, Move(d, s, run), n) /\ Move(d, s, run).rows = d.rows
    BY <1>3, <2>2, MoveSteps
  <2>4. Steps(d, r.db, n) /\ r.db.rows = d.rows
    BY <1>3, <2>3
  <2> QED BY <2>4 DEF r
<1> QED BY <1>1, <1>2, <1>3

-----------------------------------------------------------------------------
(* A write to one source.                                                   *)
LEMMA OneSource ==
  ASSUME NEW d, DbOk(d), NEW e \in DbForm, NEW s \in Source, NEW n,
         \A x \in Source \ {s} : /\ e.run[x] = d.run[x] /\ e.source[x] = d.source[x] /\ e.rows[x] = d.rows[x]
                                 /\ e.talks[x] = d.talks[x] /\ e.task[x] = d.task[x]
                                 /\ Observed(d, x) \subseteq e.identity /\ (Present(d, x) => e.account),
         e.identity # {} => e.account,
         SourceOk(e, s), Goes(d, e, s, n)
  PROVE  Steps(d, e, n)
<1>1. ASSUME NEW x \in Source \ {s} PROVE SourceOk(e, x) /\ Goes(d, e, x, n)
  <2>1. SourceOk(d, x) /\ d \in DbForm
    BY DEF DbOk
  <2>2. Observed(e, x) = Observed(d, x)
    BY ObservedSame
  <2>3. SourceOk(e, x)
    BY <2>1, <2>2, SourceKept
  <2>4. Goes(d, e, x, n)
    BY <2>1, SameGoes
  <2> QED BY <2>3, <2>4
<1>2. \A x \in Source : SourceOk(e, x) /\ Goes(d, e, x, n)
  BY <1>1
<1> QED BY <1>2 DEF Steps, DbOk

NewRun(n) == [NoRun EXCEPT !.phase = "importing", !.session = n]

(* A run just created, field by field.                                      *)
LEMMA NewRunIs ==
  ASSUME NEW n \in Nat
  PROVE  LET r == NewRun(n)
         IN /\ r \in RunForm /\ r.phase = "importing" /\ r.session = n /\ r.code = None /\ r.rev = 0 /\ r.items = 0
            /\ r.receipts = <<>> /\ r.warned = 0 /\ r # NoRun
<1>1. <<>> \in Seq([batch : BatchForm, items : Nat])
  OBVIOUS
<1> QED BY <1>1 DEF NewRun, NoRun, RunForm, Phases, Codes

(* What CreateRun writes.                                                   *)
LEMMA CreatedIs ==
  ASSUME NEW d \in DbForm, NEW s \in Source, NEW n \in Nat
  PROVE  LET e == CreateRun(d, s, n)
         IN /\ e \in DbForm /\ e.run[s] = NewRun(n) /\ \A x \in Source \ {s} : e.run[x] = d.run[x]
            /\ e.account = d.account /\ e.source = d.source /\ e.rows = d.rows /\ e.talks = d.talks
            /\ e.identity = d.identity /\ e.task = d.task
<1>1. CreateRun(d, s, n) = [d EXCEPT !.run[s] = NewRun(n)]
  BY DEF CreateRun, NewRun
<1>2. NewRun(n) \in RunForm
  BY NewRunIs
<1> QED BY <1>1, <1>2 DEF DbForm

NewSource(d, s, x) == [Account(d) EXCEPT !.source[s] = x]

(* The account row is written, and nothing else.                            *)
LEMMA AccountIs ==
  ASSUME NEW d \in DbForm
  PROVE  /\ Account(d) \in DbForm /\ Account(d).account
         /\ Account(d).source = d.source /\ Account(d).run = d.run /\ Account(d).rows = d.rows
         /\ Account(d).talks = d.talks /\ Account(d).identity = d.identity /\ Account(d).task = d.task
BY DEF Account, DbForm

SourceTo(d, s, x) == [d EXCEPT !.source[s] = x]
(* One source written, field by field.                                      *)
LEMMA SourceToIs ==
  ASSUME NEW d \in DbForm, NEW s \in Source, NEW x \in SourceForm
  PROVE  LET e == SourceTo(d, s, x)
         IN /\ e \in DbForm /\ e.source[s] = x /\ \A y \in Source \ {s} : e.source[y] = d.source[y]
            /\ e.account = d.account /\ e.run = d.run /\ e.rows = d.rows /\ e.talks = d.talks
            /\ e.identity = d.identity /\ e.task = d.task
BY DEF SourceTo, DbForm

(* A source registered together with the account.                           *)
LEMMA NewSourceIs ==
  ASSUME NEW d \in DbForm, NEW s \in Source, NEW x \in SourceForm
  PROVE  LET e == NewSource(d, s, x)
         IN /\ e \in DbForm /\ e.account /\ e.source[s] = x
            /\ \A y \in Source \ {s} : e.source[y] = d.source[y]
            /\ e.run = d.run /\ e.rows = d.rows /\ e.talks = d.talks
            /\ e.identity = d.identity /\ e.task = d.task
<1> DEFINE a == Account(d)
           e == SourceTo(a, s, x)
<1>1. NewSource(d, s, x) = e
  BY DEF NewSource, SourceTo
<1>2. /\ a \in DbForm /\ a.account /\ a.source = d.source /\ a.run = d.run /\ a.rows = d.rows
      /\ a.talks = d.talks /\ a.identity = d.identity /\ a.task = d.task
  BY AccountIs
<1> HIDE DEF a
<1>3. e \in DbForm /\ e.source[s] = x
  BY <1>2, SourceToIs
<1>6. e.account
  BY <1>2, SourceToIs
<1>4. \A y \in Source \ {s} : e.source[y] = a.source[y]
  BY <1>2, SourceToIs
<1>5. e.run = a.run /\ e.rows = a.rows /\ e.talks = a.talks /\ e.identity = a.identity /\ e.task = a.task
  BY <1>2, SourceToIs
<1> HIDE DEF e
<1> QED BY <1>1, <1>2, <1>3, <1>4, <1>5, <1>6

(* A run just created on a source without rows.                             *)
LEMMA FreshRun ==
  ASSUME NEW e, NEW s, NEW n \in Nat, e.run[s] = NewRun(n), e.rows[s] = {}, Keyed(e.talks[s]),
         Observed(e, s) \subseteq e.identity, e.account, e.task[s] = "none",
         e.source[s].state = "preparing"
  PROVE  SourceOk(e, s)
<1>1. Keyed({})
  BY FS_EmptySet DEF Keyed
<1>2. RunLoads(e, s)
  BY NewRunIs, ArchiveDbAssumption DEF RunLoads
<1>3. e.run[s].receipts = <<>> /\ e.run[s].items = 0 /\ e.run[s].warned = 0
  BY NewRunIs
<1>4. Cardinality(e.rows[s]) = 0
  BY FS_EmptySet
<1>5. Integrity(e, s)
  BY <1>3, <1>4, NoWarnings DEF Integrity, Sums
<1>6. StateOf(e.run[s].phase) = "preparing"
  BY NewRunIs DEF StateOf
<1>7. Present(e, s) /\ e.run[s] # NoRun
  BY NewRunIs DEF Present
<1> QED BY <1>1, <1>2, <1>5, <1>6, <1>7 DEF SourceOk

(* begin_import moves no row.                                               *)
LEMMA BeginSteps ==
  ASSUME NEW d, DbOk(d), NEW s \in Source, NEW n \in Nat
  PROVE  LET r == BeginImport(d, s, n)
         IN Steps(d, r.db, n) /\ r.db.rows = d.rows
<1> DEFINE r == BeginImport(d, s, n)
           e == CreateRun(d, s, n)
<1>1. \/ r.db = d
      \/ Present(d, s) /\ d.source[s].state = "preparing" /\ d.run[s] = NoRun /\ r.db = e
  BY DEF BeginImport, Refuse, Commit
<1>2. CASE r.db = d
  BY <1>2, NothingDone
<1>3. CASE Present(d, s) /\ d.source[s].state = "preparing" /\ d.run[s] = NoRun /\ r.db = e
  <2>1. d \in DbForm /\ SourceOk(d, s) /\ (d.identity # {} => d.account)
    BY DEF DbOk
  <2>2. /\ e \in DbForm /\ e.run[s] = NewRun(n) /\ \A x \in Source \ {s} : e.run[x] = d.run[x]
        /\ e.account = d.account /\ e.source = d.source /\ e.rows = d.rows /\ e.talks = d.talks
        /\ e.identity = d.identity /\ e.task = d.task
    BY <2>1, CreatedIs
  <2> HIDE DEF e, r
  <2>3. Observed(e, s) = Observed(d, s)
    BY <2>2, ObservedSame
  <2>4. SourceOk(e, s)
    BY <1>3, <2>1, <2>2, <2>3, FreshRun DEF SourceOk
  <2>5. Goes(d, e, s, n)
    <3>1. e.run[s].session = n /\ e.run[s].rev = 0 /\ d.run[s].rev = 0
      BY <1>3, <2>2, NewRunIs, NoRunIs
    <3>2. Present(e, s)
      BY <1>3, <2>2 DEF Present
    <3> QED BY <2>2, <3>1, <3>2 DEF Goes
  <2>6. \A x \in Source : SourceOk(d, x)
    BY DEF DbOk
  <2>7. Steps(d, e, n)
    <3>1. \A x \in Source \ {s} : Observed(d, x) \subseteq e.identity /\ (Present(d, x) => e.account)
      BY <2>2, <2>6 DEF SourceOk
    <3> QED BY <2>1, <2>2, <2>4, <2>5, <3>1, OneSource
  <2>8. Steps(d, r.db, n) /\ r.db.rows = d.rows
    BY <1>3, <2>2, <2>7
  <2> QED BY <2>8 DEF r
<1> QED BY <1>1, <1>2, <1>3

(* register_source moves no row.                                            *)
LEMMA RegisterSteps ==
  ASSUME NEW d, DbOk(d), NEW s \in Source, NEW print \in Archive, NEW n \in Nat
  PROVE  LET r == RegisterSource(d, s, print)
         IN Steps(d, r.db, n) /\ r.db.rows = d.rows
<1> DEFINE r == RegisterSource(d, s, print)
           y == [state |-> "preparing", print |-> print, mapped |-> FALSE]
           e == NewSource(d, s, y)
<1>1. \/ r.db = d
      \/ d.task[s] = "none" /\ ~Present(d, s) /\ r.db = e
  BY DEF RegisterSource, Refuse, Commit, NewSource
<1>2. CASE r.db = d
  BY <1>2, NothingDone
<1>3. CASE d.task[s] = "none" /\ ~Present(d, s) /\ r.db = e
  <2>1. d \in DbForm /\ SourceOk(d, s)
    BY DEF DbOk
  <2>0. y \in SourceForm /\ y.state = "preparing" /\ ~y.mapped
    BY DEF SourceForm, States
  <2> HIDE DEF y
  <2>2. /\ e \in DbForm /\ e.account /\ e.source[s] = y
        /\ \A x \in Source \ {s} : e.source[x] = d.source[x]
        /\ e.run = d.run /\ e.rows = d.rows /\ e.talks = d.talks
        /\ e.identity = d.identity /\ e.task = d.task
    <3>1. e \in DbForm /\ e.account /\ e.source[s] = y
      BY <2>0, <2>1, NewSourceIs
    <3>2. \A x \in Source \ {s} : e.source[x] = d.source[x]
      BY <2>0, <2>1, NewSourceIs
    <3>3. /\ e.run = d.run /\ e.rows = d.rows /\ e.talks = d.talks
          /\ e.identity = d.identity /\ e.task = d.task
      BY <2>0, <2>1, NewSourceIs
    <3> HIDE DEF e
    <3> QED BY <3>1, <3>2, <3>3
  <2> HIDE DEF e, r
  <2>3. Observed(e, s) = Observed(d, s)
    BY <2>2, ObservedSame
  <2>4. SourceOk(e, s)
    BY <1>3, <2>0, <2>1, <2>2, <2>3 DEF SourceOk
  <2>5. Goes(d, e, s, n)
    <3>1. e.run[s].phase # "importing"
      BY <1>3, <2>1, <2>2, NoRunIs DEF SourceOk
    <3>2. Present(e, s)
      BY <2>0, <2>2 DEF Present
    <3> QED BY <1>3, <2>2, <3>1, <3>2 DEF Goes
  <2>6. \A x \in Source : SourceOk(d, x)
    BY DEF DbOk
  <2>7. Steps(d, e, n)
    <3>1. \A x \in Source \ {s} : Observed(d, x) \subseteq e.identity /\ (Present(d, x) => e.account)
      BY <2>2, <2>6 DEF SourceOk
    <3> QED BY <2>1, <2>2, <2>4, <2>5, <3>1, OneSource
  <2>8. Steps(d, r.db, n) /\ r.db.rows = d.rows
    BY <1>3, <2>2, <2>7
  <2> QED BY <2>8 DEF r
<1> QED BY <1>1, <1>2, <1>3

(* resolve_or_register moves no row and replies with a source there is.     *)
LEMMA ResolveSteps ==
  ASSUME NEW d, DbOk(d), NEW fresh \in Source, NEW print \in Archive, NEW n \in Nat,
         MappedTo(d, print) = {} => ~Present(d, fresh) /\ d.task[fresh] = "none"
  PROVE  LET r == ResolveOrRegister(d, print, fresh, n)
         IN Steps(d, r.db, n) /\ r.db.rows = d.rows /\ r.reply.source \in Source
<1> DEFINE r == ResolveOrRegister(d, print, fresh, n)
           y == [state |-> "preparing", print |-> print, mapped |-> TRUE]
           b == NewSource(d, fresh, y)
           e == CreateRun(b, fresh, n)
           old == CHOOSE x \in MappedTo(d, print) : TRUE
<1>1. CASE MappedTo(d, print) # {}
  <2>1. r.db = d /\ r.reply.source = old
    BY <1>1 DEF ResolveOrRegister, Commit
  <2>2. old \in MappedTo(d, print)
    BY <1>1
  <2>3. old \in Source
    BY <2>2 DEF MappedTo
  <2> QED BY <2>1, <2>3, NothingDone
<1>2. CASE MappedTo(d, print) = {}
  <2>1. d \in DbForm /\ SourceOk(d, fresh)
    BY DEF DbOk
  <2>9. r.db = e /\ r.reply.source = fresh
    BY <1>2 DEF ResolveOrRegister, Commit, NewSource
  <2>0. y \in SourceForm /\ y.state = "preparing"
    BY DEF SourceForm, States
  <2> HIDE DEF y
  <2>2. /\ b \in DbForm /\ b.account /\ b.source[fresh] = y
        /\ \A x \in Source \ {fresh} : b.source[x] = d.source[x]
        /\ b.run = d.run /\ b.rows = d.rows /\ b.talks = d.talks
        /\ b.identity = d.identity /\ b.task = d.task
    <3>1. b \in DbForm /\ b.account /\ b.source[fresh] = y
      BY <2>0, <2>1, NewSourceIs
    <3>2. \A x \in Source \ {fresh} : b.source[x] = d.source[x]
      BY <2>0, <2>1, NewSourceIs
    <3>3. /\ b.run = d.run /\ b.rows = d.rows /\ b.talks = d.talks
          /\ b.identity = d.identity /\ b.task = d.task
      BY <2>0, <2>1, NewSourceIs
    <3> HIDE DEF b
    <3> QED BY <3>1, <3>2, <3>3
  <2> HIDE DEF b
  <2>3. /\ e \in DbForm /\ e.run[fresh] = NewRun(n) /\ \A x \in Source \ {fresh} : e.run[x] = b.run[x]
        /\ e.account = b.account /\ e.source = b.source /\ e.rows = b.rows /\ e.talks = b.talks
        /\ e.identity = b.identity /\ e.task = b.task
    BY <2>2, CreatedIs
  <2> HIDE DEF e, r
  <2>4. /\ e.rows = d.rows /\ e.talks = d.talks /\ e.identity = d.identity /\ e.task = d.task
        /\ e.account /\ e.source[fresh] = y
    BY <2>2, <2>3
  <2>5. Observed(e, fresh) = Observed(d, fresh)
    BY <2>4, ObservedSame
  <2>6. SourceOk(e, fresh)
    <3>1. e.rows[fresh] = {} /\ Keyed(e.talks[fresh]) /\ Observed(e, fresh) \subseteq e.identity
      BY <1>2, <2>1, <2>4, <2>5 DEF SourceOk
    <3> QED BY <1>2, <2>0, <2>3, <2>4, <3>1, FreshRun
  <2>7. Goes(d, e, fresh, n)
    <3>1. e.run[fresh].session = n
      BY <2>3, NewRunIs
    <3>2. Present(e, fresh)
      BY <2>0, <2>4 DEF Present
    <3> QED BY <1>2, <2>4, <3>1, <3>2 DEF Goes
  <2>8. Steps(d, e, n)
    <3>1. \A x \in Source : SourceOk(d, x)
      BY DEF DbOk
    <3>2. \A x \in Source \ {fresh} :
             /\ e.run[x] = d.run[x] /\ e.source[x] = d.source[x]
             /\ Observed(d, x) \subseteq e.identity /\ (Present(d, x) => e.account)
      BY <2>2, <2>3, <2>4, <3>1 DEF SourceOk
    <3> QED BY <2>3, <2>4, <2>6, <2>7, <3>2, OneSource
  <2>10. Steps(d, r.db, n) /\ r.db.rows = d.rows /\ r.reply.source \in Source
    BY <2>4, <2>8, <2>9
  <2> QED BY <2>10 DEF r
<1> QED BY <1>1, <1>2

-----------------------------------------------------------------------------
(* A batch.                                                                 *)
Written(d, s, b) == [d EXCEPT !.rows[s] = Upsert(@, b.contents),
                              !.talks[s] = Upsert(@, b.talks),
                              !.identity = @ \cup {<<"content", i>> : i \in Ids(b.contents)}
                                             \cup {<<"conversation", c>> : c \in Ids(b.talks)}]
AppendedRun(run, items, b) == [run EXCEPT !.items = items, !.receipts = Append(@, Receipt(b, items)),
                                          !.warned = @ + b.warnings]
(* The three columns a batch writes.                                        *)
Filled(d, rows, talks, identity) == [d EXCEPT !.rows = rows, !.talks = talks, !.identity = identity]

(* The three tables of observations written, field by field.                *)
LEMMA FilledIs ==
  ASSUME NEW d \in DbForm, NEW rows \in [Source -> SUBSET Row], NEW talks \in [Source -> SUBSET Talk],
         NEW identity \in SUBSET ({"content", "conversation"} \X (Item \cup Context))
  PROVE  LET e == Filled(d, rows, talks, identity)
         IN /\ e \in DbForm /\ e.rows = rows /\ e.talks = talks /\ e.identity = identity
            /\ e.account = d.account /\ e.source = d.source /\ e.run = d.run /\ e.task = d.task
BY DEF Filled, DbForm

(* What an append writes in them: the columns of its own source.            *)
LEMMA WrittenIs ==
  ASSUME NEW d \in DbForm, NEW s \in Source, NEW b \in BatchForm
  PROVE  LET e == Written(d, s, b)
         IN /\ e \in DbForm
            /\ e.rows[s] = Upsert(d.rows[s], b.contents) /\ e.talks[s] = Upsert(d.talks[s], b.talks)
            /\ \A x \in Source \ {s} : e.rows[x] = d.rows[x] /\ e.talks[x] = d.talks[x]
            /\ e.identity = d.identity \cup {<<"content", i>> : i \in Ids(b.contents)}
                                       \cup {<<"conversation", c>> : c \in Ids(b.talks)}
            /\ e.account = d.account /\ e.source = d.source /\ e.run = d.run /\ e.task = d.task
<1> DEFINE new == d.identity \cup {<<"content", i>> : i \in Ids(b.contents)}
                             \cup {<<"conversation", c>> : c \in Ids(b.talks)}
           rows == [d.rows EXCEPT ![s] = Upsert(@, b.contents)]
           talks == [d.talks EXCEPT ![s] = Upsert(@, b.talks)]
           e == Filled(d, rows, talks, new)
<1>1. Written(d, s, b) = e
  BY DEF Written, Filled
<1>2. /\ d.rows \in [Source -> SUBSET Row] /\ d.talks \in [Source -> SUBSET Talk]
      /\ d.identity \in SUBSET ({"content", "conversation"} \X (Item \cup Context))
  BY DEF DbForm
<1>3. b.contents \subseteq Row /\ b.talks \subseteq Talk
  BY DEF BatchForm
<1>4. Upsert(d.rows[s], b.contents) \in SUBSET Row
  BY <1>2, <1>3 DEF Upsert
<1>5. Upsert(d.talks[s], b.talks) \in SUBSET Talk
  BY <1>2, <1>3 DEF Upsert
<1>6. rows \in [Source -> SUBSET Row] /\ rows[s] = Upsert(d.rows[s], b.contents)
      /\ \A x \in Source \ {s} : rows[x] = d.rows[x]
  BY <1>2, <1>4
<1>7. talks \in [Source -> SUBSET Talk] /\ talks[s] = Upsert(d.talks[s], b.talks)
      /\ \A x \in Source \ {s} : talks[x] = d.talks[x]
  BY <1>2, <1>5
<1>8. new \in SUBSET ({"content", "conversation"} \X (Item \cup Context))
  <2>1. Ids(b.contents) \subseteq Item
    BY <1>3 DEF Ids, Row
  <2>2. Ids(b.talks) \subseteq Context
    BY <1>3 DEF Ids, Talk
  <2> QED BY <1>2, <2>1, <2>2
<1> HIDE DEF rows, talks, new
<1>9. e \in DbForm /\ e.rows = rows /\ e.talks = talks /\ e.identity = new
  BY <1>6, <1>7, <1>8, FilledIs
<1>10. e.account = d.account /\ e.source = d.source /\ e.run = d.run /\ e.task = d.task
  BY <1>6, <1>7, <1>8, FilledIs
<1> HIDE DEF e
<1>11. e.rows[s] = Upsert(d.rows[s], b.contents) /\ e.talks[s] = Upsert(d.talks[s], b.talks)
       /\ \A x \in Source \ {s} : e.rows[x] = d.rows[x] /\ e.talks[x] = d.talks[x]
  BY <1>6, <1>7, <1>9
<1> QED BY <1>1, <1>9, <1>10, <1>11 DEF new

(* The run after an append, field by field.                                 *)
LEMMA AppendedRunIs ==
  ASSUME NEW run \in RunForm, NEW items \in Nat, NEW b \in BatchForm
  PROVE  LET r == AppendedRun(run, items, b)
         IN /\ r \in RunForm /\ r.items = items /\ r.receipts = Append(run.receipts, Receipt(b, items))
            /\ r.warned = run.warned + b.warnings /\ r.phase = run.phase /\ r.session = run.session
            /\ r.code = run.code /\ r.rev = run.rev
<1>1. Receipt(b, items) \in [batch : BatchForm, items : Nat] /\ b.warnings \in Nat
  BY DEF Receipt, BatchForm
<1>2. run.receipts \in Seq([batch : BatchForm, items : Nat]) /\ run.warned \in Nat
  BY DEF RunForm
<1>3. Append(run.receipts, Receipt(b, items)) \in Seq([batch : BatchForm, items : Nat])
      /\ run.warned + b.warnings \in Nat
  BY <1>1, <1>2
<1> QED BY <1>3 DEF AppendedRun, RunForm

(* A batch moves the rows of its own source, with one receipt.              *)
LEMMA AppendRowsSteps ==
  ASSUME NEW d, DbOk(d), NEW s \in Source, NEW b \in BatchForm, NEW n,
         Keyed(b.contents), Keyed(b.talks),
         Present(d, s), d.run[s].phase = "importing",
         d.run[s].items + NewItems(d, s, b) <= MaxItems
  PROVE  LET e == AppendRows(d, s, b)
         IN /\ Steps(d, e, n)
            /\ Len(e.run[s].receipts) = Len(d.run[s].receipts) + 1
            /\ \A x \in Source \ {s} : e.rows[x] = d.rows[x]
<1> DEFINE w == Written(d, s, b)
           new == NewItems(d, s, b)
           m == d.run[s].items + new
           run == AppendedRun(d.run[s], m, b)
           e == SaveRun(w, s, run)
<1>0. AppendRows(d, s, b) = e
  BY DEF AppendRows, Written, AppendedRun
<1>1. d \in DbForm /\ SourceOk(d, s) /\ (d.identity # {} => d.account) /\ \A x \in Source : SourceOk(d, x)
  BY DEF DbOk
<1>2. d.run[s] \in RunForm /\ d.run[s].items \in Nat /\ d.run[s].rev \in Nat /\ d.run[s].receipts \in Receipts
  BY <1>1, FormIs
<1>3. /\ Keyed(Upsert(d.rows[s], b.contents)) /\ Keyed(Upsert(d.talks[s], b.talks))
      /\ Ids(Upsert(d.rows[s], b.contents)) = Ids(d.rows[s]) \cup Ids(b.contents)
      /\ Ids(Upsert(d.talks[s], b.talks)) = Ids(d.talks[s]) \cup Ids(b.talks)
      /\ new \in Nat
      /\ Cardinality(Upsert(d.rows[s], b.contents)) = Cardinality(d.rows[s]) + new
  <2>1. Keyed(d.rows[s]) /\ Keyed(d.talks[s])
    BY <1>1 DEF SourceOk
  <2>2. new = Cardinality(Ids(b.contents) \ Ids(d.rows[s]))
    BY DEF NewItems
  <2> HIDE DEF new
  <2>3. /\ Keyed(Upsert(d.talks[s], b.talks))
        /\ Ids(Upsert(d.talks[s], b.talks)) = Ids(d.talks[s]) \cup Ids(b.talks)
    BY <2>1, Upserted
  <2>4. /\ Keyed(Upsert(d.rows[s], b.contents))
        /\ Ids(Upsert(d.rows[s], b.contents)) = Ids(d.rows[s]) \cup Ids(b.contents)
    BY <2>1, Upserted
  <2>5. new \in Nat /\ Cardinality(Upsert(d.rows[s], b.contents)) = Cardinality(d.rows[s]) + new
    BY <2>1, <2>2, Upserted
  <2> QED BY <2>3, <2>4, <2>5
<1>4. m \in Nat /\ m = d.run[s].items + new
  BY <1>2, <1>3
<1> HIDE DEF new, m
<1>5. /\ run \in RunForm /\ run.items = m /\ run.receipts = Append(d.run[s].receipts, Receipt(b, m))
      /\ run.warned = d.run[s].warned + b.warnings /\ run.phase = d.run[s].phase
      /\ run.session = d.run[s].session /\ run.code = d.run[s].code /\ run.rev = d.run[s].rev
  <2>0. run \in RunForm
    BY <1>2, <1>4, AppendedRunIs
  <2>1. /\ run.items = m /\ run.phase = d.run[s].phase
        /\ run.session = d.run[s].session /\ run.code = d.run[s].code /\ run.rev = d.run[s].rev
    BY <1>2, <1>4 DEF AppendedRun, RunForm
  <2>2. run.receipts = Append(d.run[s].receipts, Receipt(b, m))
    BY <1>2, <1>4, AppendedRunIs
  <2>3. run.warned = d.run[s].warned + b.warnings
    BY <1>2, <1>4, AppendedRunIs
  <2> HIDE DEF run
  <2> QED BY <2>0, <2>1, <2>2, <2>3
<1> HIDE DEF run
<1>6. /\ w \in DbForm
      /\ w.rows[s] = Upsert(d.rows[s], b.contents) /\ w.talks[s] = Upsert(d.talks[s], b.talks)
      /\ \A x \in Source \ {s} : w.rows[x] = d.rows[x] /\ w.talks[x] = d.talks[x]
  BY <1>1, WrittenIs
<1>7. /\ w.identity = d.identity \cup {<<"content", i>> : i \in Ids(b.contents)}
                                 \cup {<<"conversation", c>> : c \in Ids(b.talks)}
      /\ w.account = d.account /\ w.source = d.source /\ w.run = d.run /\ w.task = d.task
  BY <1>1, WrittenIs
<1> HIDE DEF w
<1>8. /\ e \in DbForm /\ e.run[s] = Raised(run) /\ \A x \in Source \ {s} : e.run[x] = w.run[x]
      /\ e.account = w.account /\ e.source = w.source /\ e.rows = w.rows /\ e.talks = w.talks
      /\ e.identity = w.identity /\ e.task = w.task
  BY <1>5, <1>6, SavedIs
<1> HIDE DEF e
<1>9. /\ e.run[s].items = m /\ e.run[s].receipts = Append(d.run[s].receipts, Receipt(b, m))
      /\ e.run[s].warned = d.run[s].warned + b.warnings /\ e.run[s].phase = "importing"
      /\ e.run[s].session = d.run[s].session /\ e.run[s].code = d.run[s].code /\ e.run[s].rev = d.run[s].rev + 1
  BY <1>5, <1>8, RaisedIs
<1>10. e.rows[s] = Upsert(d.rows[s], b.contents) /\ e.talks[s] = Upsert(d.talks[s], b.talks)
       /\ \A x \in Source \ {s} : /\ e.rows[x] = d.rows[x] /\ e.talks[x] = d.talks[x]
                                  /\ e.run[x] = d.run[x] /\ e.source[x] = d.source[x] /\ e.task[x] = d.task[x]
  BY <1>6, <1>7, <1>8
<1>11. d.run[s] # NoRun /\ e.run[s] # NoRun
  BY <1>9, NoRunIs
<1>12. Present(e, s) /\ d.account /\ e.account
  BY <1>1, <1>7, <1>8 DEF Present, SourceOk
<1>13. SourceOk(e, s)
  <2>1. RunLoads(e, s)
    <3>1. m <= MaxItems
      BY DEF m, new
    <3> QED BY <1>1, <1>9, <1>11, <3>1 DEF SourceOk, RunLoads
  <2>2. Integrity(e, s)
    <3>1. Cardinality(e.rows[s]) = Cardinality(d.rows[s]) + new
      BY <1>3, <1>10
    <3>2. Integrity(d, s)
      BY <1>1, <1>11 DEF SourceOk
    <3> QED BY <1>1, <1>3, <1>4, <1>9, <3>1, <3>2, IntegrityAppended
  <2>3. Observed(e, s) \subseteq e.identity
    BY <1>1, <1>3, <1>7, <1>8, <1>10 DEF SourceOk, Observed
  <2>4. e.source[s].state = StateOf(e.run[s].phase)
    BY <1>1, <1>7, <1>8, <1>9, <1>11 DEF SourceOk
  <2>5. e.task[s] = "none"
    BY <1>1, <1>7, <1>8 DEF SourceOk
  <2> QED BY <1>3, <1>10, <1>11, <1>12, <2>1, <2>2, <2>3, <2>4, <2>5 DEF SourceOk
<1>14. Goes(d, e, s, n)
  BY <1>2, <1>7, <1>8, <1>9, <1>12 DEF Goes
<1>15. Steps(d, e, n)
  <2>1. \A x \in Source : Observed(d, x) \subseteq e.identity
    BY <1>1, <1>7, <1>8 DEF SourceOk
  <2> QED BY <1>8, <1>10, <1>12, <1>13, <1>14, <2>1, OneSource
<1>16. Len(e.run[s].receipts) = Len(d.run[s].receipts) + 1
  BY <1>2, <1>9 DEF Receipts
<1> QED BY <1>0, <1>10, <1>15, <1>16

Grown(d, k, e, n) ==
  /\ Steps(d, e, n)
  /\ \A x \in Source : e.rows[x] # d.rows[x] =>
        /\ x = k.source /\ ActiveSession(d, k) = "ok"
        /\ Len(e.run[x].receipts) = Len(d.run[x].receipts) + 1

(* append, refused or committed.                                            *)
LEMMA AppendSteps ==
  ASSUME NEW d, DbOk(d), NEW k, k.source \in Source, NEW sequence, NEW b \in Batch, NEW n
  PROVE  Grown(d, k, AppendBatch(d, k, sequence, b).db, n)
<1> DEFINE r == AppendBatch(d, k, sequence, b)
           s == k.source
           e == AppendRows(d, s, b)
<1>1. \/ r.db = d
      \/ /\ ActiveSession(d, k) = "ok" /\ WellFormed(b)
         /\ ~(d.run[s].items + NewItems(d, s, b) > MaxItems) /\ r.db = e
  BY DEF AppendBatch, Refuse, Commit
<1> HIDE DEF r
<1>2. CASE r.db = d
  BY <1>2, NothingDone DEF r, Grown
<1>3. CASE /\ ActiveSession(d, k) = "ok" /\ WellFormed(b)
           /\ ~(d.run[s].items + NewItems(d, s, b) > MaxItems) /\ r.db = e
  <2>1. b \in BatchForm /\ IsFiniteSet(b.contents) /\ IsFiniteSet(b.talks)
    BY ArchiveStoreAssumption
  <2>2. Keyed(b.contents) /\ Keyed(b.talks)
    BY <1>3, <2>1, WellFormedKeyed DEF WellFormed
  <2>3. Present(d, s) /\ d.run[s].phase = "importing"
    BY <1>3, ActiveIs
  <2>4. d \in DbForm /\ SourceOk(d, s)
    BY DEF DbOk
  <2>5. d.run[s].items \in Nat /\ NewItems(d, s, b) \in Nat /\ MaxItems \in Nat
    BY <2>2, <2>4, FormIs, Upserted, ArchiveDbAssumption DEF SourceOk, NewItems
  <2>6. d.run[s].items + NewItems(d, s, b) <= MaxItems
    BY <1>3, <2>5
  <2>7. /\ Steps(d, e, n) /\ Len(e.run[s].receipts) = Len(d.run[s].receipts) + 1
        /\ \A x \in Source \ {s} : e.rows[x] = d.rows[x]
    BY <2>1, <2>2, <2>3, <2>6, AppendRowsSteps
  <2> HIDE DEF e
  <2> QED BY <1>3, <2>7 DEF r, Grown
<1> QED BY <1>1, <1>2, <1>3

-----------------------------------------------------------------------------
(* Removal.                                                                 *)
Gone(d, s) == [d EXCEPT !.task[s] = "pending", !.source[s] = NoSource, !.run[s] = NoRun,
                        !.rows[s] = {}, !.talks[s] = {}]
Trimmed(d, kept, account) == [d EXCEPT !.identity = kept, !.account = account]
Columns(d, task, source, run, rows, talks) ==
  [d EXCEPT !.task = task, !.source = source, !.run = run, !.rows = rows, !.talks = talks]

(* Five columns written, field by field.                                    *)
LEMMA ColumnsAre ==
  ASSUME NEW d \in DbForm, NEW task \in [Source -> {"none", "pending", "completed"}],
         NEW source \in [Source -> SourceForm], NEW run \in [Source -> RunForm],
         NEW rows \in [Source -> SUBSET Row], NEW talks \in [Source -> SUBSET Talk]
  PROVE  LET e == Columns(d, task, source, run, rows, talks)
         IN /\ e \in DbForm /\ e.task = task /\ e.source = source /\ e.run = run /\ e.rows = rows
            /\ e.talks = talks /\ e.identity = d.identity /\ e.account = d.account
BY DEF Columns, DbForm

(* The fields of a source that is not there.                                *)
LEMMA NoSourceIs == NoSource \in SourceForm /\ NoSource.state = "absent" /\ ~NoSource.mapped
BY DEF NoSource, SourceForm, States

(* The removal of one source, field by field.                               *)
LEMMA GoneIs ==
  ASSUME NEW d \in DbForm, NEW s \in Source
  PROVE  LET e == Gone(d, s)
         IN /\ e \in DbForm /\ e.task[s] = "pending" /\ e.source[s] = NoSource /\ e.run[s] = NoRun
            /\ e.rows[s] = {} /\ e.talks[s] = {} /\ e.identity = d.identity
            /\ \A x \in Source \ {s} : /\ e.run[x] = d.run[x] /\ e.source[x] = d.source[x] /\ e.rows[x] = d.rows[x]
                                       /\ e.talks[x] = d.talks[x] /\ e.task[x] = d.task[x]
<1> DEFINE task == [d.task EXCEPT ![s] = "pending"]
           source == [d.source EXCEPT ![s] = NoSource]
           run == [d.run EXCEPT ![s] = NoRun]
           rows == [d.rows EXCEPT ![s] = {}]
           talks == [d.talks EXCEPT ![s] = {}]
           e == Columns(d, task, source, run, rows, talks)
<1>1. Gone(d, s) = e
  BY DEF Gone, Columns
<1>2. /\ d.task \in [Source -> {"none", "pending", "completed"}] /\ d.source \in [Source -> SourceForm]
      /\ d.run \in [Source -> RunForm] /\ d.rows \in [Source -> SUBSET Row] /\ d.talks \in [Source -> SUBSET Talk]
  BY DEF DbForm
<1>3. /\ task \in [Source -> {"none", "pending", "completed"}] /\ task[s] = "pending"
      /\ \A x \in Source \ {s} : task[x] = d.task[x]
  BY <1>2
<1>4. source \in [Source -> SourceForm] /\ source[s] = NoSource /\ \A x \in Source \ {s} : source[x] = d.source[x]
  BY <1>2, NoSourceIs
<1>5. run \in [Source -> RunForm] /\ run[s] = NoRun /\ \A x \in Source \ {s} : run[x] = d.run[x]
  BY <1>2, NoRunIs
<1>6. rows \in [Source -> SUBSET Row] /\ rows[s] = {} /\ \A x \in Source \ {s} : rows[x] = d.rows[x]
  BY <1>2
<1>7. talks \in [Source -> SUBSET Talk] /\ talks[s] = {} /\ \A x \in Source \ {s} : talks[x] = d.talks[x]
  BY <1>2
<1> HIDE DEF task, source, run, rows, talks
<1>8. e \in DbForm /\ e.task = task /\ e.source = source /\ e.run = run
  BY <1>3, <1>4, <1>5, <1>6, <1>7, ColumnsAre
<1>9. e.rows = rows /\ e.talks = talks /\ e.identity = d.identity
  BY <1>3, <1>4, <1>5, <1>6, <1>7, ColumnsAre
<1> HIDE DEF e
<1> QED BY <1>1, <1>3, <1>4, <1>5, <1>6, <1>7, <1>8, <1>9

(* The identities that no row names go, and the account with the last       *)
(* source.                                                                  *)
LEMMA TrimmedIs ==
  ASSUME NEW d \in DbForm, NEW kept \in SUBSET d.identity, NEW account \in BOOLEAN
  PROVE  LET e == Trimmed(d, kept, account)
         IN /\ e \in DbForm /\ e.identity = kept /\ (e.account <=> account)
            /\ e.task = d.task /\ e.source = d.source /\ e.run = d.run /\ e.rows = d.rows /\ e.talks = d.talks
BY DEF Trimmed, DbForm

Erased(d, e) == \A x \in Source : e.rows[x] # d.rows[x] => e.task[x] # "none" /\ e.rows[x] = {}

(* remove: what it changes is erased, and its cleanup is owed.              *)
LEMMA RemoveSteps ==
  ASSUME NEW d, DbOk(d), NEW s \in Source, NEW n
  PROVE  Steps(d, RemoveSource(d, s), n) /\ Erased(d, RemoveSource(d, s))
<1> DEFINE gone == Gone(d, s)
           kept == gone.identity \cap UNION {Named(gone, x) : x \in Source}
           account == (\E x \in Source : Present(gone, x)) \/ kept # {}
           e == Trimmed(gone, kept, account)
<1>1. \/ RemoveSource(d, s) = d
      \/ Present(d, s) /\ RemoveSource(d, s) = e
  BY DEF RemoveSource, Gone, Trimmed
<1>2. CASE RemoveSource(d, s) = d
  BY <1>2, NothingDone DEF Erased
<1>3. CASE Present(d, s) /\ RemoveSource(d, s) = e
  <2>1. d \in DbForm /\ \A x \in Source : SourceOk(d, x)
    BY DEF DbOk
  <2>2. /\ gone \in DbForm /\ gone.task[s] = "pending" /\ gone.source[s] = NoSource /\ gone.run[s] = NoRun
        /\ gone.rows[s] = {} /\ gone.talks[s] = {} /\ gone.identity = d.identity
    BY <2>1, GoneIs
  <2>3. \A x \in Source \ {s} : /\ gone.run[x] = d.run[x] /\ gone.source[x] = d.source[x]
                                /\ gone.rows[x] = d.rows[x] /\ gone.talks[x] = d.talks[x]
                                /\ gone.task[x] = d.task[x]
    BY <2>1, GoneIs
  <2> HIDE DEF gone
  <2>4. kept \subseteq gone.identity /\ account \in BOOLEAN
        /\ (kept # {} => account) /\ \A x \in Source : Present(gone, x) => account
    OBVIOUS
  <2>5. ASSUME NEW x \in Source \ {s} PROVE Observed(d, x) \subseteq kept
    <3>1. Observed(gone, x) = Observed(d, x)
      BY <2>3, ObservedSame
    <3>2. Observed(gone, x) \subseteq Named(gone, x)
      BY DEF Named
    <3>3. Observed(d, x) \subseteq gone.identity
      BY <2>1, <2>2 DEF SourceOk
    <3> QED BY <3>1, <3>2, <3>3
  <2>6. \A x \in Source \ {s} : Present(d, x) => account
    BY <2>3, <2>4 DEF Present
  <2> HIDE DEF kept, account
  <2>7. e \in DbForm /\ e.identity = kept /\ (e.account <=> account)
    BY <2>2, <2>4, TrimmedIs
  <2>8. e.task = gone.task /\ e.source = gone.source /\ e.run = gone.run /\ e.rows = gone.rows /\ e.talks = gone.talks
    BY <2>2, <2>4, TrimmedIs
  <2> HIDE DEF e
  <2>9. ~Present(e, s) /\ e.run[s] = NoRun /\ e.rows[s] = {} /\ e.talks[s] = {} /\ e.task[s] = "pending"
        /\ ~e.source[s].mapped
    BY <2>2, <2>8, NoSourceIs DEF Present
  <2>10. SourceOk(e, s)
    <3>1. Keyed({})
      BY FS_EmptySet DEF Keyed
    <3>2. Observed(e, s) = {}
      BY <2>9 DEF Observed, Ids
    <3> QED BY <2>9, <3>1, <3>2 DEF SourceOk
  <2>11. Goes(d, e, s, n)
    BY <2>9, NoRunIs DEF Goes
  <2>12. Steps(d, e, n)
    <3>1. \A x \in Source \ {s} :
             /\ e.run[x] = d.run[x] /\ e.source[x] = d.source[x] /\ e.rows[x] = d.rows[x]
             /\ e.talks[x] = d.talks[x] /\ e.task[x] = d.task[x]
             /\ Observed(d, x) \subseteq e.identity /\ (Present(d, x) => e.account)
      BY <2>3, <2>5, <2>6, <2>7, <2>8
    <3>2. e.identity # {} => e.account
      BY <2>4, <2>7
    <3> QED BY <2>7, <2>10, <2>11, <3>1, <3>2, OneSource
  <2>13. Erased(d, e)
    BY <2>3, <2>8, <2>9 DEF Erased
  <2> QED BY <1>3, <2>12, <2>13
<1> QED BY <1>1, <1>2, <1>3

(* A cleanup done, field by field.                                          *)
LEMMA TaskIs ==
  ASSUME NEW d \in DbForm, NEW s \in Source
  PROVE  LET e == [d EXCEPT !.task[s] = "completed"]
         IN /\ e \in DbForm /\ e.task[s] = "completed" /\ \A x \in Source \ {s} : e.task[x] = d.task[x]
            /\ e.account = d.account /\ e.source = d.source /\ e.run = d.run /\ e.rows = d.rows
            /\ e.talks = d.talks /\ e.identity = d.identity
BY DEF DbForm

(* retry_cleanup takes no cleanup back.                                     *)
LEMMA CleanupSteps ==
  ASSUME NEW d, DbOk(d), NEW s \in Source, NEW n
  PROVE  LET e == RetryCleanup(d, s)
         IN Steps(d, e, n) /\ e.rows = d.rows /\ \A x \in Source : d.task[x] # "none" => e.task[x] # "none"
<1> DEFINE e == [d EXCEPT !.task[s] = "completed"]
<1>1. CASE d.task[s] # "pending"
  BY <1>1, NothingDone DEF RetryCleanup
<1>2. CASE d.task[s] = "pending"
  <2>1. d \in DbForm /\ SourceOk(d, s) /\ \A x \in Source : SourceOk(d, x)
    BY DEF DbOk
  <2>2. e \in DbForm /\ e.task[s] = "completed" /\ \A x \in Source \ {s} : e.task[x] = d.task[x]
    BY <2>1, TaskIs
  <2>3. /\ e.account = d.account /\ e.source = d.source /\ e.run = d.run /\ e.rows = d.rows
        /\ e.talks = d.talks /\ e.identity = d.identity
    BY <2>1, TaskIs
  <2>4. RetryCleanup(d, s) = e
    BY <1>2 DEF RetryCleanup
  <2> HIDE DEF e
  <2>5. ~Present(d, s) /\ ~Present(e, s)
    BY <1>2, <2>1, <2>3 DEF SourceOk, Present
  <2>6. SourceOk(e, s)
    <3>1. Observed(e, s) = Observed(d, s)
      BY <2>3, ObservedSame
    <3>2. d.run[s] = NoRun
      BY <2>1, <2>5 DEF SourceOk
    <3> QED BY <2>1, <2>3, <2>5, <3>1, <3>2 DEF SourceOk
  <2>7. Goes(d, e, s, n)
    <3>1. d.run[s] = NoRun
      BY <2>1, <2>5 DEF SourceOk
    <3> QED BY <2>2, <2>3, <2>5, <3>1, NoRunIs DEF Goes
  <2>8. Steps(d, e, n)
    <3>1. \A x \in Source \ {s} : Observed(d, x) \subseteq e.identity /\ (Present(d, x) => e.account)
      BY <2>1, <2>3 DEF SourceOk
    <3>2. e.identity # {} => e.account
      BY <2>3 DEF DbOk
    <3> QED BY <2>2, <2>3, <2>6, <2>7, <3>1, <3>2, OneSource
  <2> QED BY <2>2, <2>3, <2>4, <2>8
<1> QED BY <1>1, <1>2

(* Two steps in one transaction are a step.                                 *)
LEMMA StepsCompose ==
  ASSUME NEW a, DbOk(a), NEW b, NEW c, NEW n, Steps(a, b, n), Steps(b, c, n)
  PROVE  Steps(a, c, n)
<1>1. ASSUME NEW s \in Source PROVE Goes(a, c, s, n)
  <2>1. Goes(a, b, s, n) /\ Goes(b, c, s, n) /\ SourceOk(c, s)
    BY DEF Steps, DbOk
  <2>2. a.run[s].rev \in Nat /\ b.run[s].rev \in Nat /\ c.run[s].rev \in Nat
    BY FormIs DEF Steps, DbOk
  <2> QED BY <2>1, <2>2 DEF Goes, SourceOk
<1> QED BY <1>1 DEF Steps

-----------------------------------------------------------------------------
(* Opening.                                                                 *)
LEMMA EmptyDbOk == DbOk(EmptyDb)
<1>1. /\ EmptyDb.account = FALSE /\ EmptyDb.identity = {}
      /\ \A s \in Source : /\ EmptyDb.source[s] = NoSource /\ EmptyDb.run[s] = NoRun /\ EmptyDb.rows[s] = {}
                           /\ EmptyDb.talks[s] = {} /\ EmptyDb.task[s] = "none"
  BY DEF EmptyDb
<1>2. EmptyDb \in DbForm
  <2>1. [s \in Source |-> NoSource] \in [Source -> SourceForm]
    BY NoSourceIs
  <2>2. [s \in Source |-> NoRun] \in [Source -> RunForm]
    BY NoRunIs
  <2> QED BY <2>1, <2>2 DEF EmptyDb, DbForm
<1>3. ASSUME NEW s \in Source PROVE SourceOk(EmptyDb, s)
  <2>1. Keyed({})
    BY FS_EmptySet DEF Keyed
  <2>2. Observed(EmptyDb, s) = {}
    BY <1>1 DEF Observed, Ids
  <2>3. ~Present(EmptyDb, s) /\ ~EmptyDb.source[s].mapped
    BY <1>1, NoSourceIs DEF Present
  <2> QED BY <1>1, <2>1, <2>2, <2>3 DEF SourceOk
<1> QED BY <1>1, <1>2, <1>3 DEF DbOk

(* A content the invariant admits is one the next open accepts.             *)
LEMMA OkValidates ==
  ASSUME NEW d, DbOk(d)
  PROVE  Validates(d)
<1>1. \A s \in Source : SourceOk(d, s)
  BY DEF DbOk
<1>2. ForeignKeys(d)
  BY <1>1 DEF ForeignKeys, SourceOk, DbOk
<1>3. Registered(d)
  BY <1>1 DEF Registered, SourceOk
<1>4. RunsHold(d)
  BY <1>1 DEF RunsHold, SourceOk
<1>5. ImportIdentities(d)
  BY <1>1 DEF ImportIdentities, SourceOk
<1> QED BY <1>2, <1>3, <1>4, <1>5 DEF Validates

(* Two columns of the runs and the sources are written at once.             *)
Phased(d, run, source) == [d EXCEPT !.run = run, !.source = source]

(* Runs and sources written together, field by field.                       *)
LEMMA PhasedIs ==
  ASSUME NEW d \in DbForm, NEW run \in [Source -> RunForm], NEW source \in [Source -> SourceForm]
  PROVE  LET e == Phased(d, run, source)
         IN /\ e \in DbForm /\ e.run = run /\ e.source = source
            /\ e.account = d.account /\ e.rows = d.rows /\ e.talks = d.talks
            /\ e.identity = d.identity /\ e.task = d.task
BY DEF Phased, DbForm

Stopped(run) == [run EXCEPT !.phase = "interrupted", !.rev = @ + 1]
(* A run interrupted by an open, field by field.                            *)
LEMMA StoppedIs ==
  ASSUME NEW run \in RunForm
  PROVE  LET r == Stopped(run)
         IN /\ r \in RunForm /\ r.phase = "interrupted" /\ r.rev = run.rev + 1 /\ r.code = run.code
            /\ r.items = run.items /\ r.receipts = run.receipts /\ r.warned = run.warned
            /\ r.session = run.session
<1>1. run.rev + 1 \in Nat /\ run.rev \in Nat
  BY DEF RunForm
<1> DEFINE k == run.rev + 1
<1>2. [run EXCEPT !.phase = "interrupted", !.rev = k] = Stopped(run)
  BY DEF Stopped
<1> HIDE DEF k
<1>3. k \in Nat
  BY <1>1 DEF k
<1>4. [run EXCEPT !.phase = "interrupted", !.rev = k] \in RunForm
  BY <1>3 DEF RunForm, Phases
<1>5. LET r == [run EXCEPT !.phase = "interrupted", !.rev = k]
      IN /\ r.phase = "interrupted" /\ r.rev = k /\ r.code = run.code
         /\ r.items = run.items /\ r.receipts = run.receipts /\ r.warned = run.warned
         /\ r.session = run.session
  BY DEF RunForm
<1> QED BY <1>2, <1>4, <1>5 DEF k

Unavailable(x) == [x EXCEPT !.state = "unavailable"]
(* Its source, field by field.                                              *)
LEMMA UnavailableIs ==
  ASSUME NEW x \in SourceForm
  PROVE  /\ Unavailable(x) \in SourceForm /\ Unavailable(x).state = "unavailable"
         /\ Unavailable(x).print = x.print /\ Unavailable(x).mapped = x.mapped
BY DEF Unavailable, SourceForm, States

(* interrupt_runs: no import is left under way, and no row moves.           *)
LEMMA InterruptSteps ==
  ASSUME NEW d, DbOk(d), NEW n
  PROVE  LET e == InterruptRuns(d)
         IN Steps(d, e, n) /\ e.rows = d.rows /\ \A s \in Source : e.run[s].phase # "importing"
<1> DEFINE live == {s \in Source : d.run[s].phase = "importing"}
           run == [s \in Source |-> IF s \in live THEN Stopped(d.run[s]) ELSE d.run[s]]
           source == [s \in Source |-> IF s \in live THEN Unavailable(d.source[s]) ELSE d.source[s]]
           e == Phased(d, run, source)
<1>1. InterruptRuns(d) = e
  BY DEF InterruptRuns, Phased, Stopped, Unavailable
<1>2. d \in DbForm /\ (\A s \in Source : SourceOk(d, s)) /\ (d.identity # {} => d.account)
  BY DEF DbOk
<1>3. \A s \in Source : d.run[s] \in RunForm /\ d.source[s] \in SourceForm /\ d.run[s].rev \in Nat
  BY <1>2, FormIs
<1>4. \A s \in Source : Stopped(d.run[s]) \in RunForm /\ Unavailable(d.source[s]) \in SourceForm
  BY <1>3, StoppedIs, UnavailableIs
<1>5. run \in [Source -> RunForm]
  BY <1>3, <1>4
<1>6. source \in [Source -> SourceForm]
  BY <1>3, <1>4
<1>7. \A s \in Source : /\ d.run[s].phase = "importing" => run[s] = Stopped(d.run[s]) /\ source[s] = Unavailable(d.source[s])
                        /\ d.run[s].phase # "importing" => run[s] = d.run[s] /\ source[s] = d.source[s]
  OBVIOUS
<1> HIDE DEF run, source
<1>8. e \in DbForm /\ e.run = run /\ e.source = source
  BY <1>2, <1>5, <1>6, PhasedIs
<1>9. e.account = d.account /\ e.rows = d.rows /\ e.talks = d.talks /\ e.identity = d.identity /\ e.task = d.task
  BY <1>2, <1>5, <1>6, PhasedIs
<1> HIDE DEF e
<1>10. ASSUME NEW s \in Source
       PROVE  SourceOk(e, s) /\ Goes(d, e, s, n) /\ e.run[s].phase # "importing"
  <2>1. CASE d.run[s].phase # "importing"
    <3>1. e.run[s] = d.run[s] /\ e.source[s] = d.source[s]
      BY <1>7, <1>8, <2>1
    <3>2. Observed(e, s) = Observed(d, s)
      BY <1>9, ObservedSame
    <3>3. Observed(e, s) \subseteq e.identity /\ (Present(d, s) => e.account)
      BY <1>2, <1>9, <3>2 DEF SourceOk
    <3>4. SourceOk(e, s)
      BY <1>2, <1>9, <3>1, <3>3, SourceKept
    <3> QED BY <1>2, <1>9, <2>1, <3>1, <3>4, SameGoes
  <2>2. CASE d.run[s].phase = "importing"
    <3>1. e.run[s] = Stopped(d.run[s]) /\ e.source[s] = Unavailable(d.source[s])
      BY <1>7, <1>8, <2>2
    <3>2. /\ e.run[s].phase = "interrupted" /\ e.run[s].rev = d.run[s].rev + 1
          /\ e.run[s].code = d.run[s].code /\ e.run[s].items = d.run[s].items
          /\ e.run[s].receipts = d.run[s].receipts /\ e.run[s].warned = d.run[s].warned
      BY <1>3, <3>1, StoppedIs
    <3>3. e.source[s].state = "unavailable" /\ e.source[s].mapped = d.source[s].mapped
      BY <1>3, <3>1, UnavailableIs
    <3>4. d.run[s] # NoRun /\ e.run[s] # NoRun
      BY <2>2, <3>2, NoRunIs
    <3>5. Present(d, s) /\ Present(e, s)
      BY <1>2, <3>3, <3>4 DEF SourceOk, Present
    <3>6. Integrity(e, s)
      BY <1>2, <1>9, <3>2, <3>4, IntegrityKept DEF SourceOk
    <3>7. RunLoads(e, s)
      BY <1>2, <2>2, <3>2, <3>4 DEF SourceOk, RunLoads
    <3>8. Observed(e, s) = Observed(d, s)
      BY <1>9, ObservedSame
    <3>9. StateOf(e.run[s].phase) = "unavailable"
      BY <3>2 DEF StateOf
    <3>10. SourceOk(e, s)
      BY <1>2, <1>9, <3>3, <3>4, <3>5, <3>6, <3>7, <3>8, <3>9 DEF SourceOk
    <3>11. Goes(d, e, s, n)
      BY <1>3, <1>9, <3>2, <3>5 DEF Goes
    <3> QED BY <3>2, <3>10, <3>11
  <2> QED BY <2>1, <2>2
<1>11. Steps(d, e, n)
  BY <1>2, <1>8, <1>9, <1>10 DEF Steps, DbOk
<1> QED BY <1>1, <1>9, <1>10, <1>11

Coded(run) == [run EXCEPT !.code = "incomplete_source"]
(* The code that populate_v2 gives a failed run.                            *)
LEMMA CodedIs ==
  ASSUME NEW run \in RunForm
  PROVE  Coded(run) \in RunForm /\ Coded(run).phase = run.phase
BY DEF Coded, RunForm, Codes

(* A version 1 content that passes the validation is one the invariant      *)
(* admits.                                                                  *)
LEMMA UpgradedOk ==
  ASSUME NEW d \in Legacy, Validates(Upgraded(d))
  PROVE  DbOk(Upgraded(d)) /\ Upgraded(d).rows = d.rows
<1> DEFINE run == [s \in Source |-> IF d.run[s].phase = "failed" THEN Coded(d.run[s]) ELSE d.run[s]]
           e == Phased(d, run, d.source)
<1>1. d \in DbForm /\ d.source \in [Source -> SourceForm]
  BY ArchiveStoreAssumption DEF DbForm
<1>2. Upgraded(d) = [d EXCEPT !.run = run]
  BY DEF Upgraded, Coded
<1>3. \A s \in Source : d.run[s] \in RunForm /\ Coded(d.run[s]) \in RunForm
  BY <1>1, FormIs, CodedIs
<1>4. run \in [Source -> RunForm]
  BY <1>3
<1>5. \A s \in Source : run[s] = NoRun => d.run[s] = NoRun
  <2>1. ASSUME NEW s \in Source, d.run[s].phase = "failed" PROVE run[s] # NoRun
    <3>1. run[s] = Coded(d.run[s])
      BY <2>1
    <3>2. Coded(d.run[s]).phase = "failed"
      BY <1>3, <2>1, CodedIs
    <3> QED BY <3>1, <3>2, NoRunIs
  <2>2. ASSUME NEW s \in Source, d.run[s].phase # "failed" PROVE run[s] = d.run[s]
    BY <2>2
  <2> HIDE DEF run
  <2> QED BY <2>1, <2>2
<1> HIDE DEF run
<1>6. [d EXCEPT !.run = run] \in DbForm /\ [d EXCEPT !.run = run].run = run
      /\ [d EXCEPT !.run = run].source = d.source /\ [d EXCEPT !.run = run].account = d.account
      /\ [d EXCEPT !.run = run].rows = d.rows /\ [d EXCEPT !.run = run].talks = d.talks
      /\ [d EXCEPT !.run = run].identity = d.identity /\ [d EXCEPT !.run = run].task = d.task
  BY <1>1, <1>4 DEF DbForm
<1> DEFINE u == Upgraded(d)
<1>7. u \in DbForm /\ u.run = run /\ u.source = d.source /\ u.account = d.account
      /\ u.rows = d.rows /\ u.talks = d.talks /\ u.identity = d.identity /\ u.task = d.task
  BY <1>2, <1>6
<1>8. \A s \in Source : /\ Keyed(d.rows[s]) /\ Keyed(d.talks[s]) /\ (d.run[s] = NoRun => d.rows[s] = {})
                        /\ (Present(d, s) => d.task[s] = "none")
  BY ArchiveStoreAssumption
<1>9. ForeignKeys(u) /\ Registered(u) /\ RunsHold(u) /\ ImportIdentities(u)
  BY DEF Validates
<1> HIDE DEF u
<1>10. ASSUME NEW s \in Source PROVE SourceOk(u, s)
  <2>1. Present(u, s) <=> Present(d, s)
    BY <1>7 DEF Present
  <2>2. Keyed(u.rows[s]) /\ Keyed(u.talks[s]) /\ (u.run[s] = NoRun => u.rows[s] = {})
        /\ (Present(u, s) => u.task[s] = "none")
    BY <1>5, <1>7, <1>8, <2>1
  <2> QED BY <1>9, <2>2 DEF SourceOk, ForeignKeys, Registered, RunsHold, ImportIdentities
<1>11. u.identity # {} => u.account
  BY <1>9 DEF ForeignKeys
<1> QED BY <1>7, <1>10, <1>11 DEF DbOk, u

-----------------------------------------------------------------------------
(* Pages.                                                                   *)
LEMMA EarlierIs ==
  ASSUME NEW q, NEW i \in Nat, NEW j \in Nat
  PROVE  Earlier(q, i, j) <=> i < j
<1>1. i <= j => (i + 1) \div 2 <= (j + 1) \div 2
  OBVIOUS
<1>2. j <= i => (j + 1) \div 2 <= (i + 1) \div 2
  OBVIOUS
<1>3. (i + 1) \div 2 \in Nat /\ (j + 1) \div 2 \in Nat
  OBVIOUS
<1> DEFINE a == (i + 1) \div 2
           b == (j + 1) \div 2
<1>4. Before(i, j) <=> a < b \/ (a = b /\ i < j)
  BY DEF Before, Time
<1>5. a \in Nat /\ b \in Nat /\ (i <= j => a <= b) /\ (j <= i => b <= a)
  BY <1>1, <1>2, <1>3
<1> HIDE DEF a, b
<1>6. Before(i, j) <=> i < j
  BY <1>4, <1>5
<1> QED BY <1>6 DEF Earlier

(* A finite set of numbers can be listed in descending order: by its size.  *)
LEMMA DescendingExists ==
  \A n \in Nat : \A S \in SUBSET Nat : IsFiniteSet(S) /\ Cardinality(S) = n =>
    \E s \in [1..n -> S] : Descends(s) /\ ToSet(s) = S
<1> DEFINE P(n) == \A S \in SUBSET Nat : IsFiniteSet(S) /\ Cardinality(S) = n =>
                     \E s \in [1..n -> S] : Descends(s) /\ ToSet(s) = S
           Wrong == {n \in Nat : ~P(n)}
<1> SUFFICES ASSUME Wrong # {} PROVE FALSE
  OBVIOUS
<1>1. PICK n \in Wrong : \A m \in Wrong : n <= m
  BY LeastNatural
<1>2. P(0)
  <2> SUFFICES ASSUME NEW S \in SUBSET Nat, IsFiniteSet(S), Cardinality(S) = 0
               PROVE  \E s \in [1..0 -> S] : Descends(s) /\ ToSet(s) = S
    OBVIOUS
  <2>1. S = {}
    BY FS_EmptySet
  <2>2. <<>> \in [1..0 -> S] /\ Descends(<<>>) /\ ToSet(<<>>) = {}
    BY <2>1 DEF Descends, ToSet
  <2> QED BY <2>1, <2>2
<1>3. n \in Nat /\ n # 0 /\ n - 1 \in Nat /\ P(n - 1)
  BY <1>1, <1>2
<1>4. PICK S \in SUBSET Nat : /\ IsFiniteSet(S) /\ Cardinality(S) = n
                              /\ ~\E s \in [1..n -> S] : Descends(s) /\ ToSet(s) = S
  BY <1>1
<1>5. PICK x \in S : \A y \in S : x <= y
  <2>1. S # {}
    BY <1>3, <1>4, FS_EmptySet
  <2> QED BY <2>1, LeastNatural
<1>6. PICK s \in [1..(n - 1) -> S \ {x}] : Descends(s) /\ ToSet(s) = S \ {x}
  <2>1. IsFiniteSet(S \ {x}) /\ Cardinality(S \ {x}) = n - 1 /\ S \ {x} \in SUBSET Nat
    BY <1>4, <1>5, FS_RemoveElement
  <2> QED BY <1>3, <2>1
<1> HIDE DEF P, Wrong
<1> DEFINE t == [i \in 1..n |-> IF i = n THEN x ELSE s[i]]
<1>8. n \in Nat /\ t \in [1..n -> S]
  BY <1>3, <1>6
<1>9. Descends(t)
  <2>1. t[n] = x /\ \A i \in 1..(n - 1) : t[i] = s[i] /\ s[i] \in S /\ s[i] # x
    BY <1>3, <1>6
  <2> HIDE DEF t
  <2> SUFFICES ASSUME NEW i \in 1..n, NEW j \in 1..n, i < j PROVE t[j] < t[i]
    BY <1>8 DEF Descends
  <2>0. i \in 1..(n - 1)
    BY <1>3
  <2>2. i \in 1..(n - 1) /\ t[i] = s[i] /\ s[i] \in S /\ s[i] # x /\ s[i] \in Nat /\ x \in Nat
    BY <1>4, <2>0, <2>1
  <2>3. CASE j = n
    BY <1>5, <2>1, <2>2, <2>3
  <2>4. CASE j # n
    <3>1. j \in 1..(n - 1) /\ t[j] = s[j] /\ i \in DOMAIN s /\ j \in DOMAIN s
      BY <1>3, <1>6, <2>1, <2>2, <2>4
    <3> QED BY <1>6, <2>2, <3>1 DEF Descends
  <2> QED BY <2>3, <2>4
<1>10. ToSet(t) = S
  <2>1. n \in 1..n /\ t[n] = x /\ \A i \in 1..(n - 1) : i \in 1..n /\ t[i] = s[i]
    BY <1>3, <1>8
  <2>2. \A y \in S \ {x} : \E i \in 1..(n - 1) : y = s[i]
    BY <1>6 DEF ToSet
  <2> QED BY <1>8, <2>1, <2>2 DEF ToSet
<1> QED BY <1>4, <1>8, <1>9, <1>10

(* So the enumeration a page is cut from is that list.                      *)
LEMMA NewestIs ==
  ASSUME NEW q, NEW S \in SUBSET Nat, IsFiniteSet(S)
  PROVE  /\ Cardinality(S) \in Nat /\ Newest(q, S) \in [1..Cardinality(S) -> S]
         /\ Descends(Newest(q, S)) /\ ToSet(Newest(q, S)) = S
<1> DEFINE n == Cardinality(S)
           Fits(s) == /\ \A i, j \in DOMAIN s : i < j => ~Earlier(q, s[i], s[j])
                      /\ ToSet(s) = S
           s == Newest(q, S)
<1>1. n \in Nat
  BY FS_CardinalityType
<1>2. \E t \in [1..n -> S] : Fits(t)
  <2>1. PICK t \in [1..n -> S] : Descends(t) /\ ToSet(t) = S
    BY <1>1, DescendingExists
  <2>2. ASSUME NEW i \in DOMAIN t, NEW j \in DOMAIN t, i < j PROVE ~Earlier(q, t[i], t[j])
    <3>1. t[j] < t[i] /\ t[i] \in Nat /\ t[j] \in Nat
      BY <2>1, <2>2 DEF Descends
    <3> QED BY <3>1, EarlierIs
  <2> QED BY <2>1, <2>2
<1>3. s \in [1..n -> S] /\ Fits(s)
  <2>1. s = CHOOSE t \in [1..n -> S] : Fits(t)
    BY DEF Newest
  <2> HIDE DEF s, Fits
  <2> QED BY <1>2, <2>1
<1> HIDE DEF s
<1>4. s \in Surjection(1..n, S)
  BY <1>3 DEF ToSet, Surjection
<1>5. IsFiniteSet(1..n) /\ Cardinality(1..n) = n
  BY <1>1, FS_Interval
<1>6. s \in Injection(1..n, S)
  BY <1>4, <1>5, FS_SurjSameCardinalityImpliesInj
<1>7. Descends(s)
  <2> SUFFICES ASSUME NEW i \in DOMAIN s, NEW j \in DOMAIN s, i < j PROVE s[j] < s[i]
    BY DEF Descends
  <2>1. i \in 1..n /\ j \in 1..n /\ s[i] \in Nat /\ s[j] \in Nat
    BY <1>3
  <2>2. s[i] # s[j]
    BY <1>1, <1>6, <2>1 DEF Injection, IsInjective
  <2>3. ~(s[i] < s[j])
    BY <1>3, <2>1, EarlierIs
  <2> QED BY <2>1, <2>2, <2>3
<1> QED BY <1>1, <1>3, <1>7 DEF s

(* The members of a concatenation.                                          *)
LEMMA Joined ==
  ASSUME NEW s \in Seq(Nat), NEW t \in Seq(Nat), NEW i \in 1 .. Len(s) + Len(t)
  PROVE  (s \o t)[i] = IF i <= Len(s) THEN s[i] ELSE t[i - Len(s)]
BY ConcatProperties

(* What a page adds to what has been seen.                                  *)
First(newest, n, limit) == SubSeq(newest, 1, IF n < limit THEN n ELSE limit)

Unread(W, seen, rest, newest, n) ==
  /\ W \in SUBSET Nat /\ seen \in Seq(Nat) /\ Descends(seen) /\ rest \in SUBSET Nat
  /\ n \in Nat /\ newest \in [1..n -> rest] /\ Descends(newest) /\ ToSet(newest) = rest
  /\ \/ seen = <<>> /\ rest = W
     \/ /\ seen # <<>>
        /\ ToSet(seen) = Above(W, seen[Len(seen)]) /\ rest = Below(W, seen[Len(seen)])
NowRead(W, all, rest, taken, n, limit) ==
  /\ all \in Seq(Nat) /\ Descends(all)
  /\ n <= limit => ToSet(all) = W
  /\ ~(n <= limit) => /\ all # <<>> /\ taken[limit] = all[Len(all)] /\ taken[limit] \in rest
                      /\ ToSet(all) = Above(W, taken[limit])

(* A page taken from what is left is what was read's continuation.          *)
LEMMA PageAdds ==
  ASSUME NEW W, NEW seen, NEW rest, NEW n, NEW newest, NEW limit \in Nat \ {0},
         Unread(W, seen, rest, newest, n)
  PROVE  NowRead(W, seen \o First(newest, n, limit), rest, First(newest, n, limit), n, limit)
<1>0. /\ W \in SUBSET Nat /\ seen \in Seq(Nat) /\ Descends(seen) /\ rest \in SUBSET Nat
      /\ n \in Nat /\ newest \in [1..n -> rest] /\ Descends(newest) /\ ToSet(newest) = rest
  BY DEF Unread
<1>0a. \/ seen = <<>> /\ rest = W
       \/ /\ seen # <<>>
          /\ ToSet(seen) = Above(W, seen[Len(seen)]) /\ rest = Below(W, seen[Len(seen)])
  BY DEF Unread
<1> USE <1>0, <1>0a
<1> USE DEF Above, Below
<1> DEFINE c == IF n < limit THEN n ELSE limit
           taken == SubSeq(newest, 1, c)
           all == seen \o taken
<1>1. c \in Nat /\ c <= n /\ (n <= limit => c = n) /\ (~(n <= limit) => c = limit)
  OBVIOUS
<1> HIDE DEF c
<1>2. newest \in Seq(Nat) /\ Len(newest) = n /\ \A i \in 1..n : newest[i] \in rest /\ newest[i] \in Nat
  <2>1. newest \in [1..n -> Nat] /\ \A i \in 1..n : newest[i] \in rest /\ newest[i] \in Nat
    OBVIOUS
  <2>2. newest \in Seq(Nat)
    BY <2>1, SeqDef
  <2>3. Len(newest) \in Nat /\ 1..Len(newest) = 1..n
    BY <2>1, <2>2, LenProperties
  <2>4. Len(newest) = n
    BY <2>3
  <2> QED BY <2>1, <2>2, <2>4
<1>3. taken \in Seq(Nat) /\ Len(taken) = c /\ \A i \in 1..c : taken[i] = newest[i]
  BY <1>1, <1>2, SubSeqProperties
<1> HIDE DEF taken
<1>4. /\ all \in Seq(Nat) /\ Len(all) = Len(seen) + c /\ Len(seen) \in Nat
      /\ \A i \in 1..Len(seen) : all[i] = seen[i]
      /\ \A i \in 1..c : all[Len(seen) + i] = newest[i]
  <2>1. Len(seen) \in Nat
    BY LenProperties
  <2>2. /\ all \in Seq(Nat) /\ Len(all) = Len(seen) + Len(taken)
        /\ \A i \in 1 .. Len(seen) + Len(taken) : all[i] = IF i <= Len(seen) THEN seen[i] ELSE taken[i - Len(seen)]
    <3>1. all \in Seq(Nat) /\ Len(all) = Len(seen) + Len(taken)
      BY <1>3, ConcatProperties
    <3>2. \A i \in 1 .. Len(seen) + Len(taken) : all[i] = IF i <= Len(seen) THEN seen[i] ELSE taken[i - Len(seen)]
      BY <1>3, Joined
    <3> QED BY <3>1, <3>2
  <2> HIDE DEF all
  <2> DEFINE l == Len(seen)
  <2>3. l \in Nat /\ Len(all) = l + c /\ \A i \in 1 .. l + c : all[i] = IF i <= l THEN seen[i] ELSE taken[i - l]
    BY <1>3, <2>1, <2>2
  <2> HIDE DEF l
  <2>4. \A i \in 1..l : all[i] = seen[i]
    BY <1>1, <2>3
  <2>5. ASSUME NEW i \in 1..c PROVE all[l + i] = newest[i]
    <3>1. l + i \in 1..(l + c) /\ ~(l + i <= l) /\ (l + i) - l = i
      BY <1>1, <2>3
    <3> QED BY <1>3, <2>3, <3>1
  <2> QED BY <2>2, <2>3, <2>4, <2>5 DEF l
<1> HIDE DEF all
<1>5. \A i \in 1..Len(all) : i \in 1..Len(seen) \/ (i - Len(seen) \in 1..c /\ all[i] = newest[i - Len(seen)])
  <2> SUFFICES ASSUME NEW i \in 1..Len(all), i \notin 1..Len(seen)
               PROVE  i - Len(seen) \in 1..c /\ all[i] = newest[i - Len(seen)]
    OBVIOUS
  <2>1. i - Len(seen) \in 1..c /\ i = Len(seen) + (i - Len(seen))
    BY <1>1, <1>4
  <2> DEFINE k == i - Len(seen)
  <2>2. all[Len(seen) + k] = newest[k]
    BY <1>4, <2>1
  <2> QED BY <2>1, <2>2
<1>6. \A i, j \in 1..Len(seen) : i < j => seen[j] < seen[i]
  BY DEF Descends
<1>7. \A i, j \in 1..n : i < j => newest[j] < newest[i]
  BY DEF Descends
<1>8. \A i \in 1..Len(seen), k \in 1..n : newest[k] < seen[i]
  <2> SUFFICES ASSUME NEW i \in 1..Len(seen), NEW k \in 1..n PROVE newest[k] < seen[i]
    OBVIOUS
  <2>1. seen # <<>> /\ newest[k] < seen[Len(seen)]
    BY <1>2
  <2>2. Len(seen) \in 1..Len(seen) /\ seen[i] \in Nat /\ seen[Len(seen)] \in Nat
    BY <1>4
  <2>3. seen[Len(seen)] <= seen[i]
    <3>1. CASE i = Len(seen)
      BY <2>2, <3>1
    <3>2. CASE i # Len(seen)
      <4>1. i < Len(seen)
        BY <1>4, <3>2
      <4> QED BY <1>6, <2>2, <4>1
    <3> QED BY <3>1, <3>2
  <2> QED BY <1>2, <2>1, <2>2, <2>3
<1>9. Descends(all)
  <2> SUFFICES ASSUME NEW i \in 1..Len(all), NEW j \in 1..Len(all), i < j PROVE all[j] < all[i]
    BY <1>4 DEF Descends
  <2>1. CASE i \in 1..Len(seen) /\ j \in 1..Len(seen)
    BY <1>4, <1>6, <2>1
  <2>2. CASE i \in 1..Len(seen) /\ j \notin 1..Len(seen)
    <3>1. j - Len(seen) \in 1..c /\ all[j] = newest[j - Len(seen)] /\ all[i] = seen[i]
      BY <1>4, <1>5, <2>2
    <3>2. j - Len(seen) \in 1..n
      BY <1>1, <3>1
    <3> QED BY <1>8, <2>2, <3>1, <3>2
  <2>3. CASE i \notin 1..Len(seen)
    <3>1. j \notin 1..Len(seen)
      BY <1>4, <2>3
    <3>2. /\ i - Len(seen) \in 1..c /\ all[i] = newest[i - Len(seen)]
          /\ j - Len(seen) \in 1..c /\ all[j] = newest[j - Len(seen)]
      BY <1>5, <2>3, <3>1
    <3>3. i - Len(seen) < j - Len(seen) /\ i - Len(seen) \in 1..n /\ j - Len(seen) \in 1..n
      BY <1>1, <1>4, <3>2
    <3> QED BY <1>7, <3>2, <3>3
  <2> QED BY <2>1, <2>2, <2>3
<1>10. ToSet(all) = ToSet(seen) \cup {newest[i] : i \in 1..c}
  <2>1. DOMAIN all = 1..Len(all) /\ DOMAIN seen = 1..Len(seen)
    BY <1>4
  <2>2. ASSUME NEW x \in ToSet(all) PROVE x \in ToSet(seen) \cup {newest[i] : i \in 1..c}
    <3>1. PICK i \in 1..Len(all) : x = all[i]
      BY <2>1, <2>2 DEF ToSet
    <3>2. CASE i \in 1..Len(seen)
      BY <1>4, <2>1, <3>1, <3>2 DEF ToSet
    <3>3. CASE i \notin 1..Len(seen)
      BY <1>5, <3>1, <3>3
    <3> QED BY <3>2, <3>3
  <2>3. ASSUME NEW x \in ToSet(seen) PROVE x \in ToSet(all)
    <3>1. PICK i \in 1..Len(seen) : x = seen[i]
      BY <2>1, <2>3 DEF ToSet
    <3>2. i \in 1..Len(all) /\ all[i] = x
      BY <1>1, <1>4, <3>1
    <3> QED BY <2>1, <3>2 DEF ToSet
  <2>4. ASSUME NEW i \in 1..c PROVE newest[i] \in ToSet(all)
    <3>1. all[Len(seen) + i] = newest[i]
      BY <1>4
    <3> DEFINE l == Len(seen)
    <3>2. l \in Nat /\ Len(all) = l + c
      BY <1>4
    <3> HIDE DEF l
    <3>3. l + i \in 1..Len(all)
      BY <1>1, <3>2
    <3> QED BY <2>1, <3>1, <3>3 DEF ToSet, l
  <2> QED BY <2>2, <2>3, <2>4
<1>11. rest = {newest[i] : i \in 1..n}
  BY <1>2 DEF ToSet
<1>12. ToSet(<<>>) = {}
  BY DEF ToSet
<1>13. ASSUME n <= limit PROVE ToSet(all) = W
  <2>1. ToSet(all) = ToSet(seen) \cup rest
    BY <1>1, <1>10, <1>11, <1>13
  <2> QED BY <1>12, <2>1
<1>14. ASSUME ~(n <= limit)
       PROVE  /\ all # <<>> /\ taken[limit] = all[Len(all)] /\ taken[limit] \in rest
              /\ ToSet(all) = Above(W, taken[limit])
  <2>1. c = limit /\ limit \in 1..c /\ limit \in 1..n
    BY <1>1, <1>14
  <2>2. taken[limit] = newest[limit] /\ newest[limit] \in rest /\ newest[limit] \in Nat
    BY <1>2, <1>3, <2>1
  <2>3. all # <<>> /\ all[Len(all)] = newest[limit]
    BY <1>4, <2>1
  <2>4. {newest[i] : i \in 1..c} = {x \in rest : ~(x < newest[limit])}
    <3>1. ASSUME NEW i \in 1..c PROVE newest[i] \in rest /\ ~(newest[i] < newest[limit])
      <4>1. i \in 1..n /\ i <= limit
        BY <1>1, <2>1
      <4>2. CASE i = limit
        BY <2>2, <4>2
      <4>3. CASE i # limit
        <5>1. i < limit
          BY <4>1, <4>3
        <5>2. newest[limit] < newest[i]
          BY <1>7, <2>1, <4>1, <5>1
        <5> QED BY <1>2, <2>2, <4>1, <5>2
      <4> QED BY <4>2, <4>3
    <3>2. ASSUME NEW i \in 1..n, ~(newest[i] < newest[limit]) PROVE i \in 1..c
      <4>1. ~(limit < i)
        BY <1>7, <2>1, <3>2
      <4> QED BY <2>1, <4>1
    <3> QED BY <1>11, <3>1, <3>2
  <2>5. \A x \in ToSet(seen) : x \in W /\ x \in Nat /\ ~(x < newest[limit])
    <3>1. CASE seen = <<>>
      BY <1>12, <3>1
    <3>2. CASE seen # <<>>
      <4>1. Len(seen) \in 1..Len(seen) /\ seen[Len(seen)] \in Nat
        BY <1>4, <3>2
      <4>2. newest[limit] < seen[Len(seen)]
        BY <1>8, <2>1, <4>1
      <4> DEFINE last == seen[Len(seen)]
      <4>3. ToSet(seen) = {i \in W : ~(i < last)} /\ last \in Nat /\ newest[limit] < last
        BY <3>2, <4>1, <4>2
      <4> HIDE DEF last
      <4> SUFFICES ASSUME NEW x \in ToSet(seen) PROVE x \in W /\ x \in Nat /\ ~(x < newest[limit])
        OBVIOUS
      <4>4. x \in W /\ x \in Nat /\ ~(x < last)
        BY <4>3
      <4> QED BY <2>2, <4>3, <4>4
    <3> QED BY <3>1, <3>2
  <2>6. W = ToSet(seen) \cup rest
    BY <1>12
  <2>7. ToSet(all) = {i \in W : ~(i < newest[limit])}
    BY <1>10, <2>4, <2>5, <2>6
  <2> QED BY <2>2, <2>3, <2>7
<1> QED BY <1>4, <1>9, <1>13, <1>14 DEF c, taken, all, First, NowRead

(* The records a query is about are finitely many identifiers.              *)
LEMMA MatchingIs ==
  ASSUME NEW d, DbOk(d), NEW q \in Query
  PROVE  /\ Matching(d, q) \in SUBSET Nat /\ IsFiniteSet(Matching(d, q))
         /\ Matching(d, q) \subseteq Item \cup Context
<1> DEFINE s == q.source
           part == {r \in d.rows[s] : r.context \in q.within}
<1>1. s \in Source
  BY ArchiveStoreAssumption
<1>2. d \in DbForm /\ SourceOk(d, s)
  BY <1>1 DEF DbOk
<1>3. Keyed(d.rows[s]) /\ Keyed(d.talks[s]) /\ d.rows[s] \subseteq Row /\ d.talks[s] \subseteq Talk
  BY <1>1, <1>2, FormIs DEF SourceOk
<1>4. Keyed(part)
  <2>1. part \in SUBSET d.rows[s]
    OBVIOUS
  <2> HIDE DEF part
  <2>2. IsFiniteSet(part)
    BY <1>3, <2>1, FS_Subset DEF Keyed
  <2> QED BY <1>3, <2>1, <2>2 DEF Keyed
<1>5. IsFiniteSet(Ids(part)) /\ IsFiniteSet(Ids(d.talks[s]))
  BY <1>3, <1>4, CountByIds
<1>6. Ids(part) \subseteq Item
  BY <1>3 DEF Ids, Row
<1>7. Ids(d.talks[s]) \subseteq Context
  BY <1>3 DEF Ids, Talk
<1>8. Matching(d, q) = Ids(part) \/ Matching(d, q) = Ids(d.talks[s])
  BY DEF Matching
<1> QED BY <1>5, <1>6, <1>7, <1>8, ArchiveDbAssumption

(* They depend on the rows of its source alone.                             *)
LEMMA MatchingSame ==
  ASSUME NEW d, NEW e, NEW q, e.rows[q.source] = d.rows[q.source], e.talks[q.source] = d.talks[q.source]
  PROVE  Matching(e, q) = Matching(d, q)
BY DEF Matching

(* What is left to read, and the page it makes.                             *)
Rest(d, q, cursor) == {i \in Matching(d, q) : cursor = None \/ Earlier(q, i, cursor.last)}
Taken(newest) == SubSeq(newest, 1, IF Len(newest) < PageSize THEN Len(newest) ELSE PageSize)

Paged(d, q, cursor, page) ==
  LET newest == Newest(q, Rest(d, q, cursor))
  IN /\ Ready(d, q.source)
     /\ cursor = None \/ (cursor.query = q /\ cursor.generation = Generation(d, q.source))
     /\ page.items = Taken(newest)
     /\ Len(newest) <= PageSize => page.cursor = None
     /\ ~(Len(newest) <= PageSize) =>
           page.cursor = [query |-> q, generation |-> Generation(d, q.source),
                          last |-> Taken(newest)[PageSize]]

(* A page that was given: what it holds, and where its cursor stands.       *)
LEMMA PageIs ==
  ASSUME NEW d, NEW q, NEW cursor, Page(d, q, cursor, PageSize).reply # None
  PROVE  Paged(d, q, cursor, Page(d, q, cursor, PageSize).reply)
BY DEF Page, Refuse, Commit, Rest, Taken, Paged

(* A reader after a page: seen is what it had seen before.                  *)
Read(d, q, whole, seen, cursor) ==
  /\ q \in Query /\ seen \in Seq(Nat) /\ whole \in SUBSET Nat
  /\ Descends(seen)
  /\ cursor = None => ToSet(seen) = whole
  /\ cursor # None =>
       /\ cursor.query = q /\ cursor.generation = Generation(d, q.source)
       /\ seen # <<>> /\ cursor.last = seen[Len(seen)]
       /\ ToSet(seen) = Above(whole, cursor.last)
       /\ whole = Matching(d, q)

(* A reader that has read the newest of them has, with a page, the newest.  *)
LEMMA PageReads ==
  ASSUME NEW d, DbOk(d), NEW q \in Query, NEW cursor, Page(d, q, cursor, PageSize).reply # None,
         NEW seen \in Seq(Nat), Descends(seen),
         \/ cursor = None /\ seen = <<>>
         \/ /\ cursor # None /\ seen # <<>> /\ cursor.last = seen[Len(seen)]
            /\ ToSet(seen) = Above(Matching(d, q), cursor.last)
  PROVE  LET page == Page(d, q, cursor, PageSize).reply
         IN Read(d, q, Matching(d, q), seen \o page.items, page.cursor)
<1> DEFINE page == Page(d, q, cursor, PageSize).reply
           W == Matching(d, q)
           rest == Rest(d, q, cursor)
           newest == Newest(q, rest)
           n == Cardinality(rest)
           taken == Taken(newest)
           all == seen \o taken
<1>1. W \in SUBSET Nat /\ IsFiniteSet(W) /\ W \subseteq Item \cup Context
  BY MatchingIs
<1>2. rest \in SUBSET W
  BY DEF Rest
<1>3. rest \in SUBSET Nat /\ IsFiniteSet(rest)
  <2> HIDE DEF rest, W
  <2> QED BY <1>1, <1>2, FS_Subset
<1>4. \/ seen = <<>> /\ rest = W
      \/ /\ seen # <<>>
         /\ ToSet(seen) = Above(W, seen[Len(seen)]) /\ rest = Below(W, seen[Len(seen)])
  <2>1. CASE cursor = None /\ seen = <<>>
    <3>1. rest = W
      BY <2>1 DEF Rest
    <3> QED BY <2>1, <3>1
  <2>2. CASE /\ cursor # None /\ seen # <<>> /\ cursor.last = seen[Len(seen)]
             /\ ToSet(seen) = Above(Matching(d, q), cursor.last)
    <3> DEFINE last == cursor.last
    <3>1. last \in Nat
      <4>1. Len(seen) \in 1..Len(seen)
        BY <2>2, EmptySeq, LenProperties
      <4>2. seen[Len(seen)] \in Nat
        BY <4>1, ElementOfSeq
      <4> QED BY <2>2, <4>2
    <3>2. \A i \in W : Earlier(q, i, last) <=> i < last
      <4> HIDE DEF last, W
      <4> QED BY <1>1, <3>1, EarlierIs
    <3>3. rest = {i \in W : Earlier(q, i, last)}
      BY <2>2 DEF Rest
    <3>4. ToSet(seen) = Above(W, last) /\ last = seen[Len(seen)]
      BY <2>2
    <3> HIDE DEF rest, W, last
    <3>5. rest = Below(W, last)
      BY <3>2, <3>3 DEF Below
    <3> QED BY <2>2, <3>4, <3>5
  <2> QED BY <2>1, <2>2
<1> HIDE DEF rest, W
<1>5. n \in Nat /\ newest \in [1..n -> rest] /\ Descends(newest) /\ ToSet(newest) = rest
  BY <1>3, NewestIs
<1> HIDE DEF newest, n
<1>6. Len(newest) = n
  <2>1. newest \in [1..n -> Nat]
    BY <1>3, <1>5
  <2>2. newest \in Seq(Nat)
    BY <1>5, <2>1, SeqDef
  <2>3. Len(newest) \in Nat /\ 1..Len(newest) = 1..n
    BY <2>1, <2>2, LenProperties
  <2> QED BY <1>5, <2>3
<1>7. PageSize \in Nat \ {0} /\ None \notin Cursor
  BY ArchiveStoreAssumption
<1>8. taken = SubSeq(newest, 1, IF n < PageSize THEN n ELSE PageSize)
  BY <1>6 DEF Taken
<1> HIDE DEF taken
<1>9. /\ all \in Seq(Nat) /\ Descends(all)
      /\ n <= PageSize => ToSet(all) = W
      /\ ~(n <= PageSize) => /\ all # <<>> /\ taken[PageSize] = all[Len(all)] /\ taken[PageSize] \in rest
                             /\ ToSet(all) = Above(W, taken[PageSize])
  <2>1. Unread(W, seen, rest, newest, n)
    BY <1>1, <1>3, <1>4, <1>5 DEF Unread
  <2>2. NowRead(W, seen \o First(newest, n, PageSize), rest, First(newest, n, PageSize), n, PageSize)
    BY <1>7, <2>1, PageAdds
  <2>3. taken = First(newest, n, PageSize)
    BY <1>8 DEF First
  <2>4. NowRead(W, all, rest, taken, n, PageSize)
    BY <2>2, <2>3
  <2> HIDE DEF all
  <2> QED BY <2>4 DEF NowRead
<1>10. /\ page.items = taken /\ (n <= PageSize => page.cursor = None)
       /\ ~(n <= PageSize) => page.cursor = [query |-> q, generation |-> Generation(d, q.source),
                                            last |-> taken[PageSize]]
  BY <1>6, PageIs DEF newest, rest, taken, Paged
<1> HIDE DEF all, page
<1>11. CASE n <= PageSize
  <2>1. Read(d, q, W, all, page.cursor)
    BY <1>1, <1>9, <1>10, <1>11 DEF Read
  <2> QED BY <1>10, <2>1 DEF all, page, W
<1>12. CASE ~(n <= PageSize)
  <2> DEFINE c == [query |-> q, generation |-> Generation(d, q.source), last |-> taken[PageSize]]
  <2>1. q.source \in Source /\ d.run[q.source].rev \in Nat
    BY ArchiveStoreAssumption, FormIs DEF DbOk
  <2>2. c \in Cursor
    BY <1>1, <1>2, <1>9, <1>12, <2>1 DEF Cursor, Generation
  <2>3. c # None /\ c.query = q /\ c.generation = Generation(d, q.source) /\ c.last = taken[PageSize]
    BY <1>7, <2>2
  <2>4. page.cursor = c
    BY <1>10, <1>12
  <2> HIDE DEF c
  <2>5. Read(d, q, W, all, page.cursor)
    BY <1>1, <1>9, <1>12, <2>3, <2>4 DEF Read, W
  <2> QED BY <1>10, <2>5 DEF all, page, W
<1> QED BY <1>11, <1>12

-----------------------------------------------------------------------------
(* The store's steps.                                                       *)
LEMMA PagerKept ==
  ASSUME PagerOk, active = "v2", active' = active, DbOk(db), NEW n, Steps(db, db', n), pager' = Reading
  PROVE  PagerOk'
<1> SUFFICES ASSUME pager' # None PROVE PagerOk'
  BY DEF PagerOk
<1>1. pager # None /\ pager.cursor # None /\ pager' = pager
  BY DEF Reading
<1> DEFINE q == pager.query
           s == q.source
           c == pager.cursor
<1>2. /\ pager = [query |-> q, cursor |-> c, seen |-> pager.seen, whole |-> pager.whole]
      /\ q \in Query /\ pager.seen \in Seq(Nat) /\ pager.whole \in SUBSET Nat
      /\ Descends(pager.seen)
      /\ c.query = q /\ c.generation.source = s /\ c.generation.rev \in Nat
      /\ pager.seen # <<>> /\ c.last = pager.seen[Len(pager.seen)]
      /\ ToSet(pager.seen) = Above(pager.whole, c.last)
  BY <1>1 DEF PagerOk
<1>3. /\ Present(db, s) \/ db.task[s] # "none"
      /\ Present(db, s) => c.generation.rev <= db.run[s].rev
      /\ Present(db, s) /\ c.generation.rev = db.run[s].rev => pager.whole = Matching(db, q)
  BY <1>1 DEF PagerOk
<1>4. s \in Source
  BY <1>2, ArchiveStoreAssumption
<1>5. Goes(db, db', s, n) /\ SourceOk(db', s) /\ db.run[s].rev \in Nat /\ (db').run[s].rev \in Nat
  BY <1>4, FormIs DEF Steps, DbOk
<1> HIDE DEF q, s, c
<1>6. /\ Present(db', s) \/ (db').task[s] # "none"
      /\ Present(db', s) => Present(db, s)
  BY <1>3, <1>5 DEF Goes, SourceOk
<1>7. Present(db', s) => c.generation.rev <= (db').run[s].rev
  BY <1>2, <1>3, <1>5, <1>6 DEF Goes
<1>8. ASSUME Present(db', s), c.generation.rev = (db').run[s].rev PROVE pager.whole = Matching(db', q)
  <2>1. Present(db, s) /\ c.generation.rev <= db.run[s].rev /\ db.run[s].rev <= (db').run[s].rev
    BY <1>3, <1>5, <1>6, <1>8 DEF Goes
  <2>2. c.generation.rev = db.run[s].rev /\ db.run[s].rev = (db').run[s].rev
    BY <1>2, <1>5, <1>8, <2>1
  <2>3. (db').rows[s] = db.rows[s] /\ (db').talks[s] = db.talks[s]
    BY <1>5, <1>8, <2>1, <2>2 DEF Goes
  <2>4. Matching(db', q) = Matching(db, q)
    BY <2>3, MatchingSame DEF s
  <2> QED BY <1>3, <2>1, <2>2, <2>4
<1> QED BY <1>1, <1>2, <1>6, <1>7, <1>8 DEF PagerOk, q, s, c

(* The command of a worker: what it makes of the file.                      *)
LEMMA FileServed ==
  ASSUME FileOk, pc = "open", pc' = pc, active' = active, DbOk(db')
  PROVE  FileOk' /\ active = "v2" /\ DbOk(db)
BY DEF FileOk

(* The sessions through a step that is not about them.                      *)
LEMMA SessionsQuiet ==
  ASSUME StoreTypeOK, SessionsOk, pc' = pc, Steps(db, db', made + 1),
         UNCHANGED <<made, issued, flagged, revoked>>
  PROVE  SessionsOk'
<1> SUFFICES ASSUME NEW k \in issued, k.id \in revoked,
                    (db').run[k.source].session = k.id, (db').run[k.source].phase = "importing"
             PROVE  k.id \in flagged
  BY DEF SessionsOk
<1>1. k.source \in Source /\ k.id \in 1..made /\ made \in Nat
  BY DEF StoreTypeOK, SessionForm
<1>2. Goes(db, db', k.source, made + 1)
  BY <1>1 DEF Steps
<1>3. db.run[k.source].phase = "importing" /\ db.run[k.source].session = k.id
  BY <1>1, <1>2 DEF Goes
<1> QED BY <1>3 DEF SessionsOk

(* A session is issued under a number that was never given.                 *)
LEMMA SessionsIssued ==
  ASSUME StoreTypeOK, SessionsOk, pc = "open", pc' = pc, Steps(db, db', made + 1),
         NEW s \in Source, NEW print \in Archive \cup {None}, Issue(s, print)
  PROVE  /\ SessionsOk' /\ made' \in Nat /\ issued' \subseteq SessionForm' /\ revoked' \subseteq 1..made'
<1> DEFINE j == [id |-> made + 1, source |-> s, print |-> print]
<1>1. made' = made + 1 /\ issued' = issued \cup {j} /\ flagged' = flagged /\ revoked' = revoked
  BY DEF Issue
<1>2. made \in Nat /\ revoked \subseteq 1..made /\ \A k \in issued : k \in SessionForm
  BY DEF StoreTypeOK
<1>3. \A k \in issued : k.id \in 1..made /\ k.source \in Source
  BY <1>2 DEF SessionForm
<1>4. j.id = made + 1 /\ j.id \notin revoked /\ j.id \notin 1..made
  BY <1>2
<1>5. issued' \subseteq SessionForm'
  <2>1. 1..made \subseteq 1..(made + 1) /\ made + 1 \in 1..(made + 1)
    BY <1>2
  <2>2. j \in [id : 1..(made + 1), source : Source, print : Archive \cup {None}]
    BY <2>1
  <2>3. \A k \in issued : k \in [id : 1..(made + 1), source : Source, print : Archive \cup {None}]
    BY <1>2, <2>1 DEF SessionForm
  <2> QED BY <1>1, <2>2, <2>3 DEF SessionForm
<1>6. revoked' \subseteq 1..made' /\ made' \in Nat
  BY <1>1, <1>2
<1> HIDE DEF j
<1>7. \A a, b \in issued' : a.id = b.id => a = b
  BY <1>1, <1>3, <1>4 DEF SessionsOk
<1>8. ASSUME NEW k \in issued', k.id \in revoked',
             (db').run[k.source].session = k.id, (db').run[k.source].phase = "importing"
      PROVE  k.id \in flagged'
  <2>1. k \in issued /\ k.id \in revoked
    BY <1>1, <1>4, <1>8
  <2>2. Goes(db, db', k.source, made + 1)
    BY <1>3, <2>1 DEF Steps
  <2>3. db.run[k.source].phase = "importing" /\ db.run[k.source].session = k.id
    <3>1. k.id # made + 1
      BY <1>2, <1>3, <2>1
    <3> QED BY <1>8, <2>2, <3>1 DEF Goes
  <2> QED BY <1>1, <2>1, <2>3 DEF SessionsOk
<1> QED BY <1>5, <1>6, <1>7, <1>8 DEF SessionsOk

(* A session that ends no longer holds its run.                             *)
LEMMA SessionsEnded ==
  ASSUME StoreTypeOK, SessionsOk, pc' = pc, Steps(db, db', made + 1),
         NEW k \in issued, UNCHANGED <<made, issued, flagged>>,
         \/ revoked' = revoked
         \/ revoked' = revoked \cup {k.id} /\ (db').run[k.source].phase # "importing"
  PROVE  SessionsOk' /\ revoked' \subseteq 1..made'
<1>1. \A j \in issued : j.source \in Source /\ j.id \in 1..made
  BY DEF StoreTypeOK, SessionForm
<1>2. made \in Nat /\ revoked' \subseteq 1..made'
  BY <1>1 DEF StoreTypeOK
<1>3. ASSUME NEW j \in issued, j.id \in revoked',
             (db').run[j.source].session = j.id, (db').run[j.source].phase = "importing"
      PROVE  j.id \in flagged
  <2>1. j.id \in revoked
    BY <1>3 DEF SessionsOk
  <2>2. Goes(db, db', j.source, made + 1)
    BY <1>1 DEF Steps
  <2>3. db.run[j.source].phase = "importing" /\ db.run[j.source].session = j.id
    BY <1>1, <1>2, <1>3, <2>2 DEF Goes
  <2> QED BY <2>1, <2>3 DEF SessionsOk
<1> QED BY <1>2, <1>3 DEF SessionsOk

-----------------------------------------------------------------------------
(* What a step of the worker keeps of the rows.                             *)
RowsMove ==
  \A s \in Source : db'.rows[s] # db.rows[s] =>
     \/ db'.task[s] # "none" /\ db'.rows[s] = {}
     \/ \E k \in issued \ {x \in issued : x.id \in revoked} :
           /\ k.source = s /\ k.id = writer'
           /\ Len(db'.run[s].receipts) = Len(db.run[s].receipts) + 1

(* A command that keeps its callers' sessions, or issues one.               *)
LEMMA Executed ==
  ASSUME StoreInv, pc = "open", pc' = "open", active' = active, pager' = Reading,
         Steps(db, db', made + 1),
         \/ UNCHANGED <<made, issued, flagged, revoked>>
         \/ \E s \in Source, print \in Archive \cup {None} : Issue(s, print),
         held' # None => held'.source \in Source
  PROVE  StoreInv'
<1> USE DEF StoreInv
<1>1. DbOk(db') /\ FileOk' /\ active = "v2" /\ DbOk(db)
  BY FileServed DEF Steps
<1>2. PagerOk'
  BY <1>1, PagerKept
<1>3. CASE UNCHANGED <<made, issued, flagged, revoked>>
  <2>1. SessionsOk'
    BY <1>3, SessionsQuiet
  <2>2. StoreTypeOK'
    BY <1>1, <1>3 DEF StoreTypeOK, SessionForm, DbOk
  <2> QED BY <1>1, <1>2, <2>1, <2>2
<1>4. CASE \E s \in Source, print \in Archive \cup {None} : Issue(s, print)
  <2>1. /\ SessionsOk' /\ made' \in Nat /\ issued' \subseteq SessionForm' /\ revoked' \subseteq 1..made'
    BY <1>4, SessionsIssued
  <2>2. StoreTypeOK'
    BY <1>1, <2>1 DEF StoreTypeOK, DbOk
  <2> QED BY <1>1, <1>2, <2>1, <2>2
<1> QED BY <1>3, <1>4

(* A step of an open that leaves the content as it is.                      *)
LEMMA Opened ==
  ASSUME StoreInv, pc # "open", UNCHANGED <<db, made, issued, flagged, revoked, held, pager>>,
         pc' \in {"closed", "created", "migrating", "validated", "failed"},
         active' \in {active, "empty"}, active' # active => active = "absent",
         pc' = "created" => active' = "empty",
         pc' = "migrating" => active' = "v1" /\ Validates(Upgraded(db)),
         pc' = "validated" => active' = "v2"
  PROVE  StoreInv' /\ RowsMove
<1> USE DEF StoreInv
<1>1. StoreTypeOK'
  BY DEF StoreTypeOK, SessionForm
<1>2. FileOk'
  BY DEF FileOk
<1>3. SessionsOk'
  BY DEF SessionsOk
<1>4. PagerOk'
  BY DEF PagerOk
<1>5. RowsMove
  BY DEF RowsMove
<1> QED BY <1>1, <1>2, <1>3, <1>4, <1>5

(* The steps of an open keep the invariant.                                 *)
LEMMA OpenAbsentKeeps ==
  ASSUME StoreInv, OpenAbsent
  PROVE  StoreInv' /\ RowsMove
BY Opened DEF OpenAbsent, Opening, Callers

LEMMA OpenExistingKeeps ==
  ASSUME StoreInv, OpenExisting
  PROVE  StoreInv' /\ RowsMove
BY Opened DEF OpenExisting, Opening, Callers, file

LEMMA OpenLegacyKeeps ==
  ASSUME StoreInv, OpenLegacy
  PROVE  StoreInv' /\ RowsMove
BY Opened DEF OpenLegacy, Opening, Callers

LEMMA CandidateDoneKeeps ==
  ASSUME StoreInv, CandidateDone
  PROVE  StoreInv' /\ RowsMove
<1>1. active = "v1" /\ Validates(Upgraded(db))
  BY DEF StoreInv, FileOk, CandidateDone, Opening
<1> QED BY <1>1, Opened DEF CandidateDone, Opening, Callers

LEMMA OpenFailsKeeps ==
  ASSUME StoreInv, OpenFails
  PROVE  StoreInv' /\ RowsMove
BY Opened DEF OpenFails, Opening, Callers, file

(* The steps of an open that write the content.                             *)
LEMMA InitializeKeeps ==
  ASSUME StoreInv, Initialize
  PROVE  StoreInv' /\ RowsMove
<1> USE DEF StoreInv
<1>1. active = "empty" /\ db = EmptyDb /\ active' = "v2" /\ db' = EmptyDb /\ pc' = "validated" /\ pc = "created"
      /\ UNCHANGED <<made, issued, flagged, revoked, held, pager>>
  BY DEF Initialize, Opening, Callers, FileOk
<1>2. DbOk(EmptyDb)
  BY EmptyDbOk
<1>3. StoreTypeOK'
  BY <1>1 DEF StoreTypeOK, SessionForm
<1>4. FileOk'
  BY <1>1, <1>2 DEF FileOk
<1>5. SessionsOk'
  BY <1>1 DEF SessionsOk
<1>6. PagerOk'
  BY <1>1 DEF PagerOk
<1>7. RowsMove
  BY <1>1 DEF RowsMove
<1> QED BY <1>3, <1>4, <1>5, <1>6, <1>7

(* The rename puts the validated upgrade in place.                          *)
LEMMA ReplaceKeeps ==
  ASSUME StoreInv, Replace
  PROVE  StoreInv' /\ RowsMove
<1> USE DEF StoreInv
<1>1. active = "v1" /\ Validates(Upgraded(db)) /\ db \in Legacy
  BY DEF Replace, Opening, FileOk
<1>2. active' = "v2" /\ db' = Upgraded(db) /\ pc' \in {"validated", "failed"} /\ pc = "migrating"
      /\ UNCHANGED <<made, issued, flagged, revoked, held, pager>>
  BY DEF Replace, Opening, Callers
<1>3. DbOk(db') /\ (db').rows = db.rows
  BY <1>1, <1>2, UpgradedOk
<1>4. StoreTypeOK'
  BY <1>2, <1>3 DEF StoreTypeOK, SessionForm, DbOk
<1>5. FileOk'
  BY <1>2, <1>3 DEF FileOk
<1>6. SessionsOk'
  BY <1>2 DEF SessionsOk
<1>7. PagerOk'
  BY <1>1, <1>2 DEF PagerOk
<1>8. RowsMove
  BY <1>3 DEF RowsMove
<1> QED BY <1>4, <1>5, <1>6, <1>7, <1>8

(* An open ends with every import interrupted.                              *)
LEMMA OpenFinishKeeps ==
  ASSUME StoreInv, OpenFinish
  PROVE  StoreInv' /\ RowsMove
<1> USE DEF StoreInv
<1>1. /\ pc = "validated" /\ db' = InterruptRuns(db) /\ pc' = "open" /\ active' = active
      /\ UNCHANGED <<made, issued, flagged, revoked, held, pager>>
  BY DEF OpenFinish, Opening, Callers
<1>2. active = "v2" /\ DbOk(db)
  BY <1>1 DEF FileOk
<1>3. Steps(db, db', made + 1) /\ (db').rows = db.rows
  BY <1>1, <1>2, InterruptSteps
<1>4. StoreTypeOK'
  BY <1>1, <1>3 DEF StoreTypeOK, SessionForm, Steps, DbOk
<1>5. FileOk'
  BY <1>1, <1>2, <1>3 DEF FileOk, Steps
<1>6. SessionsOk'
  BY <1>1 DEF SessionsOk
<1>7. PagerOk'
  <2>1. CASE pager = Reading
    BY <1>1, <1>2, <1>3, <2>1, PagerKept
  <2>2. CASE pager # Reading
    <3>1. pager # None /\ pager.cursor = None /\ pager' = pager
      BY <1>1, <2>2 DEF Reading
    <3> QED BY <1>1, <3>1 DEF PagerOk
  <2> QED BY <2>1, <2>2
<1>8. RowsMove
  BY <1>3 DEF RowsMove
<1> QED BY <1>4, <1>5, <1>6, <1>7, <1>8

(* A death loses the sessions; the file is as it was.                       *)
LEMMA DieKeeps ==
  ASSUME StoreInv, Die
  PROVE  StoreInv' /\ RowsMove
<1> USE DEF StoreInv
<1>1. /\ pc' = "closed" /\ revoked' = revoked \cup {k.id : k \in issued} /\ issued' = {} /\ held' = None
      /\ active' = active /\ db' = db /\ made' = made /\ pager' = Reading
  BY DEF Die
<1>2. {k.id : k \in issued} \subseteq 1..made
  BY DEF StoreTypeOK, SessionForm
<1>3. StoreTypeOK'
  BY <1>1, <1>2 DEF StoreTypeOK, SessionForm
<1>4. FileOk'
  BY <1>1 DEF FileOk
<1>5. SessionsOk'
  BY <1>1 DEF SessionsOk
<1>6. PagerOk'
  <2>1. pager' = pager \/ pager' = None
    BY <1>1 DEF Reading
  <2> QED BY <1>1, <2>1 DEF PagerOk
<1>7. RowsMove
  BY <1>1 DEF RowsMove
<1> QED BY <1>3, <1>4, <1>5, <1>6, <1>7

-----------------------------------------------------------------------------
(* The commands.                                                            *)
LEMMA Serving ==
  ASSUME StoreInv, NEW result, NEW who, Execute(result, who)
  PROVE  /\ pc = "open" /\ pc' = "open" /\ active' = active /\ pager' = Reading
         /\ db' = result.db /\ writer' = who
         /\ active = "v2" /\ DbOk(db) /\ made \in Nat
BY DEF StoreInv, FileOk, StoreTypeOK, Execute, Serve

(* A step that leaves the rows alone.                                       *)
LEMMA SameRows ==
  ASSUME db'.rows = db.rows
  PROVE  RowsMove
BY DEF RowsMove

(* The commands keep the invariant, one after another.                      *)
LEMMA ResolveKeeps ==
  ASSUME StoreInv, NEW print \in Archive, Resolve(print)
  PROVE  StoreInv' /\ RowsMove
<1>1. PICK fresh \in Source :
        LET result == ResolveOrRegister(db, print, fresh, made + 1)
            s == result.reply.source
        IN /\ MappedTo(db, print) = {} => Unused(fresh)
           /\ Execute(result, None)
           /\ held' = IF result.reply.disposition = "retry"
                      THEN [source |-> s, run |-> result.reply.checkpoint] ELSE held
           /\ IF result.reply.disposition = "start" THEN Issue(s, print)
              ELSE UNCHANGED <<made, issued, flagged, revoked>>
  BY DEF Resolve
<1> DEFINE result == ResolveOrRegister(db, print, fresh, made + 1)
           s == result.reply.source
<1>2. /\ pc = "open" /\ pc' = "open" /\ active' = active /\ pager' = Reading /\ db' = result.db
      /\ DbOk(db) /\ made + 1 \in Nat
  BY <1>1, Serving
<1>3. Steps(db, result.db, made + 1) /\ result.db.rows = db.rows /\ s \in Source
  BY <1>1, <1>2, ResolveSteps DEF Unused
<1>4. held' # None => held'.source \in Source
  <2>1. CASE held' = [source |-> s, run |-> result.reply.checkpoint]
    BY <1>3, <2>1
  <2>2. CASE held' = held
    BY <2>2 DEF StoreInv, StoreTypeOK
  <2> QED BY <1>1, <2>1, <2>2
<1>5. \/ UNCHANGED <<made, issued, flagged, revoked>>
      \/ \E x \in Source, p \in Archive \cup {None} : Issue(x, p)
  BY <1>1, <1>3
<1>6. Steps(db, db', made + 1) /\ (db').rows = db.rows
  BY <1>2, <1>3
<1> HIDE DEF result, s
<1> QED BY <1>2, <1>4, <1>5, <1>6, Executed, SameRows

LEMMA RegisterKeeps ==
  ASSUME StoreInv, NEW s \in Source, NEW print \in Archive, Register(s, print)
  PROVE  StoreInv' /\ RowsMove
<1> DEFINE result == RegisterSource(db, s, print)
<1>1. /\ pc = "open" /\ pc' = "open" /\ active' = active /\ pager' = Reading /\ db' = result.db
      /\ DbOk(db) /\ made + 1 \in Nat /\ UNCHANGED <<made, issued, flagged, revoked, held>>
  BY Serving DEF Register, Quiet
<1>2. Steps(db, result.db, made + 1) /\ result.db.rows = db.rows
  BY <1>1, RegisterSteps
<1>3. held' # None => held'.source \in Source
  BY <1>1 DEF StoreInv, StoreTypeOK
<1> HIDE DEF result
<1> QED BY <1>1, <1>2, <1>3, Executed, SameRows

(* What a session is issued for.                                            *)
LEMMA PrintIs ==
  ASSUME StoreInv, NEW s \in Source
  PROVE  db.source[s].print \in Archive \cup {None}
BY FormIs DEF StoreInv, StoreTypeOK, SourceForm

LEMMA BeginKeeps ==
  ASSUME StoreInv, NEW s \in Source, Begin(s)
  PROVE  StoreInv' /\ RowsMove
<1> DEFINE result == BeginImport(db, s, made + 1)
<1>1. /\ Execute(result, None) /\ held' = held
      /\ Issue(s, db.source[s].print) \/ UNCHANGED <<made, issued, flagged, revoked>>
  BY DEF Begin
<1>2. /\ pc = "open" /\ pc' = "open" /\ active' = active /\ pager' = Reading /\ db' = result.db
      /\ DbOk(db) /\ made + 1 \in Nat
  BY <1>1, Serving
<1>3. Steps(db, result.db, made + 1) /\ result.db.rows = db.rows
  BY <1>2, BeginSteps
<1>4. held' # None => held'.source \in Source
  BY <1>1 DEF StoreInv, StoreTypeOK
<1>5. \/ UNCHANGED <<made, issued, flagged, revoked>>
      \/ \E x \in Source, p \in Archive \cup {None} : Issue(x, p)
  BY <1>1, PrintIs
<1> HIDE DEF result
<1> QED BY <1>2, <1>3, <1>4, <1>5, Executed, SameRows

LEMMA StatusKeeps ==
  ASSUME StoreInv, NEW s \in Source, Status(s)
  PROVE  StoreInv' /\ RowsMove
<1> DEFINE result == ImportStatus(db, s, db.source[s].print)
<1>1. /\ Execute(result, None) /\ held' = [source |-> s, run |-> db.run[s]]
      /\ UNCHANGED <<made, issued, flagged, revoked>>
  BY DEF Status
<1>2. /\ pc = "open" /\ pc' = "open" /\ active' = active /\ pager' = Reading /\ db' = result.db
      /\ DbOk(db)
  BY <1>1, Serving
<1>3. result.db = db
  BY DEF ImportStatus, Refuse, Commit
<1>4. Steps(db, db', made + 1)
  BY <1>2, <1>3, NothingDone
<1>5. held'.source \in Source
  BY <1>1
<1> HIDE DEF result
<1> QED BY <1>1, <1>2, <1>3, <1>4, <1>5, Executed, SameRows

LEMMA RetryKeeps ==
  ASSUME StoreInv, Retry
  PROVE  StoreInv' /\ RowsMove
<1> DEFINE s == held.source
           result == RetryImport(db, s, held.run, made + 1)
<1>0. s \in Source
  BY DEF Retry, StoreInv, StoreTypeOK
<1>1. /\ Execute(result, None) /\ held' = held
      /\ Issue(s, db.source[s].print) \/ UNCHANGED <<made, issued, flagged, revoked>>
  BY DEF Retry
<1> HIDE DEF s
<1>2. /\ pc = "open" /\ pc' = "open" /\ active' = active /\ pager' = Reading /\ db' = result.db
      /\ DbOk(db) /\ made + 1 \in Nat
  BY <1>1, Serving
<1>3. Steps(db, result.db, made + 1) /\ result.db.rows = db.rows
  BY <1>0, <1>2, RetrySteps
<1>4. held' # None => held'.source \in Source
  BY <1>1 DEF StoreInv, StoreTypeOK
<1>5. \/ UNCHANGED <<made, issued, flagged, revoked>>
      \/ \E x \in Source, p \in Archive \cup {None} : Issue(x, p)
  BY <1>0, <1>1, PrintIs
<1> HIDE DEF result
<1> QED BY <1>2, <1>3, <1>4, <1>5, Executed, SameRows

(* The one command that writes rows: the session that holds the run.        *)
LEMMA AppendKeeps ==
  ASSUME StoreInv, NEW k \in issued, NEW sequence, NEW b \in Batch, AppendCall(k, sequence, b)
  PROVE  StoreInv' /\ RowsMove
<1> DEFINE result == AppendBatch(db, k, sequence, b)
<1>1. /\ Execute(result, k.id) /\ UNCHANGED <<made, issued, flagged, revoked, held>> /\ k.id \notin flagged
  BY DEF AppendCall, Quiet, Flagged
<1>2. /\ pc = "open" /\ pc' = "open" /\ active' = active /\ pager' = Reading /\ db' = result.db
      /\ DbOk(db) /\ writer' = k.id
  BY <1>1, Serving
<1>3. k.source \in Source
  BY DEF StoreInv, StoreTypeOK, SessionForm
<1>4. Grown(db, k, result.db, made + 1)
  BY <1>2, <1>3, AppendSteps
<1>5. held' # None => held'.source \in Source
  BY <1>1 DEF StoreInv, StoreTypeOK
<1> HIDE DEF result
<1>6. StoreInv'
  BY <1>1, <1>2, <1>4, <1>5, Executed DEF Grown
<1>7. RowsMove
  <2> SUFFICES ASSUME NEW x \in Source, (db').rows[x] # db.rows[x]
               PROVE  \E j \in issued \ {y \in issued : y.id \in revoked} :
                         /\ j.source = x /\ j.id = writer'
                         /\ Len((db').run[x].receipts) = Len(db.run[x].receipts) + 1
    BY DEF RowsMove
  <2>1. x = k.source /\ ActiveSession(db, k) = "ok"
        /\ Len((db').run[x].receipts) = Len(db.run[x].receipts) + 1
    BY <1>2, <1>4 DEF Grown
  <2>2. db.run[k.source].session = k.id /\ db.run[k.source].phase = "importing"
    BY <2>1, ActiveIs
  <2>3. k.id \notin revoked
    BY <1>1, <2>2 DEF StoreInv, SessionsOk
  <2> QED BY <1>2, <2>1, <2>3
<1> QED BY <1>6, <1>7

(* The calls that end a session.                                            *)
LEMMA EndsKeeps ==
  ASSUME StoreInv, NEW k \in issued, NEW result, Ends(k, result),
         DbOk(db) => Ended(db, k, result, made + 1)
  PROVE  StoreInv' /\ RowsMove
<1> USE DEF StoreInv
<1>1. /\ Execute(result, None) /\ UNCHANGED <<made, issued, flagged, held>>
      /\ revoked' = IF result.error \in {"ok", "IncompleteSource"} THEN revoked \cup {k.id} ELSE revoked
  BY DEF Ends
<1>2. /\ pc = "open" /\ pc' = "open" /\ active' = active /\ pager' = Reading /\ db' = result.db
      /\ DbOk(db) /\ active = "v2"
  BY <1>1, Serving
<1>3. Steps(db, db', made + 1) /\ (db').rows = db.rows
      /\ (result.error \in {"ok", "IncompleteSource"} => (db').run[k.source].phase # "importing")
  BY <1>2 DEF Ended
<1>4. \/ revoked' = revoked
      \/ revoked' = revoked \cup {k.id} /\ (db').run[k.source].phase # "importing"
  BY <1>1, <1>3
<1>5. SessionsOk' /\ revoked' \subseteq 1..made'
  BY <1>1, <1>2, <1>3, <1>4, SessionsEnded
<1>6. DbOk(db') /\ FileOk'
  BY <1>2, <1>3, FileServed DEF Steps
<1>7. PagerOk'
  BY <1>2, <1>3, PagerKept
<1>8. StoreTypeOK'
  BY <1>1, <1>2, <1>5, <1>6 DEF StoreTypeOK, SessionForm, DbOk
<1> QED BY <1>3, <1>5, <1>6, <1>7, <1>8, SameRows

LEMMA EndingsKeep ==
  ASSUME StoreInv, NEW k \in issued, Finish(k) \/ Cancel(k) \/ Fail(k)
  PROVE  StoreInv' /\ RowsMove
<1>0. k.source \in Source
  BY DEF StoreInv, StoreTypeOK, SessionForm
<1>1. CASE Finish(k)
  BY <1>0, <1>1, EndsKeeps, FinishEnds DEF Finish
<1>2. CASE Cancel(k)
  BY <1>0, <1>2, EndsKeeps, CancelEnds DEF Cancel
<1>3. CASE Fail(k)
  BY <1>0, <1>3, EndsKeeps, FailEnds DEF Fail
<1> QED BY <1>1, <1>2, <1>3

(* A flag raised leaves the file alone.                                     *)
LEMMA RaiseKeeps ==
  ASSUME StoreInv, NEW k \in issued, Raise(k)
  PROVE  StoreInv' /\ RowsMove
<1> USE DEF StoreInv
<1>1. /\ flagged' = flagged \cup {k.id} /\ revoked' = revoked \cup {k.id} /\ pager' = Reading
      /\ UNCHANGED <<active, db, pc, made, issued, held>>
  BY DEF Raise, file
<1>2. k.id \in 1..made
  BY DEF StoreTypeOK, SessionForm
<1>3. StoreTypeOK'
  BY <1>1, <1>2 DEF StoreTypeOK, SessionForm
<1>4. FileOk'
  BY <1>1 DEF FileOk
<1>5. SessionsOk'
  BY <1>1 DEF SessionsOk
<1>6. PagerOk'
  <2>1. pager' = pager \/ pager' = None
    BY <1>1 DEF Reading
  <2> QED BY <1>1, <2>1 DEF PagerOk
<1>7. RowsMove
  BY <1>1 DEF RowsMove
<1> QED BY <1>3, <1>4, <1>5, <1>6, <1>7

(* A removal, compacted or not.                                             *)
LEMMA RemoveKeeps ==
  ASSUME StoreInv, NEW s \in Source, RemoveCall(s)
  PROVE  StoreInv' /\ RowsMove
<1> DEFINE removed == RemoveSource(db, s)
<1>1. PICK compacted \in BOOLEAN :
         Execute([db |-> IF compacted THEN RetryCleanup(removed, s) ELSE removed], None)
  BY DEF RemoveCall
<1>2. UNCHANGED <<made, issued, flagged, revoked, held>>
  BY DEF RemoveCall, Quiet
<1>3. /\ pc = "open" /\ pc' = "open" /\ active' = active /\ pager' = Reading
      /\ db' = (IF compacted THEN RetryCleanup(removed, s) ELSE removed) /\ DbOk(db)
  <2> DEFINE r == [db |-> IF compacted THEN RetryCleanup(removed, s) ELSE removed]
  <2>1. r.db = IF compacted THEN RetryCleanup(removed, s) ELSE removed
    OBVIOUS
  <2> HIDE DEF removed
  <2>2. Execute(r, None)
    BY <1>1
  <2> HIDE DEF r
  <2> QED BY <2>1, <2>2, Serving
<1>4. Steps(db, removed, made + 1) /\ Erased(db, removed)
  BY <1>3, RemoveSteps
<1> HIDE DEF removed
<1>5. /\ Steps(removed, RetryCleanup(removed, s), made + 1)
      /\ RetryCleanup(removed, s).rows = removed.rows
      /\ \A x \in Source : removed.task[x] # "none" => RetryCleanup(removed, s).task[x] # "none"
  BY <1>4, CleanupSteps DEF Steps
<1>6. Steps(db, db', made + 1)
  <2>1. Steps(db, RetryCleanup(removed, s), made + 1)
    BY <1>3, <1>4, <1>5, StepsCompose
  <2> QED BY <1>3, <1>4, <2>1
<1>7. RowsMove
  <2>1. \A x \in Source : (db').rows[x] # db.rows[x] => (db').task[x] # "none" /\ (db').rows[x] = {}
    BY <1>3, <1>4, <1>5 DEF Erased
  <2> QED BY <2>1 DEF RowsMove
<1>8. held' # None => held'.source \in Source
  BY <1>2 DEF StoreInv, StoreTypeOK
<1> QED BY <1>2, <1>3, <1>6, <1>7, <1>8, Executed

LEMMA CleanupKeeps ==
  ASSUME StoreInv, NEW s \in Source, Cleanup(s)
  PROVE  StoreInv' /\ RowsMove
<1> DEFINE r == [db |-> RetryCleanup(db, s)]
<1>1. Execute(r, None) /\ UNCHANGED <<made, issued, flagged, revoked, held>>
  BY DEF Cleanup, Quiet
<1>2. r.db = RetryCleanup(db, s)
  OBVIOUS
<1> HIDE DEF r
<1>3. /\ pc = "open" /\ pc' = "open" /\ active' = active /\ pager' = Reading /\ db' = r.db /\ DbOk(db)
  BY <1>1, Serving
<1>4. Steps(db, db', made + 1) /\ (db').rows = db.rows
  BY <1>2, <1>3, CleanupSteps
<1>5. held' # None => held'.source \in Source
  BY <1>1 DEF StoreInv, StoreTypeOK
<1> QED BY <1>1, <1>3, <1>4, <1>5, Executed, SameRows

-----------------------------------------------------------------------------
(* Reading pages.                                                           *)
LEMMA ReadOk ==
  ASSUME StoreInv, active' = "v2", db' = db, NEW q, DbOk(db), Ready(db, q.source),
         NEW c, NEW seen, NEW whole, Read(db, q, whole, seen, c),
         pager' = [query |-> q, cursor |-> c, seen |-> seen, whole |-> whole]
  PROVE  PagerOk'
<1> DEFINE s == q.source
<1>1. /\ q \in Query /\ seen \in Seq(Nat) /\ whole \in SUBSET Nat /\ Descends(seen)
      /\ c = None => ToSet(seen) = whole
      /\ c # None => /\ c.query = q /\ c.generation = Generation(db, s)
                     /\ seen # <<>> /\ c.last = seen[Len(seen)]
                     /\ ToSet(seen) = Above(whole, c.last)
                     /\ whole = Matching(db, q)
  BY DEF Read
<1>2. Present(db', s)
  BY DEF Ready, Present
<1>3. c # None => c.generation.source = s /\ c.generation.rev = (db').run[s].rev
  BY <1>1 DEF Generation
<1>4. (db').run[s].rev \in Nat
  BY <1>1, FormIs, ArchiveStoreAssumption DEF DbOk
<1>5. c # None => c.generation.rev \in Nat /\ c.generation.rev <= (db').run[s].rev
  BY <1>3, <1>4
<1>6. Matching(db', q) = Matching(db, q)
  OBVIOUS
<1>7. pager'.query = q /\ pager'.cursor = c /\ pager'.seen = seen /\ pager'.whole = whole
  OBVIOUS
<1> QED BY <1>1, <1>2, <1>3, <1>5, <1>6, <1>7 DEF PagerOk

(* A step that reads leaves file and sessions as they were.                 *)
LEMMA OnlyRead ==
  ASSUME StoreInv, pc' = pc, active' = active, db' = db, PagerOk',
         UNCHANGED <<made, issued, flagged, revoked, held>>
  PROVE  StoreInv' /\ RowsMove
<1> USE DEF StoreInv
<1>1. StoreTypeOK'
  BY DEF StoreTypeOK, SessionForm
<1>2. FileOk'
  BY DEF FileOk
<1>3. SessionsOk'
  BY DEF SessionsOk
<1>4. RowsMove
  BY DEF RowsMove
<1> QED BY <1>1, <1>2, <1>3, <1>4

(* What a read finds.                                                       *)
LEMMA Served ==
  ASSUME StoreInv, Serve([db |-> db], None)
  PROVE  /\ pc' = pc /\ active' = active /\ db' = db
         /\ active = "v2" /\ active' = "v2" /\ DbOk(db)
BY DEF StoreInv, FileOk, StoreTypeOK, Serve

(* The first page of a query.                                               *)
LEMMA ReadFirstKeeps ==
  ASSUME StoreInv, NEW q \in Query, ReadFirst(q)
  PROVE  StoreInv' /\ RowsMove
<1> DEFINE page == Page(db, q, None, PageSize).reply
<1>1. /\ page # None /\ Serve([db |-> db], None)
      /\ pager' = [query |-> q, cursor |-> page.cursor, seen |-> page.items, whole |-> Matching(db, q)]
      /\ UNCHANGED <<made, issued, flagged, revoked, held>>
  BY DEF ReadFirst
<1>2. /\ pc' = pc /\ active' = active /\ db' = db
      /\ active = "v2" /\ active' = "v2" /\ DbOk(db)
  BY <1>1, Served
<1>3. Ready(db, q.source) /\ page.items = Taken(Newest(q, Rest(db, q, None)))
  <2>1. Page(db, q, None, PageSize).reply # None
    BY <1>1
  <2>2. Paged(db, q, None, Page(db, q, None, PageSize).reply)
    BY ONLY <2>1, PageIs
  <2> QED BY <2>2 DEF Paged
<1>4. <<>> \in Seq(Nat) /\ Descends(<<>>)
  <2>1. <<>> \in Seq(Nat) /\ DOMAIN <<>> = {}
    OBVIOUS
  <2> QED BY <2>1 DEF Descends
<1>5. Read(db, q, Matching(db, q), <<>> \o page.items, page.cursor)
  BY <1>1, <1>2, <1>4, PageReads
<1>6. page.items \in Seq(Nat)
  <2> DEFINE W == Rest(db, q, None)
             newest == Newest(q, W)
             n == Cardinality(W)
  <2>1. Matching(db, q) \in SUBSET Nat /\ IsFiniteSet(Matching(db, q))
    BY <1>2, MatchingIs
  <2>2. W \in SUBSET Matching(db, q)
    BY DEF Rest
  <2>3. IsFiniteSet(W) /\ W \in SUBSET Nat
    <3> HIDE DEF W
    <3> QED BY <2>1, <2>2, FS_Subset
  <2> HIDE DEF W
  <2>4. n \in Nat /\ newest \in [1..n -> W]
    BY <2>3, NewestIs
  <2> HIDE DEF newest, n
  <2>5. newest \in Seq(Nat)
    <3>1. newest \in [1..n -> Nat]
      BY <2>3, <2>4
    <3> QED BY <2>4, <3>1, SeqDef
  <2>6. Taken(newest) \in Seq(Nat)
    <3>1. PageSize \in Nat \ {0} /\ Len(newest) \in Nat
      BY <2>5, LenProperties, ArchiveStoreAssumption
    <3> DEFINE k == IF Len(newest) < PageSize THEN Len(newest) ELSE PageSize
    <3>2. k \in Nat /\ k <= Len(newest)
      BY <3>1
    <3>3. \A i \in 1..k : newest[i] \in Nat
      BY <2>5, <3>1, <3>2, ElementOfSeq
    <3> HIDE DEF k
    <3>4. SubSeq(newest, 1, k) \in Seq(Nat)
      BY <2>5, <3>2, <3>3, SubSeqProperties
    <3> QED BY <3>4 DEF Taken, k
  <2> QED BY <1>3, <2>6 DEF newest, W
<1> HIDE DEF page
<1>7. <<>> \o page.items = page.items
  BY <1>6, ConcatEmptySeq
<1>8. PagerOk'
  BY <1>1, <1>2, <1>3, <1>5, <1>7, ReadOk
<1> QED BY <1>1, <1>2, <1>8, OnlyRead

(* A later page: the generation of the cursor is still the run's.           *)
LEMMA ReadNextKeeps ==
  ASSUME StoreInv, NEW q \in Query, ReadNext(q)
  PROVE  StoreInv' /\ RowsMove
<1> DEFINE page == Page(db, q, pager.cursor, PageSize).reply
<1>1. /\ pager # None /\ pager.cursor # None /\ Serve([db |-> db], None)
      /\ pager' = IF page = None THEN None
                  ELSE [pager EXCEPT !.cursor = page.cursor, !.seen = pager.seen \o page.items]
      /\ UNCHANGED <<made, issued, flagged, revoked, held>>
  BY DEF ReadNext
<1>2. /\ pc' = pc /\ active' = active /\ db' = db
      /\ active = "v2" /\ active' = "v2" /\ DbOk(db)
  BY <1>1, Served
<1>3. PagerOk'
  <2>1. CASE page = None
    <3>1. pager' = None
      BY <1>1, <2>1
    <3> QED BY <3>1 DEF PagerOk
  <2>2. CASE page # None
    <3> DEFINE p == pager.query
               c == pager.cursor
    <3>1. /\ pager = [query |-> p, cursor |-> c, seen |-> pager.seen, whole |-> pager.whole]
          /\ pager.seen \in Seq(Nat) /\ Descends(pager.seen)
          /\ c.query = p /\ c.generation.rev \in Nat
          /\ pager.seen # <<>> /\ c.last = pager.seen[Len(pager.seen)]
          /\ ToSet(pager.seen) = Above(pager.whole, c.last)
          /\ Present(db, p.source) /\ c.generation.rev = db.run[p.source].rev => pager.whole = Matching(db, p)
      BY <1>1 DEF PagerOk, StoreInv
    <3>2. Ready(db, q.source) /\ c.query = q /\ c.generation = Generation(db, q.source)
      <4>1. Page(db, q, c, PageSize).reply # None
        BY <2>2
      <4>2. Paged(db, q, c, Page(db, q, c, PageSize).reply)
        <5> HIDE DEF c
        <5> QED BY ONLY <4>1, PageIs
      <4> QED BY <1>1, <4>2 DEF Paged
    <3>3. p = q /\ Present(db, q.source) /\ c.generation.rev = db.run[q.source].rev
      BY <3>1, <3>2 DEF Ready, Present, Generation
    <3>4. pager.whole = Matching(db, q)
      BY <3>1, <3>3
    <3>5. Read(db, q, pager.whole, pager.seen \o page.items, page.cursor)
      BY <1>1, <1>2, <2>2, <3>1, <3>4, PageReads
    <3>6. pager' = [query |-> q, cursor |-> page.cursor, seen |-> pager.seen \o page.items, whole |-> pager.whole]
      BY <1>1, <2>2, <3>1, <3>3
    <3> HIDE DEF page, c, p
    <3> QED BY <1>2, <3>2, <3>5, <3>6, ReadOk
  <2> QED BY <2>1, <2>2
<1> QED BY <1>1, <1>2, <1>3, OnlyRead

-----------------------------------------------------------------------------
(* The specification.                                                       *)
LEMMA StoreInit == Init => StoreInv
<1> SUFFICES ASSUME Init PROVE StoreInv
  OBVIOUS
<1>1. EmptyDb \in DbForm /\ \A d \in Legacy : d \in DbForm
  BY EmptyDbOk, ArchiveStoreAssumption DEF DbOk
<1>2. StoreTypeOK
  BY <1>1 DEF Init, StoreTypeOK
<1>3. FileOk
  BY DEF Init, FileOk
<1>4. SessionsOk
  BY DEF Init, SessionsOk
<1>5. PagerOk
  BY DEF Init, PagerOk
<1> QED BY <1>2, <1>3, <1>4, <1>5 DEF StoreInv

(* Every command keeps the invariant, and moves rows as allowed.            *)
LEMMA CommandsKeep ==
  ASSUME StoreInv, Commands
  PROVE  StoreInv' /\ RowsMove
<1>1. ASSUME NEW print \in Archive, Resolve(print) PROVE StoreInv' /\ RowsMove
  BY <1>1, ResolveKeeps
<1>2. ASSUME NEW s \in Source, NEW print \in Archive, Register(s, print) PROVE StoreInv' /\ RowsMove
  BY <1>2, RegisterKeeps
<1>3. ASSUME NEW s \in Source, Begin(s) \/ Status(s) \/ RemoveCall(s) \/ Cleanup(s)
      PROVE  StoreInv' /\ RowsMove
  BY <1>3, BeginKeeps, StatusKeeps, RemoveKeeps, CleanupKeeps
<1>4. CASE Retry
  BY <1>4, RetryKeeps
<1>5. ASSUME NEW k \in issued, NEW n \in 0..MaxBatches, NEW b \in Batch, AppendCall(k, n, b)
      PROVE  StoreInv' /\ RowsMove
  BY <1>5, AppendKeeps
<1>6. ASSUME NEW k \in issued, Finish(k) \/ Cancel(k) \/ Fail(k) \/ Raise(k)
      PROVE  StoreInv' /\ RowsMove
  BY <1>6, EndingsKeep, RaiseKeeps
<1>7. ASSUME NEW q \in Query, ReadFirst(q) \/ ReadNext(q) PROVE StoreInv' /\ RowsMove
  BY <1>7, ReadFirstKeeps, ReadNextKeeps
<1> QED BY <1>1, <1>2, <1>3, <1>4, <1>5, <1>6, <1>7 DEF Commands

(* Every step does.                                                         *)
LEMMA StoreStep ==
  ASSUME StoreInv, [Next]_vars
  PROVE  StoreInv' /\ RowsMove
<1>1. CASE OpenAbsent
  BY <1>1, OpenAbsentKeeps
<1>2. CASE OpenExisting
  BY <1>2, OpenExistingKeeps
<1>3. CASE OpenLegacy
  BY <1>3, OpenLegacyKeeps
<1>4. CASE Initialize
  BY <1>4, InitializeKeeps
<1>5. CASE CandidateDone
  BY <1>5, CandidateDoneKeeps
<1>6. CASE Replace
  BY <1>6, ReplaceKeeps
<1>7. CASE OpenFinish
  BY <1>7, OpenFinishKeeps
<1>8. CASE OpenFails
  BY <1>8, OpenFailsKeeps
<1>9. CASE Die
  BY <1>9, DieKeeps
<1>10. CASE Commands
  BY <1>10, CommandsKeep
<1>11. CASE UNCHANGED vars
  <2>1. UNCHANGED <<active, db, pc, made, issued, flagged, revoked, held, pager>>
    BY <1>11 DEF vars
  <2>2. PagerOk'
    BY <2>1 DEF StoreInv, PagerOk
  <2> QED BY <2>1, <2>2, OnlyRead
<1> QED BY <1>1, <1>2, <1>3, <1>4, <1>5, <1>6, <1>7, <1>8, <1>9, <1>10, <1>11 DEF Next

(* The inductive invariant: the content is always one the schema admits and *)
(* validation accepts, an open step stands where the file is, a session     *)
(* that was revoked no longer holds its run or has its flag raised, and a   *)
(* reader has seen the newest of what its generation has                    *)
(* (archive/ingest.rs, ingest_state.rs, remove.rs, store.rs, query.rs).        *)
THEOREM StoreInductive == Spec => []StoreInv
<1>1. StoreInv /\ [Next]_vars => StoreInv'
  BY StoreStep
<1> QED BY StoreInit, <1>1, PTL DEF Spec

(* No sequence of imports, failures, retries, removals, upgrades and deaths *)
(* makes a store that its own validation refuses at the next open           *)
(* (archive/store.rs: open_with_key_loader).                                *)
THEOREM StoreAlwaysReopens == Spec => []StoreReopens
<1>1. StoreInv => StoreReopens
  BY OkValidates DEF StoreInv, FileOk, StoreReopens
<1> QED BY StoreInductive, <1>1, PTL

(* The rows of a source change by its removal, or by an append of a session *)
(* that holds its run and was not revoked, which adds one receipt           *)
(* (archive/ingest.rs: append; ingest_state.rs: active_session).             *)
THEOREM RowsOfTheSessions == Spec => RowsAreTheSessions
<1> DEFINE Moves == \A s \in Source : db'.rows[s] # db.rows[s] =>
          \/ db'.task[s] # "none" /\ db'.rows[s] = {}
          \/ \E k \in issued \ {x \in issued : x.id \in revoked} :
                /\ k.source = s /\ k.id = writer'
                /\ Len(db'.run[s].receipts) = Len(db.run[s].receipts) + 1
<1>1. StoreInv /\ [Next]_vars => [Moves]_vars
  BY StoreStep DEF RowsMove
<1> QED BY StoreInductive, <1>1, PTL DEF Spec, RowsAreTheSessions

(* A query read page by page to its end has returned every matching record  *)
(* of one generation exactly once, newest first (archive/query.rs: the      *)
(* cursor bound to the query and the generation).                           *)
THEOREM PagesAreExact == Spec => []PagingIsExact
<1>1. StoreInv => PagingIsExact
  <2> SUFFICES ASSUME StoreInv, pager # None, pager.cursor = None PROVE PagingIsExact
    BY DEF PagingIsExact
  <2> DEFINE seen == pager.seen
             q == pager.query
  <2>1. q \in Query /\ seen \in Seq(Nat) /\ Descends(seen) /\ ToSet(seen) = pager.whole
    BY DEF StoreInv, PagerOk
  <2>2. ASSUME NEW i \in 1..(Len(seen) - 1) PROVE Earlier(q, seen[i + 1], seen[i])
    <3> DEFINE j == i + 1
    <3>1. Len(seen) \in Nat /\ DOMAIN seen = 1..Len(seen)
      BY <2>1, LenProperties
    <3>2. i \in DOMAIN seen /\ j \in DOMAIN seen /\ i < j /\ i \in 1..Len(seen) /\ j \in 1..Len(seen)
      BY <3>1
    <3> HIDE DEF j
    <3>3. seen[j] < seen[i] /\ seen[i] \in Nat /\ seen[j] \in Nat
      BY <2>1, <3>2, ElementOfSeq DEF Descends
    <3>4. Earlier(q, seen[j], seen[i])
      BY <3>3, EarlierIs
    <3> QED BY <3>4 DEF j
  <2> QED BY <2>1, <2>2 DEF PagingIsExact
<1> QED BY StoreInductive, <1>1, PTL
=============================================================================
