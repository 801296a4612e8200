------------------------ MODULE ProviderServiceProofs ------------------------
(***************************************************************************)
(* Proofs about ProviderService and the identity it extends, for any        *)
(* accounts, handlers, plans and bounds: commands are served by the         *)
(* lifecycle of their own verified context, and of two lifecycles over one  *)
(* store neither loses what the other recorded.                             *)
(***************************************************************************)
EXTENDS ProviderService, FiniteSetTheorems, TLAPS

(* A verification that is under way, and one that knows an account.         *)
Knowing   == {"answered", "checked", "stored", "published"}
Verifying == {"asked"} \cup Knowing

(* Generations are numbered as they begin.                                  *)
BegunOk ==
  /\ Begun \in 0..MaxGenerations
  /\ \A g \in Generation : attempt[g].pc = "unborn" <=> g > Begun

(* Nothing is begun before the version is known to be compatible.           *)
VersionOk ==
  /\ task["initial"].pc = "version" => version = "unknown"
  /\ version # "compatible" =>
       /\ identity = Unidentified /\ binding = Unbound
       /\ \A g \in Generation : attempt[g].pc \in {"unborn", "ended"}

(* Identity and binding are of the generation begun last, or of none; what  *)
(* the gateway believes of a verification is what became of it.             *)
AttemptsOk ==
  \A g \in Generation :
    /\ attempt[g].pc \in Knowing <=> attempt[g].account # None
    /\ identity.ready /\ identity.gen = g =>
         (identity.status = "Pending" <=> attempt[g].pc \in Verifying)
IdentityOk ==
  /\ ~identity.ready => identity = Unidentified
  /\ identity.ready => /\ identity.gen = Begun /\ identity.gen \in Generation
                       /\ identity.status # "Unavailable"
  /\ binding.expected \in {None, Begun}
  /\ binding.active # None => binding.active.gen = binding.expected
  /\ identity.verified # None => identity.ready /\ identity.verified.gen = identity.gen

(* Published(x): the context x has been in force, so that its generation is *)
(* never verified again, and once it is not in force it never is again.     *)
Published(x) ==
  /\ x \in Context
  /\ x.gen <= Begun
  /\ x.gen = Begun =>
       /\ attempt[x.gen].pc \in {"published", "ended"}
       /\ attempt[x.gen].pc = "published" => attempt[x.gen].account = x.account
       /\ binding.active \in {None, x}
       /\ ~(identity.ready /\ identity.status = "Failed")
InForce(x) ==
  \/ binding.active = x \/ identity.verified = x
  \/ attempt[x.gen].pc = "published" /\ attempt[x.gen].account = x.account
ContextsOk == \A x \in Context : InForce(x) => Published(x)

(* An account that is not the one TDLib is signed in as has its logout yet  *)
(* to be handled, or will not be published.                                 *)
LogoutComing ==
  \/ \E i \in 1..Len(updates) : updates[i] = "other"
  \/ task["loop"].pc = "take" /\ task["loop"].state = "other"
Unbinding == task["loop"].pc = "unbind"
TruthOk ==
  /\ \A g \in Generation :
       attempt[g].account # None /\ attempt[g].account # login =>
         LogoutComing \/ (identity.gen # g /\ (binding.expected # g \/ Unbinding))
  /\ binding.active # None /\ binding.active.account # login =>
       LogoutComing \/ Unbinding

BeliefOk == BegunOk /\ AttemptsOk /\ IdentityOk /\ ContextsOk
IdentityInv == TypeOK /\ VersionOk /\ BeliefOk /\ TruthOk

-----------------------------------------------------------------------------
(* The service.                                                             *)

Lifecycle == [ctx : Context \cup {None}, user : Context \cup {None},
              last : Projection, quarantined : BOOLEAN]
Building == {"foreign", "load", "seal", "recheck"}
Serving  == {"use", "commit", "answer"}
Holding  == {"stop", "drain", "build", "verify"} \cup Building
Handler == [pc : {"idle", "lock"} \cup Holding \cup Serving,
            kind : {"read", "prepare", "start"}, ctx : Context \cup {None},
            built : Context \cup {None}, life : Life \cup {None}]
Task == [pc : {"off", "claim", "finish"}, life : Life \cup {None}, cancelled : BOOLEAN]
Slot == [ctx : Context, life : Life]
ServiceTypeOK ==
  /\ store \in Projection
  /\ slot \in Slot \cup {None}
  /\ holder \in Command \cup {None}
  /\ lifecycle \in [Life -> Lifecycle]
  /\ command \in [Command -> Handler]
  /\ worker \in [Plan -> Task]
  /\ stopped \in BOOLEAN

(* A record belongs to a scope, and a lifecycle knows of none but its own.  *)
Recorded(r) == r = NoRecord \/ (r.scope # None /\ r.status # "Absent")
Own(r, ctx) ==
  r = NoRecord \/ (ctx # None /\ r.scope = ctx.account /\ r.status # "Absent")
RecordsOk ==
  /\ \A p \in Plan : Recorded(store[p])
  /\ \A l \in Life, p \in Plan : Own(lifecycle[l].last[p], lifecycle[l].ctx)

(* The lifecycle l is the one built for the context x.                      *)
Serves(l, x) == lifecycle[l].ctx = x /\ lifecycle[l].user = x

(* The lifecycle l is the registered one, or is to be stopped; or its       *)
(* workers are being waited for.                                            *)
InUse(l) ==
  \/ slot # None /\ slot.life = l
  \/ \E c \in Command : command[c].pc = "stop" /\ command[c].life = l
Attended(l) ==
  InUse(l) \/ \E c \in Command : command[c].pc = "drain" /\ command[c].life = l

(* What a command has by the time it is at a step.                          *)
CommandOk(c) ==
  LET m == command[c] IN
  /\ m.pc = "idle" <=> m.ctx = None
  /\ m.pc # "idle" => ~stopped
  /\ holder = c <=> m.pc \in Holding
  /\ m.life # None <=> m.pc \in {"stop", "drain"} \cup Building \cup Serving
  /\ m.built # None <=> m.pc = "verify"
  /\ m.pc = "verify" /\ binding.active = m.ctx => m.built = m.ctx
  /\ m.pc \in Building =>
       lifecycle[m.life].ctx # None /\ (binding.active = m.ctx => Serves(m.life, m.ctx))
  /\ m.pc \in Serving => Serves(m.life, m.ctx)
  /\ m.pc = "use" => binding.active # m.ctx \/ (slot # None /\ slot.life = m.life)
  /\ m.pc = "commit" /\ m.kind = "start" => InUse(m.life)
CommandsOk == \A c \in Command : CommandOk(c)

(* One lifecycle at a time is being taken down or built.                    *)
SlotOk ==
  /\ holder # None => slot = None
  /\ slot # None => Serves(slot.life, slot.ctx)

(* The contexts that commands and the registered provider hold on to.       *)
Held(x) ==
  \/ \E c \in Command : command[c].ctx = x \/ command[c].built = x
  \/ slot # None /\ slot.ctx = x
HeldOk == \A x \in Context : Held(x) => Published(x)

(* A worker belongs to a lifecycle that knows its job, and that is          *)
(* registered, waits for it to end, or was left to it by the shutdown.      *)
WorkerOk(p) ==
  LET w == worker[p] IN
  /\ w.pc = "off" <=> w.life = None
  /\ w.pc # "off" =>
       /\ lifecycle[w.life].ctx # None
       /\ lifecycle[w.life].last[p] # NoRecord
       /\ stopped \/ Attended(w.life)
WorkersOk == \A p \in Plan : WorkerOk(p)

ServiceInv ==
  ServiceTypeOK /\ RecordsOk /\ CommandsOk /\ SlotOk /\ HeldOk /\ WorkersOk
IInv == IdentityInv /\ ServiceInv

-----------------------------------------------------------------------------
(* Facts about generations and attempts.                                    *)

AttemptRecord == [pc : {"unborn", "ended"} \cup Verifying, account : Account \cup {None}]
IdentityRecord == [ready : BOOLEAN, gen : Generation \cup {None}, verified : Context \cup {None},
                   status : {"Unavailable", "Pending", "Ready", "Failed"}]
BindingRecord == [expected : Generation \cup {None}, active : Context \cup {None}]
TaskRecord == [pc : {"version", "asked", "idle", "take", "unbind", "ended"},
               state : {"ready", "other"}]

LEMMA Shapes ==
  TypeOK <=> /\ login \in Account \cup {None} /\ updates \in Seq({"ready", "other"})
             /\ version \in {"unknown", "compatible", "refused"}
             /\ task \in [Tasks -> TaskRecord]
             /\ identity \in IdentityRecord /\ binding \in BindingRecord
             /\ attempt \in [Generation -> AttemptRecord]
             /\ sources \subseteq Account
             /\ left \in [logins : 0..MaxLogins, upsets : 0..MaxUpsets]
<1>1. {"unborn", "ended"} \cup Verifying
        = {"unborn", "asked", "answered", "checked", "stored", "published", "ended"}
  BY DEF Verifying, Knowing
<1> QED BY <1>1 DEF TypeOK, AttemptRecord, IdentityRecord, BindingRecord, TaskRecord

(* None is nothing else.                                                    *)
LEMMA NoneIsNone ==
  /\ None \notin Account /\ None \notin Generation /\ None \notin Context
  /\ None \notin Command /\ None \notin Life /\ None \notin Slot
BY NoneAssumption, NoOneAssumption DEF Slot

LEMMA BegunIsCount == Begun \in Nat
<1> DEFINE S == {g \in Generation : attempt[g].pc # "unborn"}
<1>1. IsFiniteSet(Generation)
  BY FS_Interval, IdentityBounds DEF Generation
<1>2. IsFiniteSet(S)
  BY <1>1, FS_Subset
<1> QED BY <1>2, FS_CardinalityType DEF Begun

(* An attempt that moves on leaves the count of generations alone.          *)
LEMMA BegunKept ==
  ASSUME \A g \in Generation : attempt'[g].pc = "unborn" <=> attempt[g].pc = "unborn"
  PROVE  /\ Begun' = Begun
         /\ BegunOk => BegunOk'
<1>1. {g \in Generation : attempt'[g].pc # "unborn"} = {g \in Generation : attempt[g].pc # "unborn"}
  OBVIOUS
<1>2. Begun' = Begun
  BY <1>1 DEF Begun
<1> QED BY <1>2 DEF BegunOk

(* A generation that begins is the next one.                                *)
LEMMA BegunNext ==
  ASSUME BegunOk, NEW g \in Generation, g = Begun + 1,
         attempt'[g].pc # "unborn",
         \A h \in Generation \ {g} : attempt'[h] = attempt[h]
  PROVE  Begun' = g /\ BegunOk'
<1>1. Begun \in Nat /\ MaxGenerations \in Nat /\ g \in 1..MaxGenerations
  BY BegunIsCount, IdentityBounds DEF Generation
<1>2. {h \in Generation : attempt'[h].pc # "unborn"} = 1..g
  <2>1. ASSUME NEW h \in Generation PROVE attempt'[h].pc # "unborn" <=> h \in 1..g
    <3>1. CASE h = g
      BY <1>1, <3>1
    <3>2. CASE h # g
      <4>1. attempt'[h] = attempt[h]
        BY <3>2
      <4>2. attempt[h].pc = "unborn" <=> h > Begun
        BY DEF BegunOk
      <4> QED BY <1>1, <3>2, <4>1, <4>2 DEF Generation
    <3> QED BY <3>1, <3>2
  <2> QED BY <1>1, <2>1 DEF Generation
<1>3. Cardinality(1..g) = g
  BY <1>1, FS_Interval
<1>4. Begun' = g
  BY <1>2, <1>3 DEF Begun
<1>5. ASSUME NEW h \in Generation PROVE attempt'[h].pc = "unborn" <=> h > g
  BY <1>1, <1>2 DEF Generation
<1> QED BY <1>1, <1>4, <1>5 DEF BegunOk

-----------------------------------------------------------------------------
(* The steps of the gateway.  A context that has been published stays so,   *)
(* and comes into force at most once.                                       *)
Carried ==
  \A x \in Context : Published(x) => /\ Published(x)'
                                     /\ binding'.active = x => binding.active = x

LEMMA BeliefKept ==
  ASSUME BeliefOk, UNCHANGED <<identity, binding, attempt>>
  PROVE  BeliefOk' /\ Carried
<1>1. Begun' = Begun /\ BegunOk'
  BY BegunKept DEF BeliefOk
<1>2. \A x : Published(x)' <=> Published(x)
  BY <1>1 DEF Published
<1>3. AttemptsOk' /\ IdentityOk'
  BY <1>1 DEF BeliefOk, AttemptsOk, IdentityOk
<1>4. \A x : InForce(x)' <=> InForce(x)
  BY DEF InForce
<1> QED BY <1>1, <1>2, <1>3, <1>4 DEF BeliefOk, ContextsOk, Carried

(* A verification learns who it is for, or goes on, before it publishes.    *)
LEMMA BeliefAdvanced ==
  ASSUME TypeOK, BeliefOk, UNCHANGED <<identity, binding>>,
         NEW g \in Generation, NEW pc \in {"answered", "checked", "stored"}, NEW a \in Account,
         attempt[g].pc \in Verifying \ {"published"},
         attempt' = [attempt EXCEPT ![g] = [pc |-> pc, account |-> a]]
  PROVE  BeliefOk' /\ Carried /\ attempt' \in [Generation -> AttemptRecord]
<1>1. attempt \in [Generation -> AttemptRecord]
  BY Shapes
<1>2. [pc |-> pc, account |-> a] \in AttemptRecord
  BY DEF AttemptRecord, Verifying, Knowing
<1>3. /\ attempt' \in [Generation -> AttemptRecord]
      /\ attempt'[g].pc = pc /\ attempt'[g].account = a
      /\ \A h \in Generation \ {g} : attempt'[h] = attempt[h]
  BY <1>1, <1>2
<1>4. Begun' = Begun /\ BegunOk'
  BY <1>3, BegunKept DEF BeliefOk, Verifying, Knowing
<1>5. ASSUME NEW x, Published(x) PROVE Published(x)'
  <2>1. x \in Context /\ x.gen \in Generation
    BY <1>5 DEF Published, Context
  <2>2. x.gen = Begun => x.gen # g
    BY <1>5 DEF Published, Verifying, Knowing
  <2>3. x.gen = Begun => attempt'[x.gen] = attempt[x.gen]
    BY <1>3, <2>1, <2>2
  <2> QED BY <1>4, <1>5, <2>3 DEF Published
<1>6. AttemptsOk'
  BY <1>3, NoneIsNone DEF BeliefOk, AttemptsOk, Verifying, Knowing
<1>7. IdentityOk'
  BY <1>4 DEF BeliefOk, IdentityOk
<1>8. ContextsOk'
  <2>1. ASSUME NEW x \in Context, InForce(x)' PROVE InForce(x)
    <3>1. x.gen \in Generation
      BY DEF Context
    <3> QED BY <1>3, <2>1, <3>1 DEF InForce
  <2> QED BY <1>5, <2>1 DEF BeliefOk, ContextsOk
<1>9. Carried
  BY <1>5 DEF Carried
<1> QED BY <1>3, <1>4, <1>6, <1>7, <1>8, <1>9 DEF BeliefOk

(* A verification that fails before it publishes.                           *)
LEMMA BeliefFailed ==
  ASSUME TypeOK, BeliefOk, UNCHANGED binding, NEW g \in Generation,
         attempt[g].pc \in Verifying \ {"published"}, Fail(g)
  PROVE  /\ BeliefOk' /\ Carried /\ attempt' \in [Generation -> AttemptRecord]
         /\ identity' \in IdentityRecord
         /\ identity'.gen = identity.gen /\ identity'.ready = identity.ready
         /\ attempt'[g].account = None /\ attempt'[g].pc = "ended"
         /\ \A h \in Generation \ {g} : attempt'[h] = attempt[h]
<1>1. attempt \in [Generation -> AttemptRecord] /\ identity \in IdentityRecord
  BY Shapes
<1>2. [pc |-> "ended", account |-> None] \in AttemptRecord
  BY DEF AttemptRecord
<1>3. /\ attempt' \in [Generation -> AttemptRecord]
      /\ attempt'[g].pc = "ended" /\ attempt'[g].account = None
      /\ \A h \in Generation \ {g} : attempt'[h] = attempt[h]
  BY <1>1, <1>2 DEF Fail
<1>4. Begun' = Begun /\ BegunOk'
  BY <1>3, BegunKept DEF BeliefOk, Verifying, Knowing
<1>5. /\ identity' \in IdentityRecord
      /\ identity'.gen = identity.gen /\ identity'.ready = identity.ready
      /\ identity'.verified = identity.verified
      /\ identity'.status = IF Current(g) THEN "Failed" ELSE identity.status
  BY <1>1 DEF Fail, IdentityRecord
<1>6. ASSUME NEW x, Published(x) PROVE Published(x)'
  <2>1. x \in Context /\ x.gen \in Generation
    BY <1>6 DEF Published, Context
  <2>2. x.gen = Begun => x.gen # g
    BY <1>6 DEF Published, Verifying, Knowing
  <2>3. x.gen = Begun => attempt'[x.gen] = attempt[x.gen]
    BY <1>3, <2>1, <2>2
  <2>4. x.gen = Begun => ~Current(g)
    <3>1. identity.ready => identity.gen = Begun
      BY DEF BeliefOk, IdentityOk
    <3> QED BY <2>2, <3>1 DEF Current
  <2> QED BY <1>4, <1>5, <1>6, <2>3, <2>4 DEF Published
<1>7. AttemptsOk'
  <2>1. ASSUME NEW h \in Generation
        PROVE  /\ attempt'[h].pc \in Knowing <=> attempt'[h].account # None
               /\ identity'.ready /\ identity'.gen = h =>
                    (identity'.status = "Pending" <=> attempt'[h].pc \in Verifying)
    <3>1. CASE h = g
      BY <1>3, <1>5, <3>1 DEF Current, Verifying, Knowing
    <3>2. CASE h # g
      BY <1>3, <1>5, <3>2 DEF BeliefOk, AttemptsOk, Current
    <3> QED BY <3>1, <3>2
  <2> QED BY <2>1 DEF AttemptsOk
<1>8. IdentityOk'
  BY <1>4, <1>5 DEF BeliefOk, IdentityOk, Fail, Current
<1>9. ContextsOk'
  <2>1. ASSUME NEW x \in Context, InForce(x)' PROVE InForce(x)
    <3>1. x.gen \in Generation
      BY DEF Context
    <3> QED BY <1>3, <1>5, <2>1, <3>1 DEF InForce
  <2> QED BY <1>6, <2>1 DEF BeliefOk, ContextsOk
<1>10. Carried
  BY <1>6 DEF Carried
<1> QED BY <1>3, <1>4, <1>5, <1>7, <1>8, <1>9, <1>10 DEF BeliefOk

(* A generation that begins, with nothing in force.                         *)
LEMMA BeliefBegins ==
  ASSUME TypeOK, BeliefOk, NEW g \in Generation, g = Begun + 1,
         identity' = [ready |-> TRUE, gen |-> g, verified |-> None, status |-> "Pending"],
         binding' = [expected |-> g, active |-> None],
         attempt' = [attempt EXCEPT ![g].pc = "asked"]
  PROVE  BeliefOk' /\ Carried /\ attempt' \in [Generation -> AttemptRecord]
<1>1. attempt \in [Generation -> AttemptRecord] /\ attempt[g] \in AttemptRecord
  BY Shapes
<1>2. [attempt[g] EXCEPT !.pc = "asked"] \in AttemptRecord
  BY <1>1 DEF AttemptRecord, Verifying
<1>3. Begun \in Nat /\ g > Begun /\ g # Begun
  BY BegunIsCount
<1>4. attempt[g].pc = "unborn"
  BY <1>3 DEF BeliefOk, BegunOk
<1>5. /\ attempt' \in [Generation -> AttemptRecord]
      /\ attempt'[g].pc = "asked" /\ attempt'[g].account = attempt[g].account
      /\ \A h \in Generation \ {g} : attempt'[h] = attempt[h]
  BY <1>1, <1>2 DEF AttemptRecord
<1>6. Begun' = g /\ BegunOk'
  BY <1>5, BegunNext DEF BeliefOk
<1>7. identity'.ready /\ identity'.gen = g /\ identity'.verified = None /\ identity'.status = "Pending"
  OBVIOUS
<1>8. binding'.expected = g /\ binding'.active = None
  OBVIOUS
<1>9. AttemptsOk'
  BY <1>4, <1>5, <1>7 DEF BeliefOk, AttemptsOk, Verifying, Knowing
<1>10. IdentityOk'
  BY <1>6, <1>7, <1>8 DEF IdentityOk
<1>11. ASSUME NEW x \in Context, Published(x) PROVE Published(x)'
  <2>1. x.gen <= Begun /\ x.gen \in Generation /\ x.gen \in Nat
    BY <1>11 DEF Published, Context, Generation
  <2> QED BY <1>3, <1>6, <2>1 DEF Published
<1>12. ASSUME NEW x \in Context, InForce(x)' PROVE InForce(x)
  <2>1. x.gen \in Generation /\ x # None
    BY NoneIsNone DEF Context
  <2> QED BY <1>5, <1>7, <1>8, <1>12, <2>1 DEF InForce
<1>13. ContextsOk'
  BY <1>11, <1>12 DEF BeliefOk, ContextsOk
<1>14. Carried
  BY <1>8, <1>11, NoneIsNone DEF Carried
<1> QED BY <1>5, <1>6, <1>9, <1>10, <1>13, <1>14 DEF BeliefOk

(* Identity or binding are dropped.                                         *)
LEMMA BeliefDropped ==
  ASSUME TypeOK, BeliefOk, UNCHANGED attempt,
         \/ identity' = Unidentified /\ binding' = binding
         \/ identity' = identity /\ binding' = Unbound
  PROVE  BeliefOk' /\ Carried
<1>1. Begun' = Begun /\ BegunOk'
  BY BegunKept DEF BeliefOk
<1>2. /\ ~Unidentified.ready /\ Unidentified.verified = None
      /\ Unbound.active = None /\ Unbound.expected = None
  BY DEF Unidentified, Unbound
<1>3. AttemptsOk'
  BY <1>2 DEF BeliefOk, AttemptsOk
<1>4. IdentityOk'
  BY <1>1, <1>2 DEF BeliefOk, IdentityOk
<1>5. ASSUME NEW x \in Context PROVE (Published(x) => Published(x)') /\ (InForce(x)' => InForce(x))
                                     /\ (binding'.active = x => binding.active = x)
  BY <1>1, <1>2, NoneIsNone DEF Published, InForce
<1> QED BY <1>1, <1>3, <1>4, <1>5 DEF BeliefOk, ContextsOk, Carried

(* A context comes into force, for the first time: its attempt was not one  *)
(* that has been published.                                                 *)
LEMMA BeliefActivated ==
  ASSUME TypeOK, BeliefOk, UNCHANGED identity, NEW g \in Generation,
         attempt[g].pc = "stored", binding.expected = g,
         binding' = [binding EXCEPT !.active = [account |-> attempt[g].account, gen |-> g]],
         attempt' = [attempt EXCEPT ![g].pc = "published"]
  PROVE  /\ BeliefOk' /\ Carried /\ attempt' \in [Generation -> AttemptRecord]
         /\ binding' \in BindingRecord /\ binding'.expected = g
         /\ binding'.active.account = attempt[g].account
<1>1. /\ attempt \in [Generation -> AttemptRecord] /\ attempt[g] \in AttemptRecord
      /\ binding \in BindingRecord
  BY Shapes
<1>2. [attempt[g] EXCEPT !.pc = "published"] \in AttemptRecord
  BY <1>1 DEF AttemptRecord, Verifying, Knowing
<1>3. attempt[g].account \in Account
  BY <1>1 DEF BeliefOk, AttemptsOk, Knowing, AttemptRecord
<1>4. PICK y \in Context : y = [account |-> attempt[g].account, gen |-> g]
  BY <1>3 DEF Context
<1>5. /\ attempt' \in [Generation -> AttemptRecord]
      /\ attempt'[g].pc = "published" /\ attempt'[g].account = y.account
      /\ \A h \in Generation \ {g} : attempt'[h] = attempt[h]
  BY <1>1, <1>2, <1>4 DEF AttemptRecord
<1>6. binding' \in BindingRecord /\ binding'.expected = g /\ binding'.active = y
  BY <1>1, <1>4 DEF BindingRecord
<1>7. Begun' = Begun /\ BegunOk'
  BY <1>5, BegunKept DEF BeliefOk
<1>8. g = Begun
  BY NoneIsNone DEF BeliefOk, IdentityOk
<1>9. ~(identity.ready /\ identity.status = "Failed")
  <2>1. identity.ready => identity.gen = g
    BY <1>8 DEF BeliefOk, IdentityOk
  <2>2. identity.ready => identity.status = "Pending"
    BY <2>1 DEF BeliefOk, AttemptsOk, Verifying, Knowing
  <2> QED BY <2>2
<1>10. AttemptsOk'
  BY <1>5 DEF BeliefOk, AttemptsOk, Verifying, Knowing
<1>11. IdentityOk'
  BY <1>4, <1>6, <1>7, <1>8 DEF BeliefOk, IdentityOk
<1>12. ASSUME NEW x \in Context, Published(x) PROVE Published(x)' /\ x.gen # g
  <2>1. x.gen # Begun
    BY <1>8, <1>12 DEF Published
  <2> QED BY <1>7, <1>8, <1>12, <2>1 DEF Published
<1>13. Published(y)'
  BY <1>4, <1>5, <1>6, <1>7, <1>8, <1>9, BegunIsCount DEF Published
<1>14. ASSUME NEW x \in Context, InForce(x)' PROVE Published(x)'
  <2>1. x.gen \in Generation
    BY DEF Context
  <2>2. CASE x = y
    BY <1>13, <2>2
  <2>3. CASE x # y
    <3>1. x.gen = g => x.account # y.account
      BY <1>4, <2>3 DEF Context
    <3>2. InForce(x)
      BY <1>5, <1>6, <1>14, <2>1, <2>3, <3>1 DEF InForce
    <3> QED BY <1>12, <3>2 DEF BeliefOk, ContextsOk
  <2> QED BY <2>2, <2>3
<1>15. ContextsOk'
  BY <1>14 DEF ContextsOk
<1>16. Carried
  BY <1>4, <1>6, <1>12 DEF Carried
<1> QED BY <1>4, <1>5, <1>6, <1>7, <1>10, <1>11, <1>15, <1>16 DEF BeliefOk

(* The verification that published is over, and believed if still current.  *)
LEMMA BeliefVerified ==
  ASSUME TypeOK, BeliefOk, UNCHANGED binding, NEW g \in Generation,
         attempt[g].pc = "published",
         identity' = IF Current(g)
           THEN [identity EXCEPT !.status = "Ready",
                   !.verified = [account |-> attempt[g].account, gen |-> g]]
           ELSE identity,
         attempt' = [attempt EXCEPT ![g] = [pc |-> "ended", account |-> None]]
  PROVE  /\ BeliefOk' /\ Carried /\ attempt' \in [Generation -> AttemptRecord]
         /\ identity' \in IdentityRecord /\ identity'.gen = identity.gen
         /\ attempt'[g].account = None
         /\ \A h \in Generation \ {g} : attempt'[h] = attempt[h]
<1>1. /\ attempt \in [Generation -> AttemptRecord] /\ attempt[g] \in AttemptRecord
      /\ identity \in IdentityRecord
  BY Shapes
<1>2. [pc |-> "ended", account |-> None] \in AttemptRecord
  BY DEF AttemptRecord
<1>3. attempt[g].account \in Account
  BY <1>1 DEF BeliefOk, AttemptsOk, Knowing, AttemptRecord
<1>4. PICK y \in Context : y = [account |-> attempt[g].account, gen |-> g]
  BY <1>3 DEF Context
<1>5. /\ attempt' \in [Generation -> AttemptRecord]
      /\ attempt'[g].pc = "ended" /\ attempt'[g].account = None
      /\ \A h \in Generation \ {g} : attempt'[h] = attempt[h]
  BY <1>1, <1>2
<1>6. /\ identity' \in IdentityRecord
      /\ identity'.gen = identity.gen /\ identity'.ready = identity.ready
      /\ identity'.status = IF Current(g) THEN "Ready" ELSE identity.status
      /\ identity'.verified = IF Current(g) THEN y ELSE identity.verified
  BY <1>1, <1>4 DEF IdentityRecord
<1>7. Begun' = Begun /\ BegunOk'
  BY <1>5, BegunKept DEF BeliefOk
<1>8. AttemptsOk'
  <2>1. ASSUME NEW h \in Generation
        PROVE  /\ attempt'[h].pc \in Knowing <=> attempt'[h].account # None
               /\ identity'.ready /\ identity'.gen = h =>
                    (identity'.status = "Pending" <=> attempt'[h].pc \in Verifying)
    <3>1. CASE h = g
      BY <1>5, <1>6, <3>1 DEF Current, Verifying, Knowing
    <3>2. CASE h # g
      BY <1>5, <1>6, <3>2 DEF BeliefOk, AttemptsOk, Current
    <3> QED BY <3>1, <3>2
  <2> QED BY <2>1 DEF AttemptsOk
<1>9. IdentityOk'
  BY <1>4, <1>6, <1>7 DEF BeliefOk, IdentityOk, Current
<1>10. ASSUME NEW x \in Context, Published(x) PROVE Published(x)'
  <2>1. x.gen \in Generation
    BY DEF Context
  <2>2. x.gen = Begun => attempt'[x.gen].pc \in {"published", "ended"}
                          /\ (attempt'[x.gen].pc = "published" => attempt'[x.gen] = attempt[x.gen])
    BY <1>5, <1>10, <2>1 DEF Published
  <2> QED BY <1>6, <1>7, <1>10, <2>2 DEF Published
<1>11. InForce(y)
  BY <1>4 DEF InForce
<1>12. ASSUME NEW x \in Context, InForce(x)' PROVE InForce(x)
  <2>1. x.gen \in Generation
    BY DEF Context
  <2> QED BY <1>5, <1>6, <1>11, <1>12, <2>1 DEF InForce
<1>13. ContextsOk'
  BY <1>10, <1>12 DEF BeliefOk, ContextsOk
<1>14. Carried
  BY <1>10 DEF Carried
<1> QED BY <1>5, <1>6, <1>7, <1>8, <1>9, <1>13, <1>14 DEF BeliefOk

(* A generation whose verification failed is verified again.                *)
LEMMA BeliefRetried ==
  ASSUME TypeOK, BeliefOk, RetryIdentity
  PROVE  /\ BeliefOk' /\ Carried /\ attempt' \in [Generation -> AttemptRecord]
         /\ identity' \in IdentityRecord /\ binding' \in BindingRecord
         /\ identity'.gen = identity.gen /\ binding'.active \in {None, binding.active}
         /\ binding'.expected = identity.gen
         /\ attempt'[identity.gen].account = None
         /\ \A h \in Generation \ {identity.gen} : attempt'[h] = attempt[h]
<1> DEFINE g == identity.gen
<1>1. /\ attempt \in [Generation -> AttemptRecord]
      /\ identity \in IdentityRecord /\ binding \in BindingRecord
      /\ identity.ready /\ identity.status = "Failed"
  BY Shapes DEF RetryIdentity
<1>2. g = Begun /\ g \in Generation
  BY <1>1 DEF BeliefOk, IdentityOk
<1>3. attempt[g].pc \notin Verifying /\ attempt[g].pc # "unborn" /\ attempt[g].account = None
  <2>1. attempt[g].pc \notin Verifying
    BY <1>1, <1>2 DEF BeliefOk, AttemptsOk
  <2>2. attempt[g].pc # "unborn"
    BY <1>2, BegunIsCount DEF BeliefOk, BegunOk
  <2> QED BY <1>2, <2>1, <2>2 DEF BeliefOk, AttemptsOk, Verifying
<1>4. attempt[g] \in AttemptRecord
  BY <1>1, <1>2
<1>5. [attempt[g] EXCEPT !.pc = "asked"] \in AttemptRecord
  BY <1>4 DEF AttemptRecord, Verifying
<1>6. /\ attempt' \in [Generation -> AttemptRecord]
      /\ attempt'[g].pc = "asked" /\ attempt'[g].account = None
      /\ \A h \in Generation \ {g} : attempt'[h] = attempt[h]
  BY <1>1, <1>2, <1>3, <1>4, <1>5 DEF RetryIdentity, AttemptRecord
<1>7. /\ identity' \in IdentityRecord
      /\ identity'.gen = g /\ identity'.ready /\ identity'.status = "Pending"
      /\ identity'.verified = identity.verified
  BY <1>1 DEF RetryIdentity, IdentityRecord
<1>8. /\ binding' \in BindingRecord
      /\ binding'.expected = g /\ binding'.active \in {None, binding.active}
  BY <1>1, <1>2 DEF RetryIdentity, BindingRecord
<1>9. Begun' = Begun /\ BegunOk'
  BY <1>3, <1>6, BegunKept DEF BeliefOk
<1> HIDE DEF g
<1>10. ASSUME NEW x \in Context, Published(x) PROVE Published(x)' /\ x.gen # g
  <2>1. x.gen # Begun
    BY <1>1, <1>10 DEF Published
  <2> QED BY <1>2, <1>9, <1>10, <2>1 DEF Published
<1>11. AttemptsOk'
  BY <1>6, <1>7 DEF BeliefOk, AttemptsOk, Verifying, Knowing
<1>12. IdentityOk'
  BY <1>2, <1>7, <1>8, <1>9 DEF BeliefOk, IdentityOk, RetryIdentity, g
<1>13. ASSUME NEW x \in Context, InForce(x)' PROVE InForce(x)
  <2>1. x.gen \in Generation
    BY DEF Context
  <2> QED BY <1>6, <1>7, <1>8, <1>13, <2>1, NoneIsNone DEF InForce
<1>14. ContextsOk'
  BY <1>10, <1>13 DEF BeliefOk, ContextsOk
<1>15. Carried
  BY <1>8, <1>10, NoneIsNone DEF Carried
<1> QED BY <1>6, <1>7, <1>8, <1>9, <1>11, <1>12, <1>14, <1>15 DEF BeliefOk, g

(* A task moves on, or takes up a state.                                    *)
LEMMA TaskGoes ==
  ASSUME TypeOK, NEW t \in Tasks, NEW pc \in {"asked", "idle", "unbind", "ended"},
         task' = [task EXCEPT ![t].pc = pc]
  PROVE  /\ task' \in [Tasks -> TaskRecord] /\ task'[t].pc = pc
         /\ \A u \in Tasks \ {t} : task'[u] = task[u]
<1>1. task \in [Tasks -> TaskRecord] /\ task[t] \in TaskRecord
  BY Shapes
<1>2. [task[t] EXCEPT !.pc = pc] \in TaskRecord /\ [task[t] EXCEPT !.pc = pc].pc = pc
  BY <1>1 DEF TaskRecord
<1> QED BY <1>1, <1>2

LEMMA TaskTakes ==
  ASSUME TypeOK, NEW t \in Tasks, NEW s \in {"ready", "other"},
         task' = [task EXCEPT ![t] = [pc |-> "take", state |-> s]]
  PROVE  /\ task' \in [Tasks -> TaskRecord]
         /\ task'[t].pc = "take" /\ task'[t].state = s
         /\ \A u \in Tasks \ {t} : task'[u] = task[u]
BY Shapes DEF TaskRecord

LEMMA LoopIsNotInitial == "loop" \in Tasks /\ "initial" \in Tasks /\ "loop" # "initial"
BY DEF Tasks

(* The logout of an account that is not signed in any more is appended to   *)
(* the updates, which are handled in order.                                 *)
LEMMA ChangeLoginKeeps ==
  ASSUME IdentityInv, NEW a \in Account \cup {None}, ChangeLogin(a)
  PROVE  IdentityInv' /\ Carried
<1>1. BeliefOk' /\ Carried
  BY BeliefKept DEF IdentityInv, ChangeLogin
<1> DEFINE u == IF a = None THEN "other" ELSE "ready"
<1>2. updates \in Seq({"ready", "other"}) /\ u \in {"ready", "other"} /\ updates' = Append(updates, u)
  BY Shapes DEF IdentityInv, ChangeLogin
<1>3. left' \in [logins : 0..MaxLogins, upsets : 0..MaxUpsets]
  <2>1. left \in [logins : 0..MaxLogins, upsets : 0..MaxUpsets] /\ left.logins > 0
        /\ MaxLogins \in Nat
    BY Shapes, IdentityBounds DEF IdentityInv, ChangeLogin
  <2>2. left.logins - 1 \in 0..MaxLogins
    BY <2>1
  <2>3. left' = [left EXCEPT !.logins = left.logins - 1]
    BY DEF ChangeLogin
  <2> QED BY <2>1, <2>2, <2>3
<1>4. TypeOK'
  <2>1. updates' \in Seq({"ready", "other"})
    BY <1>2
  <2> QED BY <1>3, <2>1, Shapes DEF IdentityInv, ChangeLogin, TypeOK
<1>5. VersionOk'
  BY DEF IdentityInv, VersionOk, ChangeLogin
<1>6. LogoutComing => LogoutComing'
  <2>1. \A i \in 1..Len(updates) : i \in 1..Len(updates)' /\ updates'[i] = updates[i]
    BY <1>2
  <2> QED BY <2>1 DEF LogoutComing, ChangeLogin
<1>7. CASE a = None
  <2>1. updates'[Len(updates) + 1] = "other" /\ Len(updates) + 1 \in 1..Len(updates')
    BY <1>2, <1>7
  <2>2. LogoutComing'
    BY <2>1 DEF LogoutComing
  <2>3. TruthOk'
    BY <2>2 DEF TruthOk
  <2> QED BY <1>1, <1>4, <1>5, <2>3 DEF IdentityInv
<1>8. CASE a # None
  <2>1. login = None
    BY <1>8 DEF ChangeLogin
  <2>2. ASSUME NEW g \in Generation, attempt[g].account # None
        PROVE  attempt[g].account # login
    BY <2>1, <2>2
  <2>3. binding.active # None => binding.active.account # login
    <3>1. binding \in BindingRecord
      BY Shapes DEF IdentityInv
    <3> QED BY <2>1, <3>1, NoneIsNone DEF BindingRecord, Context
  <2>4. TruthOk'
    BY <1>6, <2>2, <2>3 DEF IdentityInv, TruthOk, Unbinding, ChangeLogin
  <2> QED BY <1>1, <1>4, <1>5, <2>4 DEF IdentityInv
<1> QED BY <1>7, <1>8

(* Until the first state is asked for nothing has begun.                    *)
LEMMA LearnVersionKeeps ==
  ASSUME IdentityInv, LearnVersion
  PROVE  IdentityInv' /\ Carried
<1>1. BeliefOk' /\ Carried
  BY BeliefKept DEF IdentityInv, LearnVersion
<1>2. PICK pc \in {"asked", "ended"} : task' = [task EXCEPT !["initial"].pc = pc]
  BY DEF LearnVersion
<1>3. /\ task' \in [Tasks -> TaskRecord] /\ task'["initial"].pc = pc
      /\ task'["loop"] = task["loop"]
  BY <1>2, TaskGoes, LoopIsNotInitial DEF IdentityInv
<1>4. left' \in [logins : 0..MaxLogins, upsets : 0..MaxUpsets]
  <2>1. left \in [logins : 0..MaxLogins, upsets : 0..MaxUpsets] /\ MaxUpsets \in Nat
    BY Shapes, IdentityBounds DEF IdentityInv
  <2> QED BY <2>1 DEF LearnVersion, Upset
<1>5. TypeOK'
  BY <1>3, <1>4, Shapes DEF IdentityInv, LearnVersion, TypeOK, TaskRecord
<1>6. VersionOk'
  BY <1>3 DEF IdentityInv, VersionOk, LearnVersion
<1>7. TruthOk'
  BY <1>3 DEF IdentityInv, TruthOk, LogoutComing, Unbinding, LearnVersion
<1> QED BY <1>1, <1>5, <1>6, <1>7 DEF IdentityInv

LEMMA LearnStateKeeps ==
  ASSUME IdentityInv, LearnState
  PROVE  IdentityInv' /\ Carried
<1>1. BeliefOk' /\ Carried
  BY BeliefKept DEF IdentityInv, LearnState
<1>2. /\ task' \in [Tasks -> TaskRecord] /\ task'["initial"].pc \in {"take", "ended"}
      /\ task'["loop"] = task["loop"]
  <2>1. CASE task' = [task EXCEPT !["initial"].pc = "ended"]
    BY <2>1, TaskGoes, LoopIsNotInitial DEF IdentityInv
  <2>2. CASE task' = [task EXCEPT !["initial"] =
                        [pc |-> "take", state |-> IF login = None THEN "other" ELSE "ready"]]
    <3>1. PICK s \in {"ready", "other"} :
            task' = [task EXCEPT !["initial"] = [pc |-> "take", state |-> s]]
      BY <2>2
    <3>2. TypeOK /\ "initial" \in Tasks
      BY LoopIsNotInitial DEF IdentityInv
    <3>3. /\ task' \in [Tasks -> TaskRecord] /\ task'["initial"].pc = "take"
          /\ \A u \in Tasks \ {"initial"} : task'[u] = task[u]
      BY <3>1, <3>2, TaskTakes
    <3> QED BY <3>3, LoopIsNotInitial
  <2> QED BY <2>1, <2>2 DEF LearnState
<1>3. left' \in [logins : 0..MaxLogins, upsets : 0..MaxUpsets]
  <2>1. left \in [logins : 0..MaxLogins, upsets : 0..MaxUpsets] /\ MaxUpsets \in Nat
    BY Shapes, IdentityBounds DEF IdentityInv
  <2> QED BY <2>1 DEF LearnState, Upset
<1>4. TypeOK'
  BY <1>2, <1>3, Shapes DEF IdentityInv, LearnState, TypeOK, TaskRecord
<1>5. VersionOk'
  BY <1>2 DEF IdentityInv, VersionOk, LearnState
<1>6. TruthOk'
  BY <1>2 DEF IdentityInv, TruthOk, LogoutComing, Unbinding, LearnState
<1> QED BY <1>1, <1>4, <1>5, <1>6 DEF IdentityInv

(* The logout that was coming is still to come, or in the hands of the loop.*)
LEMMA ReceiveKeeps ==
  ASSUME IdentityInv, Receive
  PROVE  IdentityInv' /\ Carried
<1>1. BeliefOk' /\ Carried
  BY BeliefKept DEF IdentityInv, Receive
<1>2. /\ updates \in Seq({"ready", "other"}) /\ updates # <<>>
      /\ Head(updates) \in {"ready", "other"}
      /\ updates' = Tail(updates) /\ updates' \in Seq({"ready", "other"})
  BY Shapes DEF IdentityInv, Receive
<1>3. /\ task' \in [Tasks -> TaskRecord] /\ task'["initial"] = task["initial"]
      /\ task'["loop"].pc = "take" /\ task'["loop"].state = Head(updates)
  BY <1>2, TaskTakes, LoopIsNotInitial DEF IdentityInv, Receive
<1>4. TypeOK'
  BY <1>2, <1>3, Shapes DEF IdentityInv, Receive, TypeOK, TaskRecord
<1>5. VersionOk'
  BY <1>3 DEF IdentityInv, VersionOk, Receive
<1>6. LogoutComing => LogoutComing'
  <2>1. ASSUME NEW i \in 1..Len(updates), updates[i] = "other" PROVE LogoutComing'
    <3>1. CASE i = 1
      BY <1>2, <1>3, <2>1, <3>1 DEF LogoutComing
    <3>2. CASE i # 1
      <4>1. i - 1 \in 1..Len(updates') /\ updates'[i - 1] = "other"
        BY <1>2, <2>1, <3>2
      <4> QED BY <4>1 DEF LogoutComing
    <3> QED BY <3>1, <3>2
  <2> QED BY <2>1 DEF LogoutComing, Receive
<1>7. TruthOk'
  BY <1>6 DEF IdentityInv, TruthOk, Unbinding, Receive
<1> QED BY <1>1, <1>4, <1>5, <1>7 DEF IdentityInv

(* What is ignored is ignored before anything has begun.                    *)
LEMMA HandledGoes ==
  ASSUME TypeOK, NEW t \in Tasks, task' = Handled(t)
  PROVE  /\ task' \in [Tasks -> TaskRecord]
         /\ task'[t].pc = IF t = "loop" THEN "idle" ELSE "ended"
         /\ \A u \in Tasks \ {t} : task'[u] = task[u]
<1> DEFINE pc == IF t = "loop" THEN "idle" ELSE "ended"
<1>1. pc \in {"idle", "ended"} /\ task' = [task EXCEPT ![t].pc = pc]
  BY DEF Handled
<1> HIDE DEF pc
<1>2. /\ task' \in [Tasks -> TaskRecord] /\ task'[t].pc = pc
      /\ \A u \in Tasks \ {t} : task'[u] = task[u]
  BY <1>1, TaskGoes
<1> QED BY <1>2 DEF pc

LEMMA IgnoreStateKeeps ==
  ASSUME IdentityInv, NEW t \in Tasks, IgnoreState(t)
  PROVE  IdentityInv' /\ Carried
<1>1. BeliefOk' /\ Carried
  BY BeliefKept DEF IdentityInv, IgnoreState
<1>2. /\ task' \in [Tasks -> TaskRecord]
      /\ task'[t].pc = IF t = "loop" THEN "idle" ELSE "ended"
      /\ \A u \in Tasks \ {t} : task'[u] = task[u]
  BY HandledGoes DEF IdentityInv, IgnoreState
<1>3. TypeOK'
  BY <1>2, Shapes DEF IdentityInv, IgnoreState, TypeOK, TaskRecord
<1>4. VersionOk'
  BY <1>2, LoopIsNotInitial DEF IdentityInv, VersionOk, IgnoreState
<1>5. TruthOk'
  <2>1. \A g \in Generation : attempt[g].account = None
    BY DEF IdentityInv, IgnoreState, VersionOk, BeliefOk, AttemptsOk, Knowing
  <2>2. binding.active = None
    BY DEF IdentityInv, IgnoreState, VersionOk, Unbound
  <2> QED BY <2>1, <2>2 DEF TruthOk, IgnoreState
<1> QED BY <1>1, <1>3, <1>4, <1>5 DEF IdentityInv

(* A "ready" is handled; a logout that was coming still is.                 *)
LEMMA BeginGenerationKeeps ==
  ASSUME IdentityInv, NEW t \in Tasks, BeginGeneration(t)
  PROVE  IdentityInv' /\ Carried
<1>1. /\ task' \in [Tasks -> TaskRecord]
      /\ task'[t].pc = IF t = "loop" THEN "idle" ELSE "ended"
      /\ \A u \in Tasks \ {t} : task'[u] = task[u]
  BY HandledGoes DEF IdentityInv, BeginGeneration
<1>2. LogoutComing => LogoutComing'
  BY <1>1, LoopIsNotInitial DEF LogoutComing, BeginGeneration
<1>3. Unbinding <=> Unbinding'
  BY <1>1, LoopIsNotInitial DEF Unbinding, BeginGeneration
<1>4. CASE identity.ready
  <2>1. UNCHANGED <<identity, binding, attempt>>
    BY <1>4 DEF BeginGeneration
  <2>2. BeliefOk' /\ Carried
    BY <2>1, BeliefKept DEF IdentityInv
  <2>3. TypeOK'
    BY <1>1, <2>1, Shapes DEF IdentityInv, BeginGeneration, TypeOK, TaskRecord
  <2>4. VersionOk'
    BY <1>1, LoopIsNotInitial DEF IdentityInv, VersionOk, BeginGeneration
  <2>5. TruthOk'
    BY <1>2, <1>3, <2>1 DEF IdentityInv, TruthOk, BeginGeneration
  <2> QED BY <2>2, <2>3, <2>4, <2>5 DEF IdentityInv
<1>5. CASE ~identity.ready
  <2>1. PICK g \in Generation :
          /\ g = Begun + 1
          /\ identity' = [ready |-> TRUE, gen |-> g, verified |-> None, status |-> "Pending"]
          /\ binding' = [expected |-> g, active |-> None]
          /\ attempt' = [attempt EXCEPT ![g].pc = "asked"]
    BY <1>5 DEF BeginGeneration
  <2>2. BeliefOk' /\ Carried /\ attempt' \in [Generation -> AttemptRecord]
    BY <2>1, BeliefBegins DEF IdentityInv
  <2>3. identity' \in IdentityRecord /\ binding' \in BindingRecord
    BY <2>1 DEF IdentityRecord, BindingRecord
  <2>4. TypeOK'
    <3>1. /\ login' = login /\ updates' = updates /\ version' = version
          /\ sources' = sources /\ left' = left
      BY DEF BeginGeneration
    <3> QED BY <1>1, <2>2, <2>3, <3>1, Shapes DEF IdentityInv, TypeOK, TaskRecord, AttemptRecord,
              IdentityRecord, BindingRecord, Verifying, Knowing
  <2>5. VersionOk'
    BY <1>1, LoopIsNotInitial DEF IdentityInv, VersionOk, BeginGeneration
  <2>6. attempt[g].account = None /\ attempt[g].pc = "unborn"
    BY <2>1, BegunIsCount DEF IdentityInv, BeliefOk, BegunOk, AttemptsOk, Knowing
  <2>7. /\ attempt'[g].account = None
        /\ \A h \in Generation \ {g} : attempt'[h] = attempt[h]
    <3>1. attempt \in [Generation -> AttemptRecord] /\ attempt[g] \in AttemptRecord
      BY Shapes DEF IdentityInv
    <3> QED BY <2>1, <2>6, <3>1 DEF AttemptRecord
  <2>8. identity'.gen = g /\ binding'.expected = g /\ binding'.active = None
    BY <2>1
  <2>9. TruthOk'
    BY <1>2, <2>7, <2>8 DEF IdentityInv, TruthOk, BeginGeneration
  <2> QED BY <2>2, <2>4, <2>5, <2>9 DEF IdentityInv
<1> QED BY <1>4, <1>5

(* A logout takes the identity first and the binding then.                  *)
LEMMA InvalidateIdentityKeeps ==
  ASSUME IdentityInv, NEW t \in Tasks, InvalidateIdentity(t)
  PROVE  IdentityInv' /\ Carried
<1>1. BeliefOk' /\ Carried
  BY BeliefDropped DEF IdentityInv, InvalidateIdentity
<1>2. /\ task' \in [Tasks -> TaskRecord] /\ task'[t].pc = "unbind"
      /\ \A u \in Tasks \ {t} : task'[u] = task[u]
  BY TaskGoes DEF IdentityInv, InvalidateIdentity
<1>3. identity' \in IdentityRecord /\ identity'.gen = None
  BY DEF InvalidateIdentity, Unidentified, IdentityRecord
<1>4. TypeOK'
  BY <1>2, <1>3, Shapes DEF IdentityInv, InvalidateIdentity, TypeOK, TaskRecord, IdentityRecord
<1>5. VersionOk'
  BY <1>2, LoopIsNotInitial DEF IdentityInv, VersionOk, InvalidateIdentity
<1>6. LogoutComing => LogoutComing' \/ Unbinding'
  BY <1>2, LoopIsNotInitial DEF LogoutComing, Unbinding, InvalidateIdentity
<1>7. Unbinding => Unbinding'
  BY <1>2, LoopIsNotInitial DEF Unbinding, InvalidateIdentity
<1>8. TruthOk'
  BY <1>3, <1>6, <1>7, NoneIsNone DEF IdentityInv, TruthOk, InvalidateIdentity
<1> QED BY <1>1, <1>4, <1>5, <1>8 DEF IdentityInv

LEMMA InvalidateBindingKeeps ==
  ASSUME IdentityInv, NEW t \in Tasks, InvalidateBinding(t)
  PROVE  IdentityInv' /\ Carried
<1>1. BeliefOk' /\ Carried
  BY BeliefDropped DEF IdentityInv, InvalidateBinding
<1>2. /\ task' \in [Tasks -> TaskRecord]
      /\ task'[t].pc = IF t = "loop" THEN "idle" ELSE "ended"
      /\ \A u \in Tasks \ {t} : task'[u] = task[u]
  BY HandledGoes DEF IdentityInv, InvalidateBinding
<1>3. binding' \in BindingRecord /\ binding'.active = None /\ binding'.expected = None
  BY DEF InvalidateBinding, Unbound, BindingRecord
<1>4. TypeOK'
  BY <1>2, <1>3, Shapes DEF IdentityInv, InvalidateBinding, TypeOK, TaskRecord, BindingRecord
<1>5. VersionOk'
  BY <1>2, LoopIsNotInitial DEF IdentityInv, VersionOk, InvalidateBinding
<1>6. LogoutComing => LogoutComing'
  BY <1>2, LoopIsNotInitial DEF LogoutComing, InvalidateBinding
<1>7. TruthOk'
  BY <1>3, <1>6, NoneIsNone DEF IdentityInv, TruthOk, InvalidateBinding
<1> QED BY <1>1, <1>4, <1>5, <1>7 DEF IdentityInv

(* The bounds are only used up.                                             *)
LEMMA LeftKept ==
  ASSUME TypeOK, left' = left \/ Upset
  PROVE  left' \in [logins : 0..MaxLogins, upsets : 0..MaxUpsets]
<1>1. left \in [logins : 0..MaxLogins, upsets : 0..MaxUpsets] /\ MaxUpsets \in Nat
  BY Shapes, IdentityBounds
<1> QED BY <1>1 DEF Upset

(* What a verification knows of the account is true when it is told.        *)
VerificationStep ==
  /\ UNCHANGED <<login, updates, version, task>> /\ sources' \subseteq Account
  /\ left' = left \/ Upset
LEMMA VerificationKeeps ==
  ASSUME IdentityInv, VerificationStep, BeliefOk', Carried,
         attempt' \in [Generation -> AttemptRecord], identity' \in IdentityRecord,
         binding' \in BindingRecord, version = "compatible", TruthOk'
  PROVE  IdentityInv' /\ Carried
<1>1. left' \in [logins : 0..MaxLogins, upsets : 0..MaxUpsets]
  BY LeftKept DEF IdentityInv, VerificationStep
<1>2. TypeOK'
  BY <1>1, Shapes DEF IdentityInv, VerificationStep, TypeOK, TaskRecord, IdentityRecord,
      BindingRecord, AttemptRecord, Verifying, Knowing
<1>3. VersionOk'
  BY DEF IdentityInv, VersionOk, VerificationStep
<1> QED BY <1>2, <1>3 DEF IdentityInv

LEMMA UnderCompatible ==
  ASSUME IdentityInv, NEW g \in Generation, attempt[g].pc \in Verifying
  PROVE  version = "compatible"
BY DEF IdentityInv, VersionOk, Verifying, Knowing

LEMMA FailureKeeps ==
  ASSUME IdentityInv, VerificationStep, UNCHANGED binding, NEW g \in Generation,
         attempt[g].pc \in Verifying \ {"published"}, Fail(g)
  PROVE  IdentityInv' /\ Carried
<1>1. /\ BeliefOk' /\ Carried /\ attempt' \in [Generation -> AttemptRecord]
      /\ identity' \in IdentityRecord /\ identity'.gen = identity.gen
      /\ attempt'[g].account = None
      /\ \A h \in Generation \ {g} : attempt'[h] = attempt[h]
  BY BeliefFailed DEF IdentityInv
<1>2. version = "compatible"
  BY UnderCompatible
<1>3. binding' \in BindingRecord
  BY Shapes DEF IdentityInv
<1>4. (LogoutComing' <=> LogoutComing) /\ (Unbinding' <=> Unbinding)
  BY DEF LogoutComing, Unbinding, VerificationStep
<1>5. TruthOk'
  BY <1>1, <1>4 DEF IdentityInv, TruthOk, VerificationStep
<1> QED BY <1>1, <1>2, <1>3, <1>5, VerificationKeeps

LEMMA AdvanceKeeps ==
  ASSUME IdentityInv, VerificationStep, UNCHANGED <<identity, binding>>,
         NEW g \in Generation, NEW pc \in {"answered", "checked", "stored"}, NEW a \in Account,
         attempt[g].pc \in Verifying \ {"published"},
         a = login \/ a = attempt[g].account,
         attempt' = [attempt EXCEPT ![g] = [pc |-> pc, account |-> a]]
  PROVE  IdentityInv' /\ Carried
<1>1. BeliefOk' /\ Carried /\ attempt' \in [Generation -> AttemptRecord]
  BY BeliefAdvanced DEF IdentityInv
<1>2. attempt'[g].account = a /\ \A h \in Generation \ {g} : attempt'[h] = attempt[h]
  BY Shapes DEF IdentityInv
<1>3. version = "compatible"
  BY UnderCompatible
<1>4. binding' \in BindingRecord /\ identity' \in IdentityRecord
  BY Shapes DEF IdentityInv
<1>5. (LogoutComing' <=> LogoutComing) /\ (Unbinding' <=> Unbinding)
  BY DEF LogoutComing, Unbinding, VerificationStep
<1>6. TruthOk'
  <2>1. ASSUME NEW h \in Generation, attempt'[h].account # None, attempt'[h].account # login
        PROVE  attempt[h].account # None /\ attempt[h].account # login
    BY <1>2, <2>1, NoneIsNone
  <2> QED BY <1>5, <2>1 DEF IdentityInv, TruthOk, VerificationStep
<1> QED BY <1>1, <1>3, <1>4, <1>6, VerificationKeeps

LEMMA AnswerKeeps ==
  ASSUME IdentityInv, NEW g \in Generation, Answer(g)
  PROVE  IdentityInv' /\ Carried
<1>1. VerificationStep /\ attempt[g].pc \in Verifying \ {"published"}
  <2>1. sources \subseteq Account
    BY Shapes DEF IdentityInv
  <2> QED BY <2>1 DEF Answer, VerificationStep, Verifying, Knowing
<1>2. CASE /\ login # None /\ UNCHANGED identity
           /\ attempt' = [attempt EXCEPT ![g] = [pc |-> "answered", account |-> login]]
  <2>1. PICK a \in Account : a = login
    BY <1>2, Shapes DEF IdentityInv
  <2>2. UNCHANGED <<identity, binding>>
    BY <1>2 DEF Answer
  <2> QED BY <1>1, <1>2, <2>1, <2>2, AdvanceKeeps
<1>3. CASE Fail(g)
  BY <1>1, <1>3, FailureKeeps DEF Answer
<1> QED BY <1>2, <1>3 DEF Answer

LEMMA CheckGenerationKeeps ==
  ASSUME IdentityInv, NEW g \in Generation, CheckGeneration(g)
  PROVE  IdentityInv' /\ Carried
<1>1. VerificationStep /\ attempt[g].pc \in Verifying \ {"published"} /\ UNCHANGED binding
  <2>1. sources \subseteq Account
    BY Shapes DEF IdentityInv
  <2> QED BY <2>1 DEF CheckGeneration, VerificationStep, Verifying, Knowing
<1>2. CASE /\ ~Current(g) /\ UNCHANGED identity
           /\ attempt' = [attempt EXCEPT ![g] = [pc |-> "ended", account |-> None]]
  <2>1. Fail(g)
    BY <1>2 DEF Fail
  <2> QED BY <1>1, <2>1, FailureKeeps
<1>3. CASE Fail(g)
  BY <1>1, <1>3, FailureKeeps
<1>4. CASE attempt' = [attempt EXCEPT ![g].pc = "checked"] /\ UNCHANGED identity
  <2>1. attempt[g] \in AttemptRecord
    BY Shapes DEF IdentityInv
  <2>2. attempt[g].account # None
    BY DEF IdentityInv, BeliefOk, AttemptsOk, Knowing, CheckGeneration
  <2>3. PICK a \in Account : a = attempt[g].account
    BY <2>1, <2>2 DEF AttemptRecord
  <2>4. [attempt[g] EXCEPT !.pc = "checked"] = [pc |-> "checked", account |-> a]
    BY <2>1, <2>3 DEF AttemptRecord
  <2>5. attempt' = [attempt EXCEPT ![g] = [pc |-> "checked", account |-> a]]
    BY <1>4, <2>4
  <2> QED BY <1>1, <1>4, <2>3, <2>5, AdvanceKeeps
<1> QED BY <1>2, <1>3, <1>4 DEF CheckGeneration

LEMMA StoreAccountKeeps ==
  ASSUME IdentityInv, NEW g \in Generation, StoreAccount(g)
  PROVE  IdentityInv' /\ Carried
<1>1. attempt[g] \in AttemptRecord /\ attempt[g].account # None
  BY Shapes DEF IdentityInv, BeliefOk, AttemptsOk, Knowing, StoreAccount
<1>2. PICK a \in Account : a = attempt[g].account
  BY <1>1 DEF AttemptRecord
<1>3. VerificationStep /\ attempt[g].pc \in Verifying \ {"published"} /\ UNCHANGED binding
  <2>1. sources \subseteq Account
    BY Shapes DEF IdentityInv
  <2> QED BY <1>2, <2>1 DEF StoreAccount, VerificationStep, Verifying, Knowing
<1>4. CASE Fail(g)
  BY <1>3, <1>4, FailureKeeps
<1>5. CASE attempt' = [attempt EXCEPT ![g].pc = "stored"] /\ UNCHANGED identity
  <2>1. [attempt[g] EXCEPT !.pc = "stored"] = [pc |-> "stored", account |-> a]
    BY <1>1, <1>2 DEF AttemptRecord
  <2>2. attempt' = [attempt EXCEPT ![g] = [pc |-> "stored", account |-> a]]
    BY <1>5, <2>1
  <2> QED BY <1>2, <1>3, <1>5, <2>2, AdvanceKeeps
<1> QED BY <1>4, <1>5 DEF StoreAccount

LEMMA ActivateKeeps ==
  ASSUME IdentityInv, NEW g \in Generation, Activate(g)
  PROVE  IdentityInv' /\ Carried
<1>1. VerificationStep /\ attempt[g].pc \in Verifying \ {"published"}
  <2>1. sources \subseteq Account
    BY Shapes DEF IdentityInv
  <2> QED BY <2>1 DEF Activate, VerificationStep, Verifying, Knowing
<1>2. CASE binding.expected = g
  <2>1. /\ BeliefOk' /\ Carried /\ attempt' \in [Generation -> AttemptRecord]
        /\ binding' \in BindingRecord /\ binding'.expected = g
        /\ binding'.active.account = attempt[g].account
    BY <1>2, BeliefActivated DEF IdentityInv, Activate
  <2>2. /\ attempt'[g].account = attempt[g].account
        /\ \A h \in Generation \ {g} : attempt'[h] = attempt[h]
    <3>1. attempt \in [Generation -> AttemptRecord] /\ attempt[g] \in AttemptRecord
      BY Shapes DEF IdentityInv
    <3> QED BY <1>2, <3>1 DEF Activate, AttemptRecord
  <2>3. identity' = identity /\ identity \in IdentityRecord
    BY <1>2, Shapes DEF IdentityInv, Activate
  <2>4. (LogoutComing' <=> LogoutComing) /\ (Unbinding' <=> Unbinding)
    BY <1>1 DEF LogoutComing, Unbinding, VerificationStep
  <2>5. login' = login /\ attempt[g].account # None
    BY <1>1 DEF VerificationStep, IdentityInv, BeliefOk, AttemptsOk, Activate, Knowing
  <2>6. ASSUME NEW h \in Generation, attempt'[h].account # None, attempt'[h].account # login
        PROVE  LogoutComing' \/ (identity'.gen # h /\ (binding'.expected # h \/ Unbinding'))
    <3>1. attempt[h].account # None /\ attempt[h].account # login
      BY <2>2, <2>6
    <3>2. LogoutComing \/ (identity.gen # h /\ (binding.expected # h \/ Unbinding))
      BY <3>1 DEF IdentityInv, TruthOk
    <3> QED BY <1>2, <2>1, <2>3, <2>4, <3>2
  <2>7. ASSUME binding'.active.account # login
        PROVE  LogoutComing' \/ Unbinding'
    BY <1>2, <2>1, <2>4, <2>5, <2>7 DEF IdentityInv, TruthOk
  <2>8. TruthOk'
    BY <2>5, <2>6, <2>7 DEF TruthOk
  <2>9. version = "compatible"
    BY <1>1, UnderCompatible
  <2> QED BY <1>1, <2>1, <2>3, <2>8, <2>9, VerificationKeeps
<1>3. CASE binding.expected # g
  BY <1>1, <1>3, FailureKeeps DEF Activate
<1> QED BY <1>2, <1>3

LEMMA VerifiedKeeps ==
  ASSUME IdentityInv, NEW g \in Generation, Verified(g)
  PROVE  IdentityInv' /\ Carried
<1>1. VerificationStep /\ attempt[g].pc \in Verifying /\ binding' = binding
  <2>1. sources \subseteq Account
    BY Shapes DEF IdentityInv
  <2> QED BY <2>1 DEF Verified, VerificationStep, Verifying, Knowing
<1>2. /\ BeliefOk' /\ Carried /\ attempt' \in [Generation -> AttemptRecord]
      /\ identity' \in IdentityRecord /\ identity'.gen = identity.gen
      /\ attempt'[g].account = None
      /\ \A h \in Generation \ {g} : attempt'[h] = attempt[h]
  BY <1>1, BeliefVerified DEF IdentityInv, Verified
<1>3. (LogoutComing' <=> LogoutComing) /\ (Unbinding' <=> Unbinding)
  BY <1>1 DEF LogoutComing, Unbinding, VerificationStep
<1>4. TruthOk'
  BY <1>1, <1>2, <1>3 DEF IdentityInv, TruthOk, VerificationStep
<1>5. binding' \in BindingRecord /\ version = "compatible"
  BY <1>1, Shapes, UnderCompatible DEF IdentityInv
<1> QED BY <1>1, <1>2, <1>4, <1>5, VerificationKeeps

LEMMA RetryKeeps ==
  ASSUME IdentityInv, RetryIdentity
  PROVE  IdentityInv' /\ Carried
<1>1. /\ BeliefOk' /\ Carried /\ attempt' \in [Generation -> AttemptRecord]
      /\ identity' \in IdentityRecord /\ binding' \in BindingRecord
      /\ identity'.gen = identity.gen /\ binding'.active \in {None, binding.active}
      /\ binding'.expected = identity.gen
      /\ attempt'[identity.gen].account = None
      /\ \A h \in Generation \ {identity.gen} : attempt'[h] = attempt[h]
  BY BeliefRetried DEF IdentityInv
<1>2. VerificationStep
  <2>1. sources \subseteq Account
    BY Shapes DEF IdentityInv
  <2> QED BY <2>1 DEF RetryIdentity, VerificationStep
<1>3. (LogoutComing' <=> LogoutComing) /\ (Unbinding' <=> Unbinding)
  BY <1>2 DEF LogoutComing, Unbinding, VerificationStep
<1>4. TruthOk'
  BY <1>1, <1>2, <1>3 DEF IdentityInv, TruthOk, VerificationStep
<1>5. version = "compatible"
  BY DEF IdentityInv, VersionOk, RetryIdentity, Unidentified
<1> QED BY <1>1, <1>2, <1>4, <1>5, VerificationKeeps

(* Every step of TDLib and of the gateway.                                  *)
LEMMA IdentityKeeps ==
  ASSUME IdentityInv, IdentityNext
  PROVE  IdentityInv' /\ Carried
<1>1. ASSUME NEW a \in Account \cup {None}, ChangeLogin(a) PROVE IdentityInv' /\ Carried
  BY <1>1, ChangeLoginKeeps
<1>2. CASE LearnVersion \/ LearnState \/ Receive
  BY <1>2, LearnVersionKeeps, LearnStateKeeps, ReceiveKeeps
<1>3. ASSUME NEW t \in Tasks, IgnoreState(t) \/ BeginGeneration(t)
                              \/ InvalidateIdentity(t) \/ InvalidateBinding(t)
      PROVE  IdentityInv' /\ Carried
  BY <1>3, IgnoreStateKeeps, BeginGenerationKeeps, InvalidateIdentityKeeps, InvalidateBindingKeeps
<1>4. ASSUME NEW g \in Generation, Answer(g) \/ CheckGeneration(g) \/ StoreAccount(g)
                                   \/ Activate(g) \/ Verified(g)
      PROVE  IdentityInv' /\ Carried
  BY <1>4, AnswerKeeps, CheckGenerationKeeps, StoreAccountKeeps, ActivateKeeps, VerifiedKeeps
<1>5. CASE RetryIdentity
  BY <1>5, RetryKeeps
<1> QED BY <1>1, <1>2, <1>3, <1>4, <1>5 DEF IdentityNext, GatewayStep

(* A step of the service leaves the identity alone, but for the bounds.     *)
LEMMA IdentityFrame ==
  ASSUME IdentityInv, UNCHANGED gatewayVars, left' = left \/ Upset
  PROVE  IdentityInv' /\ \A x : Published(x)' <=> Published(x)
<1>1. BeliefOk' /\ Carried
  BY BeliefKept DEF IdentityInv, gatewayVars
<1>2. left' \in [logins : 0..MaxLogins, upsets : 0..MaxUpsets]
  BY LeftKept DEF IdentityInv
<1>3. TypeOK' /\ VersionOk' /\ TruthOk'
  BY <1>2 DEF IdentityInv, TypeOK, VersionOk, TruthOk, LogoutComing, Unbinding, gatewayVars
<1>4. Begun' = Begun
  BY BegunKept DEF gatewayVars
<1> QED BY <1>1, <1>3, <1>4 DEF IdentityInv, Published, gatewayVars

LEMMA IdentityStarts ==
  ASSUME IdentityInit
  PROVE  IdentityInv
<1>1. \A g \in Generation : attempt[g].pc = "unborn" /\ attempt[g].account = None
  BY DEF IdentityInit
<1>2. {g \in Generation : attempt[g].pc # "unborn"} = {}
  BY <1>1
<1>3. Begun = 0
  BY <1>2, FS_EmptySet DEF Begun
<1>4. BegunOk
  BY <1>1, <1>3, IdentityBounds DEF BegunOk, Generation
<1>5. TypeOK
  <2>1. left \in [logins : 0..MaxLogins, upsets : 0..MaxUpsets]
    BY IdentityBounds DEF IdentityInit
  <2> QED BY <2>1 DEF IdentityInit, TypeOK, NewTasks, Tasks, Unidentified, Unbound
<1>6. /\ identity = Unidentified /\ binding = Unbound /\ version = "unknown"
      /\ ~identity.ready /\ identity.verified = None
      /\ binding.active = None /\ binding.expected = None
  BY DEF IdentityInit, Unidentified, Unbound
<1>7. VersionOk
  BY <1>1, <1>6 DEF VersionOk
<1>8. AttemptsOk /\ IdentityOk
  BY <1>1, <1>6 DEF AttemptsOk, IdentityOk, Knowing
<1>9. ContextsOk
  BY <1>1, <1>6, NoneIsNone DEF ContextsOk, InForce, Context
<1>10. TruthOk
  BY <1>1, <1>6 DEF TruthOk
<1> QED BY <1>4, <1>5, <1>7, <1>8, <1>9, <1>10 DEF IdentityInv, BeliefOk

(* A gateway that is replaced starts over, with the next generation.        *)
LEMMA IdentityRestarts ==
  ASSUME IdentityInv, Restarted
  PROVE  IdentityInv'
<1>1. attempt \in [Generation -> AttemptRecord]
  BY Shapes DEF IdentityInv
<1>2. \A g \in Generation : /\ attempt'[g] \in AttemptRecord /\ attempt'[g].account = None
                            /\ attempt'[g].pc \in {"unborn", "ended"}
                            /\ attempt'[g].pc = "unborn" <=> attempt[g].pc = "unborn"
  <2> SUFFICES ASSUME NEW g \in Generation
               PROVE  /\ attempt'[g] \in AttemptRecord /\ attempt'[g].account = None
                      /\ attempt'[g].pc \in {"unborn", "ended"}
                      /\ attempt'[g].pc = "unborn" <=> attempt[g].pc = "unborn"
    OBVIOUS
  <2>1. attempt'[g] = IF attempt[g].pc = "unborn" THEN attempt[g]
                      ELSE [pc |-> "ended", account |-> None]
    BY DEF Restarted
  <2>2. [pc |-> "ended", account |-> None] \in AttemptRecord
    BY DEF AttemptRecord
  <2>3. attempt[g].pc = "unborn" => attempt[g].account = None
    BY DEF IdentityInv, BeliefOk, AttemptsOk, Knowing
  <2> QED BY <1>1, <2>1, <2>2, <2>3
<1>3. attempt' \in [Generation -> AttemptRecord]
  BY <1>2 DEF Restarted
<1>4. Begun' = Begun /\ BegunOk'
  BY <1>2, BegunKept DEF IdentityInv, BeliefOk
<1>5. left' \in [logins : 0..MaxLogins, upsets : 0..MaxUpsets]
  BY LeftKept DEF IdentityInv, Restarted
<1>6. /\ ~Unidentified.ready /\ Unidentified.verified = None /\ Unidentified \in IdentityRecord
      /\ Unbound.active = None /\ Unbound.expected = None /\ Unbound \in BindingRecord
  BY DEF Unidentified, Unbound, IdentityRecord, BindingRecord
<1>7. identity' = Unidentified /\ binding' = Unbound /\ version' = "unknown"
      /\ task' = NewTasks /\ updates' = <<>> /\ login' = login /\ sources' = sources
  BY DEF Restarted
<1>8. NewTasks \in [Tasks -> TaskRecord] /\ <<>> \in Seq({"ready", "other"})
  BY DEF NewTasks, Tasks, TaskRecord
<1>9. TypeOK'
  BY <1>3, <1>5, <1>6, <1>7, <1>8, Shapes DEF IdentityInv, TypeOK, TaskRecord, IdentityRecord,
      BindingRecord, AttemptRecord, Verifying, Knowing
<1>10. VersionOk'
  BY <1>2, <1>7 DEF VersionOk
<1>11. AttemptsOk' /\ IdentityOk'
  BY <1>2, <1>4, <1>6, <1>7 DEF AttemptsOk, IdentityOk, Knowing
<1>12. ContextsOk'
  BY <1>2, <1>6, <1>7, NoneIsNone DEF ContextsOk, InForce, Context
<1>13. TruthOk'
  BY <1>2, <1>6, <1>7 DEF TruthOk
<1> QED BY <1>4, <1>9, <1>10, <1>11, <1>12, <1>13 DEF IdentityInv, BeliefOk

(* What the program acts for, once everything has been handled.             *)
LEMMA SettlesOnTheLogin ==
  ASSUME IdentityInv
  PROVE  ContextIsVerified
<1> SUFFICES ASSUME Settled, binding.active # None
             PROVE  /\ binding.active.account = login
                    /\ binding.active.gen = binding.expected
                    /\ identity.verified \in {None, binding.active}
  BY DEF ContextIsVerified
<1>1. binding \in BindingRecord /\ identity \in IdentityRecord
  BY Shapes DEF IdentityInv
<1>2. ~LogoutComing /\ ~Unbinding
  <2>1. Len(updates) = 0
    BY DEF Settled
  <2> QED BY <2>1 DEF Settled, LogoutComing, Unbinding
<1>3. binding.active.account = login
  BY <1>2 DEF IdentityInv, TruthOk
<1>4. binding.active.gen = binding.expected
  BY DEF IdentityInv, BeliefOk, IdentityOk
<1>5. ASSUME identity.verified # None PROVE identity.verified = binding.active
  <2>1. PICK x \in Context : identity.verified = x
    BY <1>1, <1>5 DEF IdentityRecord
  <2>2. x.gen = Begun
    BY <1>5, <2>1 DEF IdentityInv, BeliefOk, IdentityOk
  <2>3. Published(x)
    BY <2>1 DEF IdentityInv, BeliefOk, ContextsOk, InForce
  <2> QED BY <2>1, <2>2, <2>3 DEF Published
<1> QED BY <1>3, <1>4, <1>5

-----------------------------------------------------------------------------
(* What a publication does to the records.                                  *)

Status == {"Absent", "Planned", "Queued", "Blocked", "Running", "Ended"}
Record == [scope : Account \cup {None}, status : Status]
LEMMA RankFacts ==
  /\ DOMAIN Rank = Status /\ Projection = [Plan -> Record]
  /\ Rank["Absent"] = 0 /\ Rank["Planned"] = 1 /\ Rank["Queued"] = 2
  /\ Rank["Blocked"] = 3 /\ Rank["Running"] = 3 /\ Rank["Ended"] = 4
<1>1. DOMAIN Rank = Status
  BY DEF Rank, Status
<1> QED BY <1>1 DEF Rank, Projection, Record

(* The records that are there stay, in their scope, and only go forward.    *)
StoreKept ==
  \A p \in Plan : store[p] # NoRecord => /\ store'[p].scope = store[p].scope
                                         /\ Rank[store'[p].status] >= Rank[store[p].status]

(* A lifecycle stays the one it was, and loses sight of nothing.            *)
SameLife(l) ==
  lifecycle'[l].ctx = lifecycle[l].ctx /\ lifecycle'[l].user = lifecycle[l].user
LifeKept(l) ==
  /\ SameLife(l)
  /\ \A p \in Plan : lifecycle[l].last[p] # NoRecord => lifecycle'[l].last[p] # NoRecord

LEMMA PublishEffect ==
  ASSUME ServiceTypeOK, RecordsOk, TypeOK, NEW l \in Life, lifecycle[l].ctx # None,
         NEW new \in Projection, NEW ok \in BOOLEAN, Publish(l, new, ok),
         \A p \in Plan : /\ Own(new[p], lifecycle[l].ctx)
                         /\ new[p] # NoRecord /\ lifecycle[l].last[p] = NoRecord =>
                              store[p] = NoRecord
  PROVE  /\ store' \in Projection /\ lifecycle' \in [Life -> Lifecycle]
         /\ RecordsOk' /\ StoreKept /\ (\A k \in Life : LifeKept(k))
         /\ left' = left \/ Upset
         /\ ok => lifecycle'[l].last = new
<1> DEFINE ctx == lifecycle[l].ctx
           last == lifecycle[l].last
<1>1. /\ lifecycle \in [Life -> Lifecycle] /\ lifecycle[l] \in Lifecycle /\ store \in Projection
      /\ ctx \in Context /\ ctx.account \in Account /\ last \in Projection
  BY DEF ServiceTypeOK, Lifecycle, Context
<1>2. CASE ~ok
  <2>1. /\ lifecycle' = [lifecycle EXCEPT ![l].quarantined = TRUE] /\ store' = store
        /\ left' = left \/ Upset
    BY <1>2 DEF Publish
  <2>2. [lifecycle[l] EXCEPT !.quarantined = TRUE] \in Lifecycle
    BY <1>1 DEF Lifecycle
  <2>3. lifecycle' \in [Life -> Lifecycle]
    BY <1>1, <2>1, <2>2
  <2>4. \A k \in Life : /\ lifecycle'[k].ctx = lifecycle[k].ctx
                        /\ lifecycle'[k].user = lifecycle[k].user
                        /\ lifecycle'[k].last = lifecycle[k].last
    BY <1>1, <2>1 DEF Lifecycle
  <2>5. RecordsOk' /\ (\A k \in Life : LifeKept(k))
    BY <2>1, <2>4 DEF RecordsOk, LifeKept, SameLife
  <2>6. StoreKept
    <3>1. \A p \in Plan : store[p] \in Record
      BY <1>1, RankFacts
    <3>2. \A s \in Status : Rank[s] \in Int
      BY RankFacts DEF Status
    <3> QED BY <2>1, <3>1, <3>2 DEF StoreKept, Record
  <2> QED BY <1>1, <1>2, <2>1, <2>3, <2>5, <2>6
<1>3. CASE ok
  <2>1. /\ Publishable(l, new) /\ store' = Written(l, new) /\ left' = left
        /\ lifecycle' = [lifecycle EXCEPT ![l].last = new]
    BY <1>3 DEF Publish
  <2>2. [lifecycle[l] EXCEPT !.last = new] \in Lifecycle
    BY <1>1 DEF Lifecycle
  <2>3. /\ lifecycle' \in [Life -> Lifecycle]
        /\ lifecycle'[l].last = new /\ lifecycle'[l].ctx = ctx /\ lifecycle'[l].user = lifecycle[l].user
        /\ \A k \in Life \ {l} : lifecycle'[k] = lifecycle[k]
    BY <1>1, <2>1, <2>2 DEF Lifecycle
  <2>4. ASSUME NEW p \in Plan
        PROVE  /\ store'[p] = IF new[p].status # "Absent" THEN new[p]
                              ELSE IF store[p].scope = ctx.account THEN NoRecord ELSE store[p]
               /\ last[p] = IF store[p].scope = ctx.account THEN store[p] ELSE NoRecord
               /\ Rank[new[p].status] >= Rank[last[p].status]
               /\ store[p] \in Record /\ last[p] \in Record /\ new[p] \in Record
    <3>1. last[p] = Of(ctx.account)[p]
      BY <2>1 DEF Publishable
    <3>2. last[p] = IF store[p].scope = ctx.account THEN store[p] ELSE NoRecord
      BY <3>1 DEF Of
    <3>3. store'[p] = IF new[p].status # "Absent" THEN new[p]
                      ELSE IF store[p].scope = ctx.account THEN NoRecord ELSE store[p]
      BY <2>1 DEF Written
    <3>4. Rank[new[p].status] >= Rank[last[p].status]
      BY <2>1 DEF Publishable
    <3> QED BY <1>1, <3>2, <3>3, <3>4, RankFacts
  <2> HIDE DEF ctx, last
  <2>5. NoRecord \in Record /\ NoRecord.scope = None /\ NoRecord.status = "Absent"
    BY DEF NoRecord, Record, Status
  <2>6. store' \in Projection
    <3>1. \A p \in Plan : store'[p] \in Record
      BY <2>4, <2>5
    <3> QED BY <2>1, <3>1, RankFacts DEF Written
  <2>7. \A p \in Plan : new[p] = NoRecord \/ (new[p].scope = ctx.account /\ new[p].status # "Absent")
    BY DEF Own, ctx
  <2>8. \A p \in Plan : last[p] # NoRecord => new[p] # NoRecord
    <3> SUFFICES ASSUME NEW p \in Plan, last[p] # NoRecord, new[p] = NoRecord
                 PROVE  FALSE
      OBVIOUS
    <3>1. last[p].status # "Absent"
      BY DEF RecordsOk, Own, last
    <3>2. last[p].status \in Status
      BY <2>4 DEF Record
    <3> QED BY <2>4, <2>5, <3>1, <3>2, RankFacts DEF Status
  <2>9. \A p \in Plan : Recorded(store'[p])
    <3> SUFFICES ASSUME NEW p \in Plan PROVE Recorded(store'[p])
      OBVIOUS
    <3>1. Recorded(store[p])
      BY DEF RecordsOk
    <3> QED BY <1>1, <2>4, <2>7, <3>1, NoneIsNone DEF Recorded
  <2>10. RecordsOk'
    <3>1. ASSUME NEW k \in Life, NEW p \in Plan
          PROVE  Own(lifecycle'[k].last[p], lifecycle'[k].ctx)
      <4>1. CASE k = l
        BY <1>1, <2>3, <2>7, <4>1, NoneIsNone DEF Own
      <4>2. CASE k # l
        BY <2>3, <4>2 DEF RecordsOk
      <4> QED BY <4>1, <4>2
    <3> QED BY <2>9, <3>1 DEF RecordsOk
  <2>11. \A k \in Life : LifeKept(k)
    BY <2>3, <2>8 DEF LifeKept, SameLife, ctx, last
  <2>12. StoreKept
    <3> SUFFICES ASSUME NEW p \in Plan, store[p] # NoRecord
                 PROVE  /\ store'[p].scope = store[p].scope
                        /\ Rank[store'[p].status] >= Rank[store[p].status]
      BY DEF StoreKept
    <3>1. \A s \in Status : Rank[s] \in Int
      BY RankFacts DEF Status
    <3>2. CASE store[p].scope = ctx.account
      <4>1. last[p] = store[p] /\ new[p] # NoRecord
        BY <2>4, <2>8, <3>2
      <4>2. store'[p] = new[p] /\ new[p].scope = ctx.account
        BY <2>4, <2>7, <4>1
      <4> QED BY <2>4, <3>2, <4>1, <4>2
    <3>3. CASE store[p].scope # ctx.account
      <4>1. last[p] = NoRecord
        BY <2>4, <3>3
      <4>2. new[p] = NoRecord
        BY <4>1 DEF last
      <4>3. store'[p] = store[p]
        BY <2>4, <2>5, <3>3, <4>2
      <4> QED BY <2>4, <3>1, <4>3 DEF Record
    <3> QED BY <3>2, <3>3
  <2> QED BY <2>1, <2>3, <2>6, <2>10, <2>11, <2>12
<1> QED BY <1>2, <1>3

LEMMA StoreSame ==
  ASSUME ServiceTypeOK, store' = store
  PROVE  StoreKept
<1>1. \A p \in Plan : store[p] \in Record
  BY RankFacts DEF ServiceTypeOK
<1>2. \A s \in Status : Rank[s] \in Int
  BY RankFacts DEF Status
<1> QED BY <1>1, <1>2 DEF StoreKept, Record

-----------------------------------------------------------------------------
(* Steps of a command, whatever they are for.                               *)

(* A step of command c leaves every other command as it was.                *)
CommandStep(c) ==
  /\ command' \in [Command -> Handler]
  /\ \A d \in Command \ {c} : command'[d] = command[d]

LEMMA BecomesForm ==
  ASSUME ServiceTypeOK, NEW c \in Command, NEW r \in Handler,
         command' = [command EXCEPT ![c] = r]
  PROVE  CommandStep(c) /\ command'[c] = r
BY DEF ServiceTypeOK, CommandStep

LEMMA ToForm ==
  ASSUME ServiceTypeOK, NEW c \in Command,
         NEW pc \in {"idle", "lock"} \cup Holding \cup Serving, To(c, pc)
  PROVE  /\ CommandStep(c) /\ command'[c].pc = pc
         /\ command'[c].kind = command[c].kind /\ command'[c].ctx = command[c].ctx
         /\ command'[c].built = command[c].built /\ command'[c].life = command[c].life
<1>1. command[c] \in Handler
  BY DEF ServiceTypeOK
<1> DEFINE r == [command[c] EXCEPT !.pc = pc]
<1>2. /\ r \in Handler /\ r.pc = pc /\ r.kind = command[c].kind /\ r.ctx = command[c].ctx
      /\ r.built = command[c].built /\ r.life = command[c].life
  BY <1>1 DEF Handler
<1>3. command' = [command EXCEPT ![c] = r]
  BY DEF To
<1> HIDE DEF r
<1>4. command' \in [Command -> Handler] /\ command'[c] = r
      /\ \A d \in Command \ {c} : command'[d] = command[d]
  BY <1>2, <1>3 DEF ServiceTypeOK
<1> QED BY <1>2, <1>4 DEF CommandStep

LEMMA RefuseForm ==
  ASSUME ServiceTypeOK, NEW c \in Command, command' = [command EXCEPT ![c] = Idle]
  PROVE  /\ CommandStep(c) /\ command'[c] = Idle
         /\ Idle.pc = "idle" /\ Idle.ctx = None /\ Idle.built = None /\ Idle.life = None
<1>1. Idle \in Handler
  BY DEF Idle, Handler
<1>2. Idle.pc = "idle" /\ Idle.ctx = None /\ Idle.built = None /\ Idle.life = None
  BY DEF Idle
<1> QED BY <1>1, <1>2, BecomesForm

(* What the others rely on.                                                 *)
LivesKept(c) ==
  /\ \A d \in Command \ {c} : command[d].life # None => SameLife(command[d].life)
  /\ \A p \in Plan : worker[p].pc # "off" => LifeKept(worker[p].life)
  /\ slot # None => SameLife(slot.life)
OthersKeep(c) ==
  /\ CommandStep(c)
  /\ UNCHANGED gatewayVars /\ stopped' = stopped
  /\ \A d \in Command \ {c} : holder' = d <=> holder = d

(* Where nothing is taken down, the other commands and the workers go on.   *)
LEMMA OthersGoOn ==
  ASSUME ServiceInv, NEW c \in Command, OthersKeep(c), LivesKept(c),
         slot # None => slot' = slot,
         command[c].pc \notin {"stop", "drain"},
         \A p \in Plan : worker'[p] = worker[p] \/ WorkerOk(p)'
  PROVE  (\A d \in Command \ {c} : CommandOk(d)') /\ WorkersOk'
<1>1. \A l : /\ InUse(l) => InUse(l)'
             /\ Attended(l) => Attended(l)'
  BY DEF InUse, Attended, OthersKeep, CommandStep
<1>2. ASSUME NEW d \in Command \ {c} PROVE CommandOk(d)'
  <2>1. CommandOk(d)
    BY DEF ServiceInv, CommandsOk
  <2>2. /\ command'[d] = command[d] /\ binding' = binding /\ stopped' = stopped
        /\ holder' = d <=> holder = d
    BY DEF OthersKeep, CommandStep, gatewayVars
  <2>3. command[d].life # None => /\ lifecycle'[command[d].life].ctx = lifecycle[command[d].life].ctx
                                   /\ lifecycle'[command[d].life].user = lifecycle[command[d].life].user
    BY DEF LivesKept, LifeKept, SameLife
  <2>4. ASSUME command[d].pc = "commit", command[d].kind = "start"
        PROVE  InUse(command[d].life)'
    <3>1. PICK l : l = command[d].life
      OBVIOUS
    <3>2. InUse(command[d].life)
      BY <2>1, <2>4 DEF CommandOk
    <3>3. InUse(l)
      BY <3>1, <3>2 DEF InUse
    <3>4. InUse(l)'
      BY <1>1, <3>3
    <3> QED BY <2>2, <3>1, <3>4 DEF InUse
  <2>5. command[d].pc = "use" => binding'.active # command[d].ctx
                                  \/ (slot' # None /\ slot'.life = command[d].life)
    BY <2>1, <2>2 DEF CommandOk
  <2> QED BY <2>1, <2>2, <2>3, <2>4, <2>5 DEF CommandOk, Serves, Building, Serving, InUse
<1>3. ASSUME NEW p \in Plan, worker'[p] = worker[p] PROVE WorkerOk(p)'
  <2>1. WorkerOk(p) /\ worker'[p] = worker[p] /\ stopped' = stopped
    BY <1>3 DEF ServiceInv, WorkersOk, OthersKeep
  <2>2. worker[p].pc # "off" =>
          /\ lifecycle'[worker[p].life].ctx = lifecycle[worker[p].life].ctx
          /\ lifecycle[worker[p].life].last[p] # NoRecord => lifecycle'[worker[p].life].last[p] # NoRecord
    BY DEF LivesKept, LifeKept, SameLife
  <2>3. ASSUME worker[p].pc # "off", ~stopped
        PROVE  Attended(worker[p].life)'
    <3>1. PICK l : l = worker[p].life
      OBVIOUS
    <3>2. Attended(worker[p].life)
      BY <2>1, <2>3 DEF WorkerOk
    <3>3. Attended(l)
      BY <3>1, <3>2 DEF Attended, InUse
    <3>4. Attended(l)'
      BY <1>1, <3>3
    <3> QED BY <2>1, <3>1, <3>4 DEF Attended, InUse
  <2> QED BY <2>1, <2>2, <2>3 DEF WorkerOk, InUse, Attended
<1> QED BY <1>2, <1>3 DEF WorkersOk

(* What is held on to is what was before, or the context in force.          *)
LEMMA HeldKept ==
  ASSUME IdentityInv, ServiceInv, \A x : Published(x)' <=> Published(x),
         \A x \in Context : Held(x)' => Held(x) \/ binding.active = x
  PROVE  HeldOk'
<1> SUFFICES ASSUME NEW x \in Context, Held(x)'
             PROVE  Published(x)
  BY DEF HeldOk
<1>1. CASE Held(x)
  BY <1>1 DEF ServiceInv, HeldOk
<1>2. CASE binding.active = x
  BY <1>2 DEF IdentityInv, BeliefOk, ContextsOk, InForce
<1> QED BY <1>1, <1>2

(* Nobody works for a lifecycle while the next one is built.                *)
LEMMA BuilderAlone ==
  ASSUME ServiceInv, NEW c \in Command, command[c].pc \in {"build", "verify"} \cup Building
  PROVE  /\ slot = None /\ holder = c
         /\ \A d \in Command \ {c} : command[d].pc \notin Holding
         /\ \A p \in Plan : worker[p].pc = "off" /\ worker[p].life = None
<1>1. holder = c /\ ~stopped
  BY DEF ServiceInv, CommandsOk, CommandOk, Holding, Building
<1>2. \A d \in Command \ {c} : command[d].pc \notin Holding
  BY <1>1 DEF ServiceInv, CommandsOk, CommandOk
<1>3. slot = None
  BY <1>1, NoneIsNone DEF ServiceInv, SlotOk
<1>4. \A l : ~Attended(l)
  BY <1>2, <1>3 DEF InUse, Attended, Holding, Building
<1> QED BY <1>1, <1>2, <1>3, <1>4 DEF ServiceInv, WorkersOk, WorkerOk

(* Commands that end without a change.                                      *)
LEMMA RefusalKeeps ==
  ASSUME IdentityInv, ServiceInv, NEW c \in Command,
         command[c].pc \notin {"stop", "drain"}, command' = [command EXCEPT ![c] = Idle],
         holder' = IF holder = c THEN None ELSE holder,
         UNCHANGED gatewayVars, left' = left \/ Upset, UNCHANGED <<slot, worker, stopped>>,
         store' \in Projection, lifecycle' \in [Life -> Lifecycle],
         RecordsOk', \A k \in Life : LifeKept(k)
  PROVE  ServiceInv'
<1>1. \A x : Published(x)' <=> Published(x)
  BY IdentityFrame
<1>2. /\ CommandStep(c) /\ command'[c] = Idle
      /\ Idle.pc = "idle" /\ Idle.ctx = None /\ Idle.built = None /\ Idle.life = None
  BY RefuseForm DEF ServiceInv
<1>3. holder \in Command \cup {None} /\ holder' \in {None, holder} /\ holder' # c
  BY NoneIsNone DEF ServiceInv, ServiceTypeOK
<1>4. OthersKeep(c)
  BY <1>2, NoneIsNone DEF OthersKeep
<1>5. LivesKept(c)
  <2>1. \A d \in Command : command[d].life \in Life \cup {None}
    BY DEF ServiceInv, ServiceTypeOK, Handler
  <2>2. \A p \in Plan : worker[p].pc # "off" => worker[p].life \in Life
    BY DEF ServiceInv, ServiceTypeOK, Task, WorkersOk, WorkerOk
  <2>3. slot # None => slot.life \in Life
    BY DEF ServiceInv, ServiceTypeOK, Slot
  <2> QED BY <2>1, <2>2, <2>3 DEF LivesKept, LifeKept, SameLife
<1>6. (\A d \in Command \ {c} : CommandOk(d)') /\ WorkersOk'
  BY <1>4, <1>5, OthersGoOn
<1>7. CommandOk(c)'
  BY <1>2, <1>3 DEF CommandOk, Holding, Building, Serving
<1>8. SlotOk'
  BY <1>3, <1>5 DEF ServiceInv, SlotOk, Serves, LivesKept, LifeKept, SameLife
<1>9. HeldOk'
  <2>1. \A x \in Context : Held(x)' => Held(x)
    BY <1>2, NoneIsNone DEF Held, CommandStep
  <2> QED BY <1>1, <2>1, HeldKept
<1>10. ServiceTypeOK'
  BY <1>2, <1>3 DEF ServiceInv, ServiceTypeOK, CommandStep
<1>11. CommandsOk'
  BY <1>6, <1>7 DEF CommandsOk
<1> QED BY <1>6, <1>8, <1>9, <1>10, <1>11 DEF ServiceInv

(* A step that takes nothing down, and may start workers.                   *)
LEMMA CommandActs ==
  ASSUME IdentityInv, ServiceInv, NEW c \in Command, OthersKeep(c), LivesKept(c),
         slot # None => slot' = slot, command[c].pc \notin {"stop", "drain"},
         \A p \in Plan : worker'[p] = worker[p] \/ WorkerOk(p)',
         worker' \in [Plan -> Task], left' = left \/ Upset,
         store' \in Projection, lifecycle' \in [Life -> Lifecycle],
         slot' \in Slot \cup {None}, holder' \in Command \cup {None},
         RecordsOk', CommandOk(c)', SlotOk',
         \A x \in Context : Held(x)' => Held(x) \/ binding.active = x
  PROVE  ServiceInv'
<1>1. \A x : Published(x)' <=> Published(x)
  BY IdentityFrame DEF OthersKeep
<1>2. (\A d \in Command \ {c} : CommandOk(d)') /\ WorkersOk'
  BY OthersGoOn
<1>3. HeldOk'
  BY <1>1, HeldKept
<1>4. ServiceTypeOK'
  BY DEF ServiceInv, ServiceTypeOK, OthersKeep, CommandStep
<1>5. CommandsOk'
  BY <1>2 DEF CommandsOk
<1> QED BY <1>2, <1>3, <1>4, <1>5 DEF ServiceInv

LEMMA CommandKeeps ==
  ASSUME IdentityInv, ServiceInv, NEW c \in Command, OthersKeep(c), LivesKept(c),
         slot # None => slot' = slot, command[c].pc \notin {"stop", "drain"},
         worker' = worker, left' = left \/ Upset,
         store' \in Projection, lifecycle' \in [Life -> Lifecycle],
         slot' \in Slot \cup {None}, holder' \in Command \cup {None},
         RecordsOk', CommandOk(c)', SlotOk',
         \A x \in Context : Held(x)' => Held(x) \/ binding.active = x
  PROVE  ServiceInv'
<1>1. /\ worker' \in [Plan -> Task]
      /\ \A p \in Plan : worker'[p] = worker[p]
  BY DEF ServiceInv, ServiceTypeOK
<1> QED BY <1>1, CommandActs

(* The lifecycles in use are lifecycles.                                    *)
LEMMA LivesInUse ==
  ASSUME ServiceInv
  PROVE  /\ \A c \in Command : command[c] \in Handler /\ command[c].life \in Life \cup {None}
         /\ \A p \in Plan : worker[p].pc # "off" => worker[p].life \in Life
         /\ slot # None => slot \in Slot /\ slot.life \in Life /\ slot.ctx \in Context
<1>1. \A c \in Command : command[c] \in Handler /\ command[c].life \in Life \cup {None}
  BY DEF ServiceInv, ServiceTypeOK, Handler
<1>2. \A p \in Plan : worker[p].pc # "off" => worker[p].life \in Life
  BY DEF ServiceInv, ServiceTypeOK, Task, WorkersOk, WorkerOk
<1>3. slot # None => slot \in Slot /\ slot.life \in Life /\ slot.ctx \in Context
  BY DEF ServiceInv, ServiceTypeOK, Slot
<1> QED BY <1>1, <1>2, <1>3

LEMMA LivesSame ==
  ASSUME ServiceInv, NEW c \in Command, \A k \in Life : LifeKept(k)
  PROVE  LivesKept(c)
BY LivesInUse DEF LivesKept, LifeKept, SameLife

LEMMA LifecycleSame ==
  ASSUME ServiceInv, lifecycle' = lifecycle
  PROVE  /\ lifecycle' \in [Life -> Lifecycle] /\ \A k \in Life : LifeKept(k)
         /\ store' = store => store' \in Projection /\ RecordsOk' /\ StoreKept
BY StoreSame DEF ServiceInv, ServiceTypeOK, LifeKept, SameLife, RecordsOk

(* Refusals, where nothing else changes.                                    *)
LEMMA RefuseKeeps ==
  ASSUME IdentityInv, ServiceInv, NEW c \in Command,
         command[c].pc \notin {"stop", "drain"}, Refuse(c), UNCHANGED gatewayVars,
         UNCHANGED <<left, store, slot, lifecycle, worker, stopped>>
  PROVE  ServiceInv' /\ StoreKept
<1>1. /\ lifecycle' \in [Life -> Lifecycle] /\ \A k \in Life : LifeKept(k)
      /\ store' \in Projection /\ RecordsOk' /\ StoreKept
  BY LifecycleSame
<1> QED BY <1>1, RefusalKeeps DEF Refuse

(* A command that is issued holds the context in force.                     *)
LEMMA IssueKeeps ==
  ASSUME IdentityInv, ServiceInv, NEW c \in Command,
         NEW kind \in {"read", "prepare", "start"}, Issue(c, kind)
  PROVE  ServiceInv' /\ StoreKept
<1>1. binding.active \in Context /\ binding.active # None
  BY Shapes DEF IdentityInv, BindingRecord, Issue
<1>2. PICK r \in Handler : /\ r.pc = "lock" /\ r.ctx = binding.active /\ r.built = None
                           /\ r.life = None /\ command' = [command EXCEPT ![c] = r]
  <2> DEFINE r == [Idle EXCEPT !.pc = "lock", !.kind = kind, !.ctx = binding.active]
  <2>1. /\ r \in Handler /\ r.pc = "lock" /\ r.ctx = binding.active /\ r.built = None
        /\ r.life = None /\ command' = [command EXCEPT ![c] = r]
    BY <1>1 DEF Idle, Handler, Issue
  <2> HIDE DEF r
  <2> QED BY <2>1
<1>3. CommandStep(c) /\ command'[c] = r
  BY <1>2, BecomesForm DEF ServiceInv
<1>4. /\ lifecycle' \in [Life -> Lifecycle] /\ LivesKept(c)
      /\ store' \in Projection /\ RecordsOk' /\ StoreKept
  BY LifecycleSame, LivesSame DEF Issue
<1>5. OthersKeep(c)
  BY <1>3 DEF OthersKeep, Issue
<1>6. CommandOk(c)'
  <2>1. holder # c
    BY DEF Issue, ServiceInv, CommandsOk, CommandOk, Holding, Building
  <2> QED BY <1>1, <1>2, <1>3, <2>1 DEF CommandOk, Issue, Holding, Building, Serving
<1>7. SlotOk'
  BY DEF ServiceInv, SlotOk, Serves, Issue
<1>8. ASSUME NEW x \in Context, Held(x)' PROVE Held(x) \/ binding.active = x
  <2>1. slot' = slot
    BY DEF Issue
  <2>2. CASE slot' # None /\ slot'.ctx = x
    BY <2>1, <2>2 DEF Held
  <2>3. ASSUME NEW d \in Command, command'[d].ctx = x \/ command'[d].built = x
        PROVE  Held(x) \/ binding.active = x
    <3>1. CASE d = c
      BY <1>2, <1>3, <2>3, <3>1, NoneIsNone
    <3>2. CASE d # c
      BY <1>3, <2>3, <3>2 DEF Held, CommandStep
    <3> QED BY <3>1, <3>2
  <2> QED BY <1>8, <2>2, <2>3 DEF Held
<1>9. slot' \in Slot \cup {None} /\ holder' \in Command \cup {None}
  BY DEF ServiceInv, ServiceTypeOK, Issue
<1> QED BY <1>4, <1>5, <1>6, <1>7, <1>8, <1>9, CommandKeeps DEF Issue

(* The lock is taken only with nothing being built, for a context that is   *)
(* in force; commands of the registered provider, if it is of another, will *)
(* not pass their checks any more.                                          *)
LEMMA LockKeeps ==
  ASSUME IdentityInv, ServiceInv, NEW c \in Command, Lock(c)
  PROVE  ServiceInv' /\ StoreKept
<1>1. /\ lifecycle' \in [Life -> Lifecycle] /\ LivesKept(c)
      /\ store' \in Projection /\ RecordsOk' /\ StoreKept
  BY LifecycleSame, LivesSame DEF Lock
<1>2. /\ command[c].pc = "lock" /\ holder = None /\ command[c] \in Handler
      /\ command[c].ctx # None /\ command[c].built = None /\ command[c].life = None /\ ~stopped
  <2>1. CommandOk(c)
    BY DEF ServiceInv, CommandsOk
  <2> QED BY <2>1, LivesInUse DEF Lock, CommandOk, Building, Serving
<1>3. CASE Refuse(c) /\ UNCHANGED slot
  BY <1>2, <1>3, RefuseKeeps DEF Lock
<1>4. CASE /\ slot # None /\ slot.ctx = command[c].ctx /\ UNCHANGED <<slot, holder>>
           /\ command' = [command EXCEPT ![c].pc = "use", ![c].life = slot.life]
  <2>1. PICK r \in Handler : /\ r.pc = "use" /\ r.ctx = command[c].ctx /\ r.built = None
                             /\ r.life = slot.life /\ command' = [command EXCEPT ![c] = r]
    <3> DEFINE r == [command[c] EXCEPT !.pc = "use", !.life = slot.life]
    <3>1. /\ r \in Handler /\ r.pc = "use" /\ r.ctx = command[c].ctx /\ r.built = None
          /\ r.life = slot.life
      BY <1>2, <1>4, LivesInUse DEF Handler, Serving
    <3>2. command' = [command EXCEPT ![c] = r]
      BY <1>2, <1>4 DEF Handler
    <3> HIDE DEF r
    <3> QED BY <3>1, <3>2
  <2>2. CommandStep(c) /\ command'[c] = r
    BY <2>1, BecomesForm DEF ServiceInv
  <2>3. OthersKeep(c)
    BY <1>4, <2>2 DEF OthersKeep, Lock
  <2>4. slot.life \in Life /\ slot.life # None /\ Serves(slot.life, slot.ctx)
    BY <1>4, LivesInUse, NoneIsNone DEF ServiceInv, SlotOk
  <2>5. CommandOk(c)'
    BY <1>2, <1>4, <2>1, <2>2, <2>4, NoneIsNone
    DEF CommandOk, Serves, Lock, Holding, Building, Serving
  <2>6. SlotOk'
    BY <1>4 DEF ServiceInv, SlotOk, Serves, Lock
  <2>7. \A x \in Context : Held(x)' => Held(x)
    BY <1>4, <2>1, <2>2, NoneIsNone DEF Held, CommandStep
  <2>8. slot' \in Slot \cup {None} /\ holder' \in Command \cup {None}
    BY <1>4 DEF ServiceInv, ServiceTypeOK
  <2> QED BY <1>1, <1>2, <1>4, <2>3, <2>5, <2>6, <2>7, <2>8, CommandKeeps DEF Lock
<1>5. CASE /\ binding.active = command[c].ctx /\ ~(slot # None /\ slot.ctx = command[c].ctx)
           /\ holder' = c /\ slot' = None
           /\ command' = [command EXCEPT
                ![c].pc = IF slot = None THEN "build" ELSE "stop",
                ![c].life = IF slot = None THEN None ELSE slot.life]
  <2>1. PICK r \in Handler : /\ r.pc = IF slot = None THEN "build" ELSE "stop"
                             /\ r.life = IF slot = None THEN None ELSE slot.life
                             /\ r.ctx = command[c].ctx /\ r.built = None
                             /\ command' = [command EXCEPT ![c] = r]
    <3> DEFINE pc == IF slot = None THEN "build" ELSE "stop"
               life == IF slot = None THEN None ELSE slot.life
               r == [command[c] EXCEPT !.pc = pc, !.life = life]
    <3>1. pc \in Holding /\ life \in Life \cup {None}
      BY LivesInUse DEF Holding
    <3>2. command' = [command EXCEPT ![c] = r]
      BY <1>2, <1>5 DEF Handler
    <3> HIDE DEF pc, life
    <3>3. /\ r \in Handler /\ r.pc = pc /\ r.ctx = command[c].ctx /\ r.built = None
          /\ r.life = life
      BY <1>2, <3>1 DEF Handler
    <3> HIDE DEF r
    <3> QED BY <3>2, <3>3 DEF pc, life
  <2>2. CommandStep(c) /\ command'[c] = r
    BY <2>1, BecomesForm DEF ServiceInv
  <2>3. \A x : Published(x)' <=> Published(x)
    BY IdentityFrame DEF Lock
  <2>4. \A l : (InUse(l) => InUse(l)') /\ (Attended(l) => Attended(l)')
    <3>1. \A l : slot # None /\ slot.life = l => InUse(l)'
      BY <1>5, <2>1, <2>2 DEF InUse
    <3>2. \A d \in Command : command[d].pc \in {"stop", "drain"} => command'[d] = command[d]
      BY <1>2, <2>2 DEF CommandStep
    <3>3. ASSUME NEW l, InUse(l) PROVE InUse(l)'
      BY <3>1, <3>2, <3>3 DEF InUse
    <3> QED BY <3>2, <3>3 DEF Attended
  <2>5. ASSUME NEW d \in Command \ {c} PROVE CommandOk(d)'
    <3>1. CommandOk(d) /\ command'[d] = command[d]
      BY <2>2 DEF ServiceInv, CommandsOk, CommandStep
    <3>2. holder' # d /\ command[d].pc \notin Holding
      BY <1>2, <1>5, <3>1, NoneIsNone DEF CommandOk
    <3>3. ASSUME command[d].pc = "use" PROVE binding.active # command[d].ctx
      <4>1. Serves(command[d].life, command[d].ctx)
        BY <3>1, <3>3 DEF CommandOk, Serving
      <4>2. CASE slot # None /\ slot.life = command[d].life
        <5>1. slot.ctx = command[d].ctx
          BY <4>1, <4>2 DEF ServiceInv, SlotOk, Serves
        <5> QED BY <1>5, <4>2, <5>1
      <4> QED BY <3>1, <3>3, <4>2 DEF CommandOk
    <3>4. ASSUME command[d].pc = "commit", command[d].kind = "start"
          PROVE  InUse(command[d].life)'
      <4>1. PICK l : l = command[d].life
        OBVIOUS
      <4>2. InUse(command[d].life)
        BY <3>1, <3>4 DEF CommandOk
      <4>3. InUse(l)
        BY <4>1, <4>2 DEF InUse
      <4>4. InUse(l)'
        BY <2>4, <4>3
      <4> QED BY <3>1, <4>1, <4>4 DEF InUse
    <3>5. UNCHANGED <<binding, lifecycle, stopped>>
      BY DEF Lock, gatewayVars
    <3> QED BY <3>1, <3>2, <3>3, <3>4, <3>5 DEF CommandOk, Serves, InUse
  <2>6. CommandOk(c)'
    <3>1. slot # None => slot.life # None
      BY LivesInUse, NoneIsNone
    <3> QED BY <1>2, <1>5, <2>1, <2>2, <3>1 DEF CommandOk, Lock, Holding, Building, Serving
  <2>7. ASSUME NEW p \in Plan PROVE WorkerOk(p)'
    <3>1. WorkerOk(p) /\ UNCHANGED <<worker, lifecycle, stopped>>
      BY DEF ServiceInv, WorkersOk, Lock
    <3>2. ASSUME worker[p].pc # "off", ~stopped PROVE Attended(worker[p].life)'
      <4>1. PICK l : l = worker[p].life
        OBVIOUS
      <4>2. Attended(worker[p].life)
        BY <3>1, <3>2 DEF WorkerOk
      <4>3. Attended(l)
        BY <4>1, <4>2 DEF Attended, InUse
      <4>4. Attended(l)'
        BY <2>4, <4>3
      <4> QED BY <3>1, <4>1, <4>4 DEF Attended, InUse
    <3> QED BY <3>1, <3>2 DEF WorkerOk, Attended, InUse
  <2>8. SlotOk'
    BY <1>5 DEF SlotOk
  <2>9. HeldOk'
    <3>1. \A x \in Context : Held(x)' => Held(x)
      BY <1>5, <2>1, <2>2, NoneIsNone DEF Held, CommandStep
    <3> QED BY <2>3, <3>1, HeldKept
  <2>10. ServiceTypeOK'
    BY <1>1, <1>5, <2>2 DEF ServiceInv, ServiceTypeOK, CommandStep, Lock
  <2> QED BY <1>1, <2>2, <2>5, <2>6, <2>7, <2>8, <2>9, <2>10 DEF ServiceInv, CommandsOk, WorkersOk
<1> QED BY <1>3, <1>4, <1>5 DEF Lock, Check

(* The workers of the provider that is taken out are told to stop; no start *)
(* is being published for it.                                               *)
LEMMA StopOldKeeps ==
  ASSUME IdentityInv, ServiceInv, NEW c \in Command, StopOld(c)
  PROVE  ServiceInv' /\ StoreKept
<1>1. /\ lifecycle' \in [Life -> Lifecycle] /\ (\A k \in Life : LifeKept(k))
      /\ store' \in Projection /\ RecordsOk' /\ StoreKept
  BY LifecycleSame DEF StopOld
<1>2. /\ CommandStep(c) /\ command'[c].pc = "drain" /\ command'[c].kind = command[c].kind
      /\ command'[c].ctx = command[c].ctx /\ command'[c].built = command[c].built
      /\ command'[c].life = command[c].life
  BY ToForm DEF StopOld, ServiceInv, Holding
<1>3. command[c].pc = "stop" /\ CommandOk(c)
  BY DEF StopOld, ServiceInv, CommandsOk
<1>4. \A x : Published(x)' <=> Published(x)
  BY IdentityFrame DEF StopOld
<1>5. UNCHANGED <<binding, slot, holder, lifecycle, stopped>>
  BY DEF StopOld, gatewayVars
<1>6. \A l : Attended(l) => Attended(l)'
  <2>1. \A d \in Command : command'[d].life = command[d].life
    BY <1>2 DEF CommandStep
  <2>2. \A d \in Command \ {c} : command'[d].pc = command[d].pc
    BY <1>2 DEF CommandStep
  <2> QED BY <1>2, <1>3, <1>5, <2>1, <2>2 DEF Attended, InUse
<1>7. \A l : InUse(l) /\ l # command[c].life => InUse(l)'
  BY <1>2, <1>5 DEF InUse, CommandStep
<1>8. CommandOk(c)'
  BY <1>2, <1>3, <1>5 DEF CommandOk, Holding, Building, Serving
<1>9. ASSUME NEW d \in Command \ {c} PROVE CommandOk(d)'
  <2>1. CommandOk(d) /\ command'[d] = command[d]
    BY <1>2 DEF ServiceInv, CommandsOk, CommandStep
  <2>2. ASSUME command[d].pc = "commit", command[d].kind = "start"
        PROVE  InUse(command[d].life)'
    <3>1. PICK l : l = command[d].life
      OBVIOUS
    <3>2. InUse(command[d].life)
      BY <2>1, <2>2 DEF CommandOk
    <3>3. InUse(l) /\ l # command[c].life
      BY <2>2, <3>1, <3>2 DEF InUse, StopOld, Starting
    <3>4. InUse(l)'
      BY <1>7, <3>3
    <3> QED BY <2>1, <3>1, <3>4 DEF InUse
  <2> QED BY <1>5, <2>1, <2>2 DEF CommandOk, Serves, InUse
<1>10. \A p \in Plan : /\ worker'[p].pc = worker[p].pc /\ worker'[p].life = worker[p].life
                       /\ worker'[p] \in Task
  <2>1. worker \in [Plan -> Task]
    BY DEF ServiceInv, ServiceTypeOK
  <2>2. worker' = [p \in Plan |-> IF worker[p].life = command[c].life
                                  THEN [worker[p] EXCEPT !.cancelled = TRUE] ELSE worker[p]]
    BY DEF StopOld, CancelWorkers
  <2> QED BY <2>1, <2>2 DEF Task
<1>11. ASSUME NEW p \in Plan PROVE WorkerOk(p)'
  <2>1. WorkerOk(p)
    BY DEF ServiceInv, WorkersOk
  <2>2. ASSUME worker[p].pc # "off", ~stopped PROVE Attended(worker[p].life)'
    <3>1. PICK l : l = worker[p].life
      OBVIOUS
    <3>2. Attended(worker[p].life)
      BY <2>1, <2>2 DEF WorkerOk
    <3>3. Attended(l)
      BY <3>1, <3>2 DEF Attended, InUse
    <3>4. Attended(l)'
      BY <1>6, <3>3
    <3>5. worker'[p].life = l
      BY <1>10, <3>1
    <3> QED BY <1>10, <3>1, <3>4 DEF Attended, InUse
  <2> QED BY <1>5, <1>10, <2>1, <2>2 DEF WorkerOk, Attended, InUse
<1>12. SlotOk'
  BY <1>5 DEF ServiceInv, SlotOk, Serves
<1>13. HeldOk'
  <2>1. \A x \in Context : Held(x)' => Held(x)
    BY <1>2, <1>5 DEF Held, CommandStep
  <2> QED BY <1>4, <2>1, HeldKept
<1>14. ServiceTypeOK'
  <2>1. worker' \in [Plan -> Task]
    BY <1>10 DEF StopOld, CancelWorkers
  <2> QED BY <1>1, <1>2, <1>5, <2>1 DEF ServiceInv, ServiceTypeOK, CommandStep
<1> QED BY <1>1, <1>8, <1>9, <1>11, <1>12, <1>13, <1>14 DEF ServiceInv, CommandsOk, WorkersOk

(* Once the last worker is gone the lifecycle is, unless a command that will*)
(* not pass its checks is still to use it.                                  *)
LEMMA DrainedKeeps ==
  ASSUME IdentityInv, ServiceInv, NEW c \in Command, Drained(c)
  PROVE  ServiceInv' /\ StoreKept
<1>1. command[c].pc = "drain" /\ CommandOk(c) /\ holder = c /\ slot = None
  <2>1. command[c].pc = "drain" /\ CommandOk(c)
    BY DEF Drained, ServiceInv, CommandsOk
  <2> QED BY <2>1, NoneIsNone DEF CommandOk, Holding, ServiceInv, SlotOk
<1>2. PICK l \in Life : l = command[c].life
  BY <1>1, LivesInUse DEF CommandOk
<1>3. \A d \in Command \ {c} : command[d].pc \notin Holding
  BY <1>1 DEF ServiceInv, CommandsOk, CommandOk
<1>4. \A p \in Plan : worker[p].pc = "off"
  <2>1. ASSUME NEW p \in Plan, worker[p].pc # "off" PROVE FALSE
    <3>1. PICK k : k = worker[p].life
      OBVIOUS
    <3>2. ~stopped /\ WorkerOk(p) /\ k # l
      BY <1>1, <1>2, <3>1 DEF CommandOk, ServiceInv, WorkersOk, Drained
    <3>3. Attended(worker[p].life)
      BY <2>1, <3>2 DEF WorkerOk
    <3>4. Attended(k)
      BY <3>1, <3>3 DEF Attended, InUse
    <3>5. PICK d \in Command : command[d].pc \in {"stop", "drain"} /\ command[d].life = k
      BY <1>1, <3>4 DEF Attended, InUse
    <3>6. d = c
      BY <1>3, <3>5 DEF Holding
    <3> QED BY <1>2, <3>2, <3>5, <3>6
  <2> QED BY <2>1
<1>5. PICK r \in Handler : /\ r.pc = "build" /\ r.life = None /\ r.kind = command[c].kind
                           /\ r.ctx = command[c].ctx /\ r.built = command[c].built
                           /\ command' = [command EXCEPT ![c] = r]
  <2> DEFINE r == [command[c] EXCEPT !.pc = "build", !.life = None]
  <2>1. /\ r \in Handler /\ r.pc = "build" /\ r.life = None /\ r.kind = command[c].kind
        /\ r.ctx = command[c].ctx /\ r.built = command[c].built
    BY LivesInUse DEF Handler, Holding
  <2>2. command' = [command EXCEPT ![c] = r]
    BY LivesInUse DEF Handler, Drained
  <2> HIDE DEF r
  <2> QED BY <2>1, <2>2
<1>6. CommandStep(c) /\ command'[c] = r
  BY <1>5, BecomesForm DEF ServiceInv
<1>7. UNCHANGED <<binding, store, slot, holder, worker, stopped>>
  BY DEF Drained, gatewayVars
<1>8. \A x : Published(x)' <=> Published(x)
  BY IdentityFrame DEF Drained
<1>9. NoLife \in Lifecycle /\ NoLife.ctx = None /\ \A p \in Plan : NoLife.last[p] = NoRecord
  BY DEF NoLife, Lifecycle, Empty, Projection, NoRecord, Rank
<1>10. /\ lifecycle' \in [Life -> Lifecycle]
       /\ \A k \in Life \ {l} : lifecycle'[k] = lifecycle[k]
       /\ lifecycle'[l] \in {lifecycle[l], NoLife}
       /\ \A d \in Command \ {c} : command[d].life = l => lifecycle'[l] = lifecycle[l]
  <2> DEFINE old == IF \E d \in Command \ {c} : command[d].life = l
                    THEN lifecycle[l] ELSE NoLife
  <2>1. lifecycle \in [Life -> Lifecycle]
    BY DEF ServiceInv, ServiceTypeOK
  <2>2. lifecycle' = [lifecycle EXCEPT ![l] = old]
    BY <1>2 DEF Drained
  <2>3. old \in Lifecycle /\ old \in {lifecycle[l], NoLife}
    BY <1>9, <2>1
  <2>4. \A d \in Command \ {c} : command[d].life = l => old = lifecycle[l]
    OBVIOUS
  <2> HIDE DEF old
  <2> QED BY <2>1, <2>2, <2>3, <2>4
<1>11. \A d \in Command \ {c} : command[d].life # None =>
          lifecycle'[command[d].life] = lifecycle[command[d].life]
  BY <1>10, LivesInUse
<1>12. CommandOk(c)'
  BY <1>1, <1>5, <1>6, <1>7 DEF CommandOk, Holding, Building, Serving
<1>13. ASSUME NEW d \in Command \ {c} PROVE CommandOk(d)'
  <2>1. CommandOk(d) /\ command'[d] = command[d] /\ command[d].pc \notin Holding
    BY <1>3, <1>6 DEF ServiceInv, CommandsOk, CommandStep
  <2>2. ~(command[d].pc = "commit" /\ command[d].kind = "start")
    <3>1. PICK k : k = command[d].life
      OBVIOUS
    <3>2. ~InUse(k)
      BY <1>1, <1>3 DEF InUse, Holding
    <3>3. ~InUse(command[d].life)
      BY <3>1, <3>2 DEF InUse
    <3> QED BY <2>1, <3>3 DEF CommandOk
  <2> QED BY <1>7, <1>11, <2>1, <2>2 DEF CommandOk, Serves, Serving, Building, Holding
<1>14. WorkersOk'
  BY <1>4, <1>7 DEF ServiceInv, WorkersOk, WorkerOk
<1>15. SlotOk'
  BY <1>1, <1>7 DEF SlotOk
<1>16. HeldOk'
  <2>1. \A x \in Context : Held(x)' => Held(x)
    BY <1>5, <1>6, <1>7 DEF Held, CommandStep
  <2> QED BY <1>8, <2>1, HeldKept
<1>17. RecordsOk'
  BY <1>7, <1>9, <1>10 DEF ServiceInv, RecordsOk, Own
<1>18. ServiceTypeOK'
  BY <1>6, <1>7, <1>10 DEF ServiceInv, ServiceTypeOK, CommandStep
<1>19. StoreKept
  BY <1>7, StoreSame DEF ServiceInv
<1> QED BY <1>12, <1>13, <1>14, <1>15, <1>16, <1>17, <1>18, <1>19 DEF ServiceInv, CommandsOk

(* The context that is in force is taken to build for.                      *)
LEMMA BuildContextKeeps ==
  ASSUME IdentityInv, ServiceInv, NEW c \in Command, BuildContext(c)
  PROVE  ServiceInv' /\ StoreKept
<1>1. command[c].pc = "build" /\ CommandOk(c) /\ command[c] \in Handler
  BY LivesInUse DEF BuildContext, ServiceInv, CommandsOk
<1>2. CASE binding.active = None
  BY <1>1, <1>2, RefuseKeeps DEF BuildContext
<1>3. CASE binding.active # None
  <2>1. binding.active \in Context
    BY <1>3, Shapes DEF IdentityInv, BindingRecord
  <2>2. PICK r \in Handler : /\ r.pc = "verify" /\ r.life = command[c].life
                             /\ r.kind = command[c].kind /\ r.ctx = command[c].ctx
                             /\ r.built = binding.active /\ command' = [command EXCEPT ![c] = r]
    <3> DEFINE r == [command[c] EXCEPT !.pc = "verify", !.built = binding.active]
    <3>1. /\ r \in Handler /\ r.pc = "verify" /\ r.life = command[c].life
          /\ r.kind = command[c].kind /\ r.ctx = command[c].ctx /\ r.built = binding.active
      BY <1>1, <2>1 DEF Handler, Holding
    <3>2. command' = [command EXCEPT ![c] = r]
      BY <1>1, <1>3 DEF BuildContext, Handler
    <3> HIDE DEF r
    <3> QED BY <3>1, <3>2
  <2>3. CommandStep(c) /\ command'[c] = r
    BY <2>2, BecomesForm DEF ServiceInv
  <2>4. UNCHANGED <<gatewayVars, left, store, slot, holder, lifecycle, worker, stopped>>
    BY <1>3 DEF BuildContext
  <2>5. OthersKeep(c)
    BY <2>3, <2>4 DEF OthersKeep
  <2>6. /\ lifecycle' \in [Life -> Lifecycle] /\ LivesKept(c)
        /\ store' \in Projection /\ RecordsOk' /\ StoreKept
    BY <2>4, LifecycleSame, LivesSame
  <2>7. CommandOk(c)'
    BY <1>1, <1>3, <2>2, <2>3, <2>4 DEF CommandOk, gatewayVars, Holding, Building, Serving
  <2>8. SlotOk'
    BY <2>4 DEF ServiceInv, SlotOk, Serves
  <2>9. \A x \in Context : Held(x)' => Held(x) \/ binding.active = x
    BY <2>2, <2>3, <2>4 DEF Held, CommandStep
  <2>10. slot' \in Slot \cup {None} /\ holder' \in Command \cup {None}
    BY <2>4 DEF ServiceInv, ServiceTypeOK
  <2> QED BY <1>1, <2>4, <2>5, <2>6, <2>7, <2>8, <2>9, <2>10, CommandKeeps
<1> QED BY <1>2, <1>3

(* There is a lifecycle that nobody uses: one for every command at most.    *)
LEMMA SomeUnused ==
  ASSUME ServiceInv, NEW c \in Command, command[c].pc \in {"build", "verify"} \cup Building
  PROVE  /\ Unused \in Life
         /\ \A d \in Command : command[d].life # Unused
<1>1. slot = None /\ \A p \in Plan : worker[p].life = None
  BY BuilderAlone
<1> DEFINE f == [d \in Command |-> command[d].life]
           T == {f[d] : d \in Command}
<1>2. IsFiniteSet(T) /\ Cardinality(T) <= Cardinality(Command)
  <2>1. f \in Surjection(Command, T)
    BY DEF Surjection
  <2> QED BY <2>1, ServiceBounds, FS_Surjection
<1>3. Cardinality(Command) \in Nat /\ Cardinality(T) \in Nat
  BY <1>2, ServiceBounds, FS_CardinalityType
<1>4. Cardinality(Life) = Cardinality(Command) + 1
  BY <1>3, FS_Interval DEF Life
<1>5. ~(Life \subseteq T)
  <2>1. Life \subseteq T => Cardinality(Life) <= Cardinality(T)
    BY <1>2, FS_Subset
  <2> QED BY <1>2, <1>3, <1>4, <2>1
<1>6. PICK l \in Life : l \notin T
  BY <1>5
<1>7. \A d \in Command : command[d].life # l
  BY <1>6
<1>8. \E k \in Life : /\ slot # None => slot.life # k
                      /\ \A d \in Command : command[d].life # k
                      /\ \A p \in Plan : worker[p].life # k
  BY <1>1, <1>6, <1>7, NoneIsNone
<1> QED BY <1>8 DEF Unused

(* The verified identity is of the context the build was begun for.         *)
LEMMA BuildEngineKeeps ==
  ASSUME IdentityInv, ServiceInv, NEW c \in Command, BuildEngine(c)
  PROVE  ServiceInv' /\ StoreKept
<1>1. /\ command[c].pc = "verify" /\ CommandOk(c) /\ command[c] \in Handler
      /\ UNCHANGED <<gatewayVars, left, store, slot, worker, stopped>>
  BY LivesInUse DEF BuildEngine, ServiceInv, CommandsOk
<1>2. CASE Refuse(c) /\ UNCHANGED lifecycle
  BY <1>1, <1>2, RefuseKeeps
<1>3. CASE /\ identity.verified # None /\ binding.active = command[c].built
           /\ identity.verified.gen = command[c].built.gen /\ UNCHANGED holder
           /\ command' = [command EXCEPT ![c] =
                [@ EXCEPT !.pc = "foreign", !.life = Unused, !.built = None]]
           /\ lifecycle' = [lifecycle EXCEPT ![Unused] =
                [NoLife EXCEPT !.ctx = command[c].built, !.user = identity.verified]]
  <2>1. PICK l \in Life : l = Unused
    BY <1>1, SomeUnused
  <2>2. \A d \in Command : command[d].life # l
    BY <1>1, <2>1, SomeUnused
  <2>3. PICK y \in Context : y = command[c].built
    BY <1>1 DEF CommandOk, Handler
  <2>4. identity.verified = y
    <3>1. PICK x \in Context : identity.verified = x
      BY <1>3, Shapes DEF IdentityInv, IdentityRecord
    <3>2. x.gen = Begun
      BY <1>3, <3>1 DEF IdentityInv, BeliefOk, IdentityOk
    <3>3. Published(x)
      BY <3>1 DEF IdentityInv, BeliefOk, ContextsOk, InForce
    <3> QED BY <1>3, <2>3, <3>1, <3>2, <3>3, NoneIsNone DEF Published
  <2>5. PICK r \in Handler : /\ r.pc = "foreign" /\ r.life = l /\ r.kind = command[c].kind
                             /\ r.ctx = command[c].ctx /\ r.built = None
                             /\ command' = [command EXCEPT ![c] = r]
    <3> DEFINE r == [command[c] EXCEPT !.pc = "foreign", !.life = l, !.built = None]
    <3>1. /\ r \in Handler /\ r.pc = "foreign" /\ r.life = l /\ r.kind = command[c].kind
          /\ r.ctx = command[c].ctx /\ r.built = None
      BY <1>1 DEF Handler, Holding, Building
    <3>2. command' = [command EXCEPT ![c] = r]
      BY <1>3, <2>1 DEF Handler
    <3> HIDE DEF r
    <3> QED BY <3>1, <3>2
  <2>6. CommandStep(c) /\ command'[c] = r
    BY <2>5, BecomesForm DEF ServiceInv
  <2>7. /\ lifecycle' \in [Life -> Lifecycle] /\ lifecycle'[l].ctx = y /\ lifecycle'[l].user = y
        /\ \A p \in Plan : lifecycle'[l].last[p] = NoRecord
        /\ \A k \in Life \ {l} : lifecycle'[k] = lifecycle[k]
    <3> DEFINE new == [NoLife EXCEPT !.ctx = y, !.user = y]
    <3>1. /\ new \in Lifecycle /\ new.ctx = y /\ new.user = y
          /\ \A p \in Plan : new.last[p] = NoRecord
      BY DEF NoLife, Lifecycle, Empty, Projection, NoRecord, Rank
    <3>2. lifecycle' = [lifecycle EXCEPT ![l] = new]
      BY <1>3, <2>1, <2>3, <2>4
    <3>3. lifecycle \in [Life -> Lifecycle]
      BY DEF ServiceInv, ServiceTypeOK
    <3> HIDE DEF new
    <3> QED BY <3>1, <3>2, <3>3
  <2>8. LivesKept(c)
    <3>1. slot = None /\ \A p \in Plan : worker[p].pc = "off"
      BY <1>1, BuilderAlone
    <3>2. \A d \in Command : command[d].life \in Life \cup {None}
      BY LivesInUse
    <3> QED BY <2>2, <2>7, <3>1, <3>2 DEF LivesKept, SameLife
  <2>9. OthersKeep(c)
    BY <1>1, <1>3, <2>6 DEF OthersKeep
  <2>10. CommandOk(c)'
    <3>1. binding' = binding /\ holder' = holder /\ stopped' = stopped /\ binding.active = y
      BY <1>1, <1>3, <2>3 DEF gatewayVars
    <3>2. Serves(l, y)' /\ lifecycle'[l].ctx # None /\ l # None
      BY <2>3, <2>7, NoneIsNone DEF Serves
    <3>3. /\ holder = c /\ ~stopped /\ command[c].ctx # None
      BY <1>1 DEF CommandOk, Holding
    <3>4. /\ command'[c].pc = "foreign" /\ command'[c].life = l
          /\ command'[c].ctx = command[c].ctx /\ command'[c].built = None
      BY <2>5, <2>6
    <3> QED BY <3>1, <3>2, <3>3, <3>4 DEF CommandOk, Serves, Holding, Building, Serving
  <2>11. RecordsOk' /\ StoreKept
    BY <1>1, <2>7, StoreSame DEF ServiceInv, RecordsOk, Own
  <2>12. SlotOk' /\ slot' \in Slot \cup {None} /\ holder' \in Command \cup {None}
    BY <1>1, <1>3, BuilderAlone DEF ServiceInv, ServiceTypeOK, SlotOk
  <2>13. \A x \in Context : Held(x)' => Held(x)
    BY <1>1, <2>5, <2>6, NoneIsNone DEF Held, CommandStep
  <2>14. store' \in Projection
    BY <1>1 DEF ServiceInv, ServiceTypeOK
  <2> QED BY <1>1, <2>7, <2>8, <2>9, <2>10, <2>11, <2>12, <2>13, <2>14, CommandKeeps
<1> QED BY <1>2, <1>3 DEF BuildEngine

(* A step of a build that goes on.                                          *)
LEMMA BuildStepKeeps ==
  ASSUME IdentityInv, ServiceInv, NEW c \in Command, command[c].pc \in Building,
         NEW pc \in Building, To(c, pc), UNCHANGED gatewayVars, left' = left \/ Upset,
         UNCHANGED <<slot, holder, worker, stopped>>,
         store' \in Projection, lifecycle' \in [Life -> Lifecycle],
         RecordsOk', \A k \in Life : SameLife(k)
  PROVE  ServiceInv'
<1>1. /\ CommandStep(c) /\ command'[c].pc = pc /\ command'[c].kind = command[c].kind
      /\ command'[c].ctx = command[c].ctx /\ command'[c].built = command[c].built
      /\ command'[c].life = command[c].life
  BY ToForm DEF ServiceInv, Holding
<1>2. CommandOk(c)
  BY DEF ServiceInv, CommandsOk
<1>3. PICK l \in Life : l = command[c].life
  BY <1>2, LivesInUse DEF CommandOk
<1>4. slot = None /\ \A p \in Plan : worker[p].pc = "off"
  BY BuilderAlone
<1>5. LivesKept(c)
  BY <1>4, LivesInUse DEF LivesKept
<1>6. OthersKeep(c)
  BY <1>1 DEF OthersKeep
<1>7. CommandOk(c)'
  <2>1. lifecycle'[l].ctx = lifecycle[l].ctx /\ lifecycle'[l].user = lifecycle[l].user
    BY DEF SameLife
  <2>2. binding' = binding
    BY DEF gatewayVars
  <2> QED BY <1>1, <1>2, <1>3, <2>1, <2>2 DEF CommandOk, Serves, Holding, Building, Serving
<1>8. SlotOk' /\ slot' \in Slot \cup {None} /\ holder' \in Command \cup {None}
  BY <1>4 DEF ServiceInv, ServiceTypeOK, SlotOk
<1>9. \A x \in Context : Held(x)' => Held(x)
  BY <1>1 DEF Held, CommandStep
<1> QED BY <1>4, <1>5, <1>6, <1>7, <1>8, <1>9, CommandKeeps DEF Building

(* The new scope's owner ends or blocks the jobs of other scopes; it loses  *)
(* none of them.                                                            *)
LEMMA BlockForeignKeeps ==
  ASSUME ServiceTypeOK, RecordsOk, NEW scope, scope # None, store' = BlockForeign(scope)
  PROVE  store' \in Projection /\ StoreKept /\ \A p \in Plan : Recorded(store'[p])
<1>1. ASSUME NEW p \in Plan
      PROVE  /\ store'[p] \in Record /\ Recorded(store'[p])
             /\ store'[p].scope = store[p].scope
             /\ Rank[store'[p].status] >= Rank[store[p].status]
  <2>1. PICK r \in Record : r = store[p]
    BY RankFacts DEF ServiceTypeOK
  <2>2. Recorded(r)
    BY <2>1 DEF RecordsOk
  <2>3. \/ store'[p] = r
        \/ r.scope # None /\ r.status = "Running" /\ store'[p] = [r EXCEPT !.status = "Ended"]
        \/ r.scope # None /\ r.status = "Queued" /\ store'[p] = [r EXCEPT !.status = "Blocked"]
    BY <2>1 DEF BlockForeign
  <2>4. \A s \in Status : Rank[s] \in Int
    BY RankFacts DEF Status
  <2>5. CASE store'[p] = r
    BY <2>1, <2>2, <2>4, <2>5 DEF Record
  <2>6. CASE r.scope # None /\ r.status = "Running" /\ store'[p] = [r EXCEPT !.status = "Ended"]
    BY <2>1, <2>6, RankFacts DEF Record, Recorded, Status
  <2>7. CASE r.scope # None /\ r.status = "Queued" /\ store'[p] = [r EXCEPT !.status = "Blocked"]
    BY <2>1, <2>7, RankFacts DEF Record, Recorded, Status
  <2> QED BY <2>3, <2>5, <2>6, <2>7
<1>2. store' \in Projection
  BY <1>1, RankFacts DEF BlockForeign
<1> QED BY <1>1, <1>2 DEF StoreKept

LEMMA BuildRepositoryKeeps ==
  ASSUME IdentityInv, ServiceInv, NEW c \in Command, BuildRepository(c)
  PROVE  ServiceInv' /\ StoreKept
<1>1. /\ command[c].pc = "foreign" /\ CommandOk(c)
      /\ UNCHANGED <<gatewayVars, left, slot, lifecycle, worker, stopped>>
  BY DEF BuildRepository, ServiceInv, CommandsOk
<1>2. CASE Refuse(c) /\ UNCHANGED store
  BY <1>1, <1>2, RefuseKeeps
<1>3. CASE /\ store' = BlockForeign(lifecycle[command[c].life].ctx.account)
           /\ To(c, "load") /\ UNCHANGED holder
  <2>1. PICK l \in Life : l = command[c].life
    BY <1>1, LivesInUse DEF CommandOk, Building
  <2>2. lifecycle[l].ctx \in Context
    BY <1>1, <2>1 DEF CommandOk, Building, ServiceInv, ServiceTypeOK, Lifecycle
  <2>3. lifecycle[l].ctx.account # None
    BY <2>2, NoneIsNone DEF Context
  <2>4. store' \in Projection /\ StoreKept /\ \A p \in Plan : Recorded(store'[p])
    BY <1>3, <2>1, <2>3, BlockForeignKeeps DEF ServiceInv
  <2>5. lifecycle' \in [Life -> Lifecycle] /\ (\A k \in Life : SameLife(k)) /\ RecordsOk'
    BY <1>1, <2>4 DEF ServiceInv, ServiceTypeOK, SameLife, RecordsOk
  <2>6. command[c].pc \in Building /\ "load" \in Building
    BY <1>1 DEF Building
  <2> QED BY <1>1, <1>3, <2>4, <2>5, <2>6, BuildStepKeeps
<1> QED BY <1>2, <1>3 DEF BuildRepository

(* The lifecycle learns what its own scope has.                             *)
LEMMA BuildLoadKeeps ==
  ASSUME IdentityInv, ServiceInv, NEW c \in Command, BuildLoad(c)
  PROVE  ServiceInv' /\ StoreKept
<1>1. /\ command[c].pc = "load" /\ CommandOk(c)
      /\ UNCHANGED <<gatewayVars, left, store, slot, worker, stopped>>
  BY DEF BuildLoad, ServiceInv, CommandsOk
<1>2. CASE Refuse(c) /\ UNCHANGED lifecycle
  BY <1>1, <1>2, RefuseKeeps
<1>3. CASE /\ lifecycle' = [lifecycle EXCEPT ![command[c].life].last =
                              Of(lifecycle[command[c].life].ctx.account)]
           /\ To(c, "seal") /\ UNCHANGED holder
  <2>1. PICK l \in Life : l = command[c].life
    BY <1>1, LivesInUse DEF CommandOk, Building
  <2>2. PICK ctx \in Context : ctx = lifecycle[l].ctx
    BY <1>1, <2>1 DEF CommandOk, Building, ServiceInv, ServiceTypeOK, Lifecycle
  <2>3. ctx.account # None /\ ctx # None
    BY NoneIsNone DEF Context
  <2>4. PICK own \in Projection : own = Of(ctx.account) /\ \A p \in Plan : Own(own[p], ctx)
    <3> DEFINE own == Of(ctx.account)
    <3>1. \A p \in Plan : own[p] = IF store[p].scope = ctx.account THEN store[p] ELSE NoRecord
      BY DEF Of
    <3>2. NoRecord \in Record /\ \A p \in Plan : store[p] \in Record /\ Recorded(store[p])
      BY RankFacts DEF ServiceInv, ServiceTypeOK, RecordsOk, NoRecord, Record, Status
    <3>3. \A p \in Plan : own[p] \in Record /\ Own(own[p], ctx)
      BY <2>3, <3>1, <3>2 DEF Own, Recorded
    <3>4. own \in Projection
      BY <3>3, RankFacts DEF Of
    <3> HIDE DEF own
    <3> QED BY <3>3, <3>4 DEF own
  <2>5. lifecycle \in [Life -> Lifecycle] /\ lifecycle' = [lifecycle EXCEPT ![l].last = own]
    BY <1>3, <2>1, <2>2, <2>4 DEF ServiceInv, ServiceTypeOK
  <2>6. /\ lifecycle' \in [Life -> Lifecycle] /\ lifecycle'[l].last = own
        /\ lifecycle'[l].ctx = ctx /\ lifecycle'[l].user = lifecycle[l].user
        /\ \A k \in Life \ {l} : lifecycle'[k] = lifecycle[k]
    BY <2>2, <2>5 DEF Lifecycle
  <2>7. \A k \in Life : SameLife(k)
    BY <2>2, <2>6 DEF SameLife
  <2>8. RecordsOk'
    BY <1>1, <2>4, <2>6 DEF ServiceInv, RecordsOk
  <2>9. store' \in Projection /\ StoreKept
    BY <1>1, StoreSame DEF ServiceInv, ServiceTypeOK
  <2>10. command[c].pc \in Building /\ "seal" \in Building
    BY <1>1 DEF Building
  <2> QED BY <1>1, <1>3, <2>6, <2>7, <2>8, <2>9, <2>10, BuildStepKeeps
<1> QED BY <1>2, <1>3 DEF BuildLoad

(* What a lifecycle publishes of the records it knows is its own.           *)
LEMMA RecoveredIsOwn ==
  ASSUME NEW last \in Projection, NEW ctx, \A p \in Plan : Own(last[p], ctx)
  PROVE  /\ Recovered(last) \in Projection
         /\ \A p \in Plan : /\ Own(Recovered(last)[p], ctx)
                            /\ last[p] = NoRecord => Recovered(last)[p] = NoRecord
<1>1. ASSUME NEW p \in Plan
      PROVE  /\ Recovered(last)[p] \in Record /\ Own(Recovered(last)[p], ctx)
             /\ last[p] = NoRecord => Recovered(last)[p] = NoRecord
  <2>1. PICK r \in Record : r = last[p]
    BY RankFacts
  <2>2. Recovered(last)[p] = IF r.status \in {"Queued", "Running", "Blocked"}
                             THEN [r EXCEPT !.status = "Ended"] ELSE r
    BY <2>1 DEF Recovered
  <2>3. Own(r, ctx)
    BY <2>1
  <2> QED BY <2>1, <2>2, <2>3 DEF Own, Record, NoRecord, Status
<1>2. Recovered(last) \in Projection
  BY <1>1, RankFacts DEF Recovered
<1> QED BY <1>1, <1>2

LEMMA BuildSealKeeps ==
  ASSUME IdentityInv, ServiceInv, NEW c \in Command, BuildSeal(c)
  PROVE  ServiceInv' /\ StoreKept
<1>1. /\ command[c].pc = "seal" /\ CommandOk(c)
      /\ UNCHANGED <<gatewayVars, slot, worker, stopped>>
  BY DEF BuildSeal, ServiceInv, CommandsOk
<1>2. PICK l \in Life : l = command[c].life
  BY <1>1, LivesInUse DEF CommandOk, Building
<1>3. lifecycle[l].ctx # None /\ lifecycle[l].last \in Projection
      /\ \A p \in Plan : Own(lifecycle[l].last[p], lifecycle[l].ctx)
  BY <1>1, <1>2 DEF CommandOk, Building, ServiceInv, ServiceTypeOK, Lifecycle, RecordsOk
<1>4. PICK new \in Projection :
        /\ new = Recovered(lifecycle[l].last)
        /\ \A p \in Plan : /\ Own(new[p], lifecycle[l].ctx)
                           /\ lifecycle[l].last[p] = NoRecord => new[p] = NoRecord
  BY <1>3, RecoveredIsOwn
<1>5. PICK ok \in BOOLEAN : /\ Publish(l, new, ok)
                            /\ IF ok THEN To(c, "recheck") /\ UNCHANGED holder ELSE Refuse(c)
  BY <1>2, <1>4 DEF BuildSeal
<1>6. /\ store' \in Projection /\ lifecycle' \in [Life -> Lifecycle]
      /\ RecordsOk' /\ StoreKept /\ (\A k \in Life : LifeKept(k)) /\ (left' = left \/ Upset)
  BY <1>3, <1>4, <1>5, PublishEffect DEF ServiceInv, IdentityInv
<1>7. CASE ok
  <2>1. command[c].pc \in Building /\ "recheck" \in Building /\ \A k \in Life : SameLife(k)
    BY <1>1, <1>6 DEF Building, LifeKept
  <2> QED BY <1>1, <1>5, <1>6, <1>7, <2>1, BuildStepKeeps
<1>8. CASE ~ok
  BY <1>1, <1>5, <1>6, <1>8, RefusalKeeps DEF Refuse
<1> QED BY <1>7, <1>8

(* The provider is installed for a command whose context is in force, and so*)
(* is the one the provider was built for.                                   *)
LEMMA RegisterKeeps ==
  ASSUME IdentityInv, ServiceInv, NEW c \in Command, Register(c)
  PROVE  ServiceInv' /\ StoreKept
<1>1. /\ command[c].pc = "recheck" /\ CommandOk(c) /\ command[c] \in Handler
      /\ UNCHANGED <<gatewayVars, left, store, lifecycle, worker, stopped>>
  BY LivesInUse DEF Register, ServiceInv, CommandsOk
<1>2. CASE Refuse(c) /\ UNCHANGED slot
  BY <1>1, <1>2, RefuseKeeps
<1>3. CASE /\ Check(command[c].ctx) /\ To(c, "use") /\ holder' = None
           /\ slot' = [ctx |-> command[c].ctx, life |-> command[c].life]
  <2>1. /\ CommandStep(c) /\ command'[c].pc = "use" /\ command'[c].kind = command[c].kind
        /\ command'[c].ctx = command[c].ctx /\ command'[c].built = command[c].built
        /\ command'[c].life = command[c].life
    BY <1>3, ToForm DEF ServiceInv, Serving
  <2>2. PICK l \in Life : l = command[c].life
    BY <1>1, LivesInUse DEF CommandOk, Building
  <2>3. PICK x \in Context : x = command[c].ctx
    BY <1>1 DEF CommandOk, Handler
  <2>4. holder = c /\ slot = None /\ ~stopped /\ binding.active = x /\ Serves(l, x)
    BY <1>1, <1>3, <2>2, <2>3, NoneIsNone
    DEF CommandOk, Check, Building, Holding, ServiceInv, SlotOk
  <2>5. slot' \in Slot /\ slot' # None /\ slot'.life = l /\ slot'.ctx = x
    BY <1>3, <2>2, <2>3, NoneIsNone DEF Slot
  <2>6. Serves(l, x)'
    BY <1>1, <2>4 DEF Serves
  <2>7. OthersKeep(c)
    BY <1>1, <1>3, <2>1, <2>4, NoneIsNone DEF OthersKeep
  <2>8. /\ lifecycle' \in [Life -> Lifecycle] /\ LivesKept(c)
        /\ store' \in Projection /\ RecordsOk' /\ StoreKept
    BY <1>1, LifecycleSame, LivesSame
  <2>9. CommandOk(c)'
    <3>1. command[c].built = None /\ l # None /\ x # None /\ holder' # c /\ ~stopped'
      BY <1>1, <1>3, <2>4, NoneIsNone DEF CommandOk
    <3> QED BY <2>1, <2>2, <2>3, <2>5, <2>6, <3>1 DEF CommandOk, Serves, Holding, Building, Serving
  <2>10. SlotOk'
    BY <1>3, <2>5, <2>6 DEF SlotOk, Serves
  <2>11. \A y \in Context : Held(y)' => Held(y)
    BY <2>1, <2>3, <2>5 DEF Held, CommandStep
  <2> QED BY <1>1, <1>3, <2>4, <2>5, <2>7, <2>8, <2>9, <2>10, <2>11, CommandKeeps
<1> QED BY <1>2, <1>3 DEF Register

(* A command that goes past its checks is served by the registered provider.*)
LEMMA UseKeeps ==
  ASSUME IdentityInv, ServiceInv, NEW c \in Command, Use(c)
  PROVE  ServiceInv' /\ StoreKept
<1>1. /\ command[c].pc = "use" /\ CommandOk(c) /\ command[c] \in Handler
      /\ UNCHANGED <<gatewayVars, left, store, slot, lifecycle, worker, stopped>>
  BY LivesInUse DEF Use, ServiceInv, CommandsOk
<1>2. CASE Refuse(c)
  BY <1>1, <1>2, RefuseKeeps
<1>3. CASE Check(command[c].ctx) /\ To(c, "commit") /\ UNCHANGED holder
  <2>1. /\ CommandStep(c) /\ command'[c].pc = "commit" /\ command'[c].kind = command[c].kind
        /\ command'[c].ctx = command[c].ctx /\ command'[c].built = command[c].built
        /\ command'[c].life = command[c].life
    BY <1>3, ToForm DEF ServiceInv, Serving
  <2>2. slot # None /\ slot.life = command[c].life
    BY <1>1, <1>3 DEF CommandOk, Check
  <2>3. OthersKeep(c)
    BY <1>1, <1>3, <2>1 DEF OthersKeep
  <2>4. /\ lifecycle' \in [Life -> Lifecycle] /\ LivesKept(c)
        /\ store' \in Projection /\ RecordsOk' /\ StoreKept
    BY <1>1, LifecycleSame, LivesSame
  <2>5. CommandOk(c)'
    BY <1>1, <1>3, <2>1, <2>2 DEF CommandOk, Serves, InUse, Holding, Building, Serving
  <2>6. SlotOk' /\ slot' \in Slot \cup {None} /\ holder' \in Command \cup {None}
    BY <1>1, <1>3 DEF ServiceInv, ServiceTypeOK, SlotOk, Serves
  <2>7. \A x \in Context : Held(x)' => Held(x)
    BY <1>1, <2>1 DEF Held, CommandStep
  <2> QED BY <1>1, <2>3, <2>4, <2>5, <2>6, <2>7, CommandKeeps
<1> QED BY <1>2, <1>3 DEF Use

(* A command publishes records of its scope: those it knows, one that nobody*)
(* has, or a planned one that is started.                                   *)
LEMMA CandidatesAreOwn ==
  ASSUME ServiceInv, NEW c \in Command, NEW l \in Life, l = command[c].life,
         lifecycle[l].ctx # None, NEW new \in Candidates(c)
  PROVE  /\ new \in Projection
         /\ \A p \in Plan : /\ Own(new[p], lifecycle[l].ctx)
                            /\ new[p] # NoRecord /\ lifecycle[l].last[p] = NoRecord =>
                                 store[p] = NoRecord
         /\ \A p \in Started(l, new) : command[c].kind = "start" /\ new[p] # NoRecord
<1>1. PICK last \in Projection : /\ last = lifecycle[l].last
                                 /\ \A p \in Plan : Own(last[p], lifecycle[l].ctx)
  BY DEF ServiceInv, ServiceTypeOK, Lifecycle, RecordsOk
<1>2. PICK ctx \in Context : ctx = lifecycle[l].ctx
  BY DEF ServiceInv, ServiceTypeOK, Lifecycle
<1>3. ctx.account \in Account /\ ctx # None
  BY NoneIsNone DEF Context
<1> DEFINE With(p, status) == [last EXCEPT ![p] = [scope |-> ctx.account, status |-> status]]
<1>4. ASSUME NEW p \in Plan, NEW status \in {"Planned", "Queued"}
      PROVE  /\ With(p, status) \in Projection
             /\ With(p, status)[p] = [scope |-> ctx.account, status |-> status]
             /\ \A q \in Plan \ {p} : With(p, status)[q] = last[q]
             /\ Own(With(p, status)[p], ctx)
  <2>1. [scope |-> ctx.account, status |-> status] \in Record
    BY <1>3 DEF Record, Status
  <2> QED BY <1>1, <1>3, <2>1, RankFacts DEF Own
<1>5. NoRecord.status = "Absent"
  BY DEF NoRecord
<1>6. CASE command[c].kind = "read"
  <2>1. new = last
    BY <1>1, <1>6 DEF Candidates
  <2> QED BY <1>1, <2>1 DEF Started
<1>7. CASE command[c].kind = "prepare"
  <2>1. PICK p \in Plan : store[p] = NoRecord /\ new = With(p, "Planned")
    BY <1>1, <1>2, <1>7 DEF Candidates
  <2>2. new[p].status = "Planned"
    BY <1>4, <2>1
  <2> HIDE DEF With
  <2>3. \A q \in Plan : Own(new[q], lifecycle[l].ctx)
    BY <1>1, <1>2, <1>4, <2>1
  <2>4. Started(l, new) = {}
    BY <1>1, <1>4, <2>1, <2>2 DEF Started
  <2> QED BY <1>1, <1>4, <2>1, <2>3, <2>4
<1>8. CASE command[c].kind = "start"
  <2>1. PICK p \in Plan : last[p].status = "Planned" /\ new = With(p, "Queued")
    BY <1>1, <1>2, <1>8 DEF Candidates
  <2> HIDE DEF With
  <2>2. \A q \in Plan : Own(new[q], lifecycle[l].ctx)
    BY <1>1, <1>2, <1>4, <2>1
  <2>3. last[p] # NoRecord
    BY <1>5, <2>1
  <2>4. \A q \in Plan : new[q].status = "Queued" => new[q] # NoRecord
    BY <1>5
  <2> QED BY <1>1, <1>4, <1>8, <2>1, <2>2, <2>3, <2>4 DEF Started
<1> QED BY <1>6, <1>7, <1>8, LivesInUse DEF Handler

LEMMA CommitChangeKeeps ==
  ASSUME IdentityInv, ServiceInv, NEW c \in Command, CommitChange(c)
  PROVE  ServiceInv' /\ StoreKept
<1>1. /\ command[c].pc = "commit" /\ CommandOk(c) /\ command[c] \in Handler
      /\ UNCHANGED <<gatewayVars, slot, stopped>>
  BY LivesInUse DEF CommitChange, ServiceInv, CommandsOk
<1>2. CASE Refuse(c) /\ UNCHANGED <<store, lifecycle, worker, left>>
  BY <1>1, <1>2, RefuseKeeps
<1>3. ASSUME NEW new \in Candidates(c), NEW ok \in BOOLEAN,
             Publish(command[c].life, new, ok),
             worker' = [p \in Plan |->
               IF ok /\ p \in Started(command[c].life, new)
               THEN [pc |-> "claim", life |-> command[c].life, cancelled |-> FALSE]
               ELSE worker[p]],
             IF ok THEN To(c, "answer") /\ UNCHANGED holder ELSE Refuse(c)
      PROVE  ServiceInv' /\ StoreKept
  <2>1. PICK l \in Life : l = command[c].life
    BY <1>1, LivesInUse DEF CommandOk, Serving
  <2>2. Serves(l, command[c].ctx) /\ lifecycle[l].ctx # None /\ command[c].ctx # None
    BY <1>1, <2>1 DEF CommandOk, Serves, Serving
  <2>3. /\ new \in Projection
        /\ \A p \in Plan : /\ Own(new[p], lifecycle[l].ctx)
                           /\ new[p] # NoRecord /\ lifecycle[l].last[p] = NoRecord =>
                                store[p] = NoRecord
        /\ \A p \in Started(l, new) : command[c].kind = "start" /\ new[p] # NoRecord
    BY <1>3, <2>1, <2>2, CandidatesAreOwn
  <2>4. /\ store' \in Projection /\ lifecycle' \in [Life -> Lifecycle]
        /\ RecordsOk' /\ StoreKept /\ (\A k \in Life : LifeKept(k)) /\ (left' = left \/ Upset)
        /\ ok => lifecycle'[l].last = new
    BY <1>3, <2>1, <2>2, <2>3, PublishEffect DEF ServiceInv, IdentityInv
  <2>5. CASE ~ok
    <3>1. worker' = worker
      BY <1>3, <2>5 DEF ServiceInv, ServiceTypeOK
    <3> QED BY <1>1, <1>3, <2>4, <2>5, <3>1, RefusalKeeps DEF Refuse
  <2>6. CASE ok
    <3>1. /\ CommandStep(c) /\ command'[c].pc = "answer" /\ command'[c].kind = command[c].kind
          /\ command'[c].ctx = command[c].ctx /\ command'[c].built = command[c].built
          /\ command'[c].life = command[c].life /\ holder' = holder
      BY <1>3, <2>6, ToForm DEF ServiceInv, Serving
    <3>2. OthersKeep(c) /\ LivesKept(c)
      BY <1>1, <2>4, <3>1, LivesSame DEF OthersKeep
    <3>3. PICK t \in Task : t.pc = "claim" /\ t.life = l /\ t = [pc |-> "claim", life |-> l, cancelled |-> FALSE]
      BY DEF Task
    <3>4. \A p \in Plan : worker'[p] = IF p \in Started(l, new) THEN t ELSE worker[p]
      BY <1>3, <2>1, <2>6, <3>3
    <3>5. worker' \in [Plan -> Task]
      <4>1. \A p \in Plan : worker'[p] \in Task
        BY <3>4 DEF ServiceInv, ServiceTypeOK
      <4> QED BY <1>3, <4>1
    <3>6. lifecycle'[l].ctx # None /\ Serves(l, command[c].ctx)'
      BY <1>1, <2>2, <2>4, <3>1 DEF LifeKept, SameLife, Serves
    <3>7. InUse(l) => Attended(l)'
      BY <1>1, <3>1 DEF InUse, Attended, CommandStep
    <3>8. command[c].kind = "start" => InUse(l)
      BY <1>1, <2>1 DEF CommandOk, InUse
    <3>9. ASSUME NEW p \in Started(l, new) PROVE WorkerOk(p)'
      <4>1. p \in Plan /\ worker'[p] = t /\ new[p] # NoRecord /\ Attended(l)'
        BY <2>3, <3>4, <3>7, <3>8 DEF Started
      <4> QED BY <2>4, <2>6, <3>3, <3>6, <4>1, NoneIsNone DEF WorkerOk, Attended, InUse
    <3>10. \A p \in Plan : worker'[p] = worker[p] \/ WorkerOk(p)'
      BY <3>4, <3>9
    <3>11. CommandOk(c)'
      BY <1>1, <2>1, <3>1, <3>6 DEF CommandOk, Serves, Holding, Building, Serving
    <3>12. SlotOk' /\ slot' \in Slot \cup {None} /\ holder' \in Command \cup {None}
      <4>1. slot # None => SameLife(slot.life)
        BY <2>4, LivesInUse DEF LifeKept
      <4> QED BY <1>1, <3>1, <4>1 DEF ServiceInv, ServiceTypeOK, SlotOk, Serves, SameLife
    <3>13. \A x \in Context : Held(x)' => Held(x)
      BY <1>1, <3>1 DEF Held, CommandStep
    <3> QED BY <1>1, <2>4, <3>2, <3>5, <3>10, <3>11, <3>12, <3>13, CommandActs
  <2> QED BY <2>5, <2>6
<1> QED BY <1>2, <1>3 DEF CommitChange

LEMMA AnswerCommandKeeps ==
  ASSUME IdentityInv, ServiceInv, NEW c \in Command, AnswerCommand(c)
  PROVE  ServiceInv' /\ StoreKept
<1>1. /\ command[c].pc = "answer" /\ CommandOk(c)
      /\ command' = [command EXCEPT ![c] = Idle]
      /\ UNCHANGED <<gatewayVars, left, store, slot, holder, lifecycle, worker, stopped>>
  BY DEF AnswerCommand, ServiceInv, CommandsOk
<1>2. holder # c
  BY <1>1 DEF CommandOk, Holding, Building
<1> QED BY <1>1, <1>2, RefuseKeeps DEF Refuse

-----------------------------------------------------------------------------
(* The workers, and the end of the service.                                 *)

(* A worker goes on for its lifecycle, or ends.                             *)
LEMMA WorkerStepKeeps ==
  ASSUME IdentityInv, ServiceInv, NEW p \in Plan, NEW t \in Task,
         worker' = [worker EXCEPT ![p] = t],
         IF t.pc = "off" THEN t.life = None
         ELSE worker[p].pc # "off" /\ t.life = worker[p].life,
         UNCHANGED gatewayVars, left' = left \/ Upset,
         UNCHANGED <<slot, holder, command, stopped>>,
         store' \in Projection, lifecycle' \in [Life -> Lifecycle],
         RecordsOk', \A k \in Life : LifeKept(k)
  PROVE  ServiceInv'
<1>1. \A x : Published(x)' <=> Published(x)
  BY IdentityFrame
<1>2. worker' \in [Plan -> Task] /\ \A q \in Plan : worker'[q] = IF q = p THEN t ELSE worker[q]
  BY DEF ServiceInv, ServiceTypeOK
<1>3. binding' = binding
  BY DEF gatewayVars
<1>4. ASSUME NEW q \in Plan PROVE WorkerOk(q)'
  <2>1. WorkerOk(q)
    BY DEF ServiceInv, WorkersOk
  <2>2. \/ worker'[q].pc = "off" /\ worker'[q].life = None
        \/ worker'[q].pc # "off" /\ worker[q].pc # "off" /\ worker'[q].life = worker[q].life
    BY <1>2, <2>1 DEF WorkerOk
  <2>3. CASE worker'[q].pc = "off" /\ worker'[q].life = None
    BY <2>3 DEF WorkerOk
  <2>4. CASE worker'[q].pc # "off" /\ worker[q].pc # "off" /\ worker'[q].life = worker[q].life
    <3>1. PICK k \in Life : k = worker[q].life
      BY <2>4, LivesInUse
    <3>2. lifecycle'[k].ctx # None /\ lifecycle'[k].last[q] # NoRecord
      BY <2>1, <2>4, <3>1 DEF WorkerOk, LifeKept, SameLife
    <3>3. stopped \/ Attended(k)
      BY <2>1, <2>4, <3>1 DEF WorkerOk, Attended, InUse
    <3>4. stopped' \/ Attended(k)'
      BY <3>3 DEF Attended, InUse
    <3> QED BY <2>4, <3>1, <3>2, <3>4, NoneIsNone DEF WorkerOk, Attended, InUse
  <2> QED BY <2>2, <2>3, <2>4
<1>5. ASSUME NEW c \in Command PROVE CommandOk(c)'
  <2>1. CommandOk(c)
    BY DEF ServiceInv, CommandsOk
  <2>2. command[c].life # None => SameLife(command[c].life)
    BY LivesInUse DEF LifeKept
  <2> QED BY <1>3, <2>1, <2>2 DEF CommandOk, SameLife, Serves, InUse, Building, Serving
<1>6. SlotOk'
  <2>1. slot # None => SameLife(slot.life)
    BY LivesInUse DEF LifeKept
  <2> QED BY <2>1 DEF ServiceInv, SlotOk, SameLife, Serves
<1>7. HeldOk'
  <2>1. \A x \in Context : Held(x)' => Held(x)
    BY DEF Held
  <2> QED BY <1>1, <2>1, HeldKept
<1>8. ServiceTypeOK'
  BY <1>2 DEF ServiceInv, ServiceTypeOK
<1> QED BY <1>4, <1>5, <1>6, <1>7, <1>8 DEF ServiceInv, CommandsOk, WorkersOk

(* A worker publishes its own job, with a status that is a record's.        *)
LEMMA WorkerPublishes ==
  ASSUME IdentityInv, ServiceInv, NEW p \in Plan, NEW l \in Life, l = worker[p].life,
         worker[p].pc # "off", NEW status \in Status \ {"Absent"}, NEW ok \in BOOLEAN,
         Publish(l, [lifecycle[l].last EXCEPT ![p].status = status], ok)
  PROVE  /\ store' \in Projection /\ lifecycle' \in [Life -> Lifecycle]
         /\ RecordsOk' /\ StoreKept /\ (\A k \in Life : LifeKept(k))
         /\ left' = left \/ Upset
<1>1. lifecycle[l].ctx # None /\ lifecycle[l].last[p] # NoRecord
  BY DEF ServiceInv, WorkersOk, WorkerOk
<1>2. PICK last \in Projection : /\ last = lifecycle[l].last
                                 /\ \A q \in Plan : Own(last[q], lifecycle[l].ctx)
  BY DEF ServiceInv, ServiceTypeOK, Lifecycle, RecordsOk
<1>3. PICK r \in Record : r = last[p]
  BY <1>2, RankFacts
<1>4. PICK new : new = [last EXCEPT ![p].status = status]
  OBVIOUS
<1>5. new = [last EXCEPT ![p] = [r EXCEPT !.status = status]]
  BY <1>3, <1>4
<1>6. [r EXCEPT !.status = status] \in Record
  BY <1>3 DEF Record
<1>7. new \in Projection /\ \A q \in Plan \ {p} : new[q] = last[q]
  BY <1>5, <1>6, RankFacts
<1>8. new[p] = [r EXCEPT !.status = status]
  BY <1>5, RankFacts
<1>9. new[p].scope = r.scope /\ new[p].status = status
  BY <1>8 DEF Record
<1>10. \A q \in Plan : Own(new[q], lifecycle[l].ctx)
  BY <1>1, <1>2, <1>3, <1>7, <1>9 DEF Own
<1>11. \A q \in Plan : new[q] # NoRecord => last[q] # NoRecord
  BY <1>1, <1>2, <1>7
<1>12. Publish(l, new, ok)
  BY <1>2, <1>4
<1>13. \A q \in Plan : ~(new[q] # NoRecord /\ lifecycle[l].last[q] = NoRecord)
  BY <1>2, <1>11
<1>14. ServiceTypeOK /\ RecordsOk /\ TypeOK
  BY DEF ServiceInv, IdentityInv
<1> QED BY <1>1, <1>7, <1>10, <1>12, <1>13, <1>14, PublishEffect

LEMMA WorkerClaimKeeps ==
  ASSUME IdentityInv, ServiceInv, NEW p \in Plan, WorkerClaim(p)
  PROVE  ServiceInv' /\ StoreKept
<1>1. /\ worker[p].pc = "claim" /\ worker[p] \in Task
      /\ UNCHANGED <<gatewayVars, slot, holder, command, stopped>>
  BY DEF WorkerClaim, ServiceInv, ServiceTypeOK
<1>2. PICK l \in Life : l = worker[p].life
  BY <1>1, LivesInUse
<1>3. PICK on \in Task : on.pc = "finish" /\ on.life = l /\ on = [worker[p] EXCEPT !.pc = "finish"]
  <2> DEFINE on == [worker[p] EXCEPT !.pc = "finish"]
  <2>1. on \in Task /\ on.pc = "finish" /\ on.life = l
    BY <1>1, <1>2 DEF Task
  <2> HIDE DEF on
  <2> QED BY <2>1 DEF on
<1>4. NoWorker \in Task /\ NoWorker.pc = "off" /\ NoWorker.life = None
  BY DEF NoWorker, Task
<1>5. CASE worker' = [worker EXCEPT ![p].pc = "finish"] /\ UNCHANGED <<store, lifecycle, left>>
  <2>1. /\ lifecycle' \in [Life -> Lifecycle] /\ (\A k \in Life : LifeKept(k))
        /\ store' \in Projection /\ RecordsOk' /\ StoreKept
    BY <1>5, LifecycleSame
  <2>2. worker' = [worker EXCEPT ![p] = on]
    BY <1>3, <1>5
  <2> QED BY <1>1, <1>2, <1>3, <1>5, <2>1, <2>2, WorkerStepKeeps
<1>6. ASSUME NEW ok \in BOOLEAN,
             Publish(worker[p].life,
                     [lifecycle[worker[p].life].last EXCEPT ![p].status = "Running"], ok),
             worker' = [worker EXCEPT ![p] = IF ok THEN [@ EXCEPT !.pc = "finish"] ELSE NoWorker]
      PROVE  ServiceInv' /\ StoreKept
  <2>1. /\ store' \in Projection /\ lifecycle' \in [Life -> Lifecycle]
        /\ RecordsOk' /\ StoreKept /\ (\A k \in Life : LifeKept(k))
        /\ left' = left \/ Upset
    BY <1>1, <1>2, <1>6, WorkerPublishes DEF Status
  <2>2. worker' = [worker EXCEPT ![p] = IF ok THEN on ELSE NoWorker]
    BY <1>3, <1>6
  <2>3. CASE ok
    <3>1. worker' = [worker EXCEPT ![p] = on]
      BY <2>2, <2>3
    <3> QED BY <1>1, <1>2, <1>3, <2>1, <3>1, WorkerStepKeeps
  <2>4. CASE ~ok
    <3>1. worker' = [worker EXCEPT ![p] = NoWorker]
      BY <2>2, <2>4
    <3> QED BY <1>1, <1>4, <2>1, <3>1, WorkerStepKeeps
  <2> QED BY <2>3, <2>4
<1> QED BY <1>5, <1>6 DEF WorkerClaim

LEMMA WorkerFinishKeeps ==
  ASSUME IdentityInv, ServiceInv, NEW p \in Plan, WorkerFinish(p)
  PROVE  ServiceInv' /\ StoreKept
<1>1. /\ worker[p].pc = "finish" /\ worker' = [worker EXCEPT ![p] = NoWorker]
      /\ UNCHANGED <<gatewayVars, slot, holder, command, stopped>>
  BY DEF WorkerFinish
<1>2. PICK l \in Life : l = worker[p].life
  BY <1>1, LivesInUse
<1>3. NoWorker \in Task /\ NoWorker.pc = "off" /\ NoWorker.life = None
  BY DEF NoWorker, Task
<1>4. PICK ok \in BOOLEAN : Publish(l, [lifecycle[l].last EXCEPT ![p].status = "Ended"], ok)
  BY <1>2 DEF WorkerFinish
<1>5. /\ store' \in Projection /\ lifecycle' \in [Life -> Lifecycle]
      /\ RecordsOk' /\ StoreKept /\ (\A k \in Life : LifeKept(k))
      /\ left' = left \/ Upset
  BY <1>1, <1>2, <1>4, WorkerPublishes DEF Status
<1> QED BY <1>1, <1>3, <1>5, WorkerStepKeeps

(* A service that begins knows of nothing but the store.                    *)
LEMMA ServiceBegins ==
  ASSUME store \in Projection, \A p \in Plan : Recorded(store[p]),
         slot = None, holder = None, lifecycle = [l \in Life |-> NoLife],
         command = [c \in Command |-> Idle], worker = [p \in Plan |-> NoWorker],
         stopped = FALSE
  PROVE  ServiceInv
<1>1. /\ NoLife \in Lifecycle /\ NoLife.ctx = None /\ \A p \in Plan : NoLife.last[p] = NoRecord
  BY DEF NoLife, Lifecycle, Empty, Projection, NoRecord, Rank
<1>2. /\ Idle \in Handler /\ Idle.pc = "idle" /\ Idle.ctx = None /\ Idle.built = None
      /\ Idle.life = None
  BY DEF Idle, Handler
<1>3. NoWorker \in Task /\ NoWorker.pc = "off" /\ NoWorker.life = None
  BY DEF NoWorker, Task
<1>4. ServiceTypeOK
  BY <1>1, <1>2, <1>3 DEF ServiceTypeOK
<1>5. RecordsOk
  BY <1>1 DEF RecordsOk, Own
<1>6. \A c \in Command : CommandOk(c)
  BY <1>2, NoneIsNone DEF CommandOk, Holding, Building, Serving
<1>7. SlotOk /\ WorkersOk
  BY <1>3 DEF SlotOk, WorkersOk, WorkerOk
<1>8. HeldOk
  BY <1>2, NoneIsNone DEF HeldOk, Held
<1> QED BY <1>4, <1>5, <1>6, <1>7, <1>8 DEF ServiceInv, CommandsOk

LEMMA RestartedKeeps ==
  ASSUME IdentityInv, ServiceInv, Restarted
  PROVE  ServiceInv' /\ StoreKept
<1>1. /\ store' = store /\ slot' = None /\ holder' = None
      /\ lifecycle' = [l \in Life |-> NoLife] /\ command' = [c \in Command |-> Idle]
      /\ worker' = [p \in Plan |-> NoWorker] /\ stopped' = FALSE
  BY DEF Restarted
<1>2. StoreKept
  BY <1>1, StoreSame DEF ServiceInv
<1>3. store' \in Projection /\ \A p \in Plan : Recorded(store'[p])
  BY <1>1 DEF ServiceInv, ServiceTypeOK, RecordsOk
<1>4. /\ NoLife \in Lifecycle /\ NoLife.ctx = None /\ \A p \in Plan : NoLife.last[p] = NoRecord
  BY DEF NoLife, Lifecycle, Empty, Projection, NoRecord, Rank
<1>5. /\ Idle \in Handler /\ Idle.pc = "idle" /\ Idle.ctx = None /\ Idle.built = None
      /\ Idle.life = None
  BY DEF Idle, Handler
<1>6. NoWorker \in Task /\ NoWorker.pc = "off" /\ NoWorker.life = None
  BY DEF NoWorker, Task
<1>7. ServiceTypeOK'
  BY <1>1, <1>3, <1>4, <1>5, <1>6 DEF ServiceTypeOK
<1>8. RecordsOk'
  BY <1>1, <1>3, <1>4 DEF RecordsOk, Own
<1>9. \A c \in Command : CommandOk(c)'
  BY <1>1, <1>5, NoneIsNone DEF CommandOk, Holding, Building, Serving
<1>10. SlotOk' /\ WorkersOk'
  BY <1>1, <1>6 DEF SlotOk, WorkersOk, WorkerOk
<1>11. HeldOk'
  BY <1>1, <1>5, NoneIsNone DEF HeldOk, Held
<1> QED BY <1>2, <1>7, <1>8, <1>9, <1>10, <1>11 DEF ServiceInv, CommandsOk

(* A shutdown waits for the commands; it leaves the workers to end.         *)
LEMMA ShutdownKeeps ==
  ASSUME IdentityInv, ServiceInv, Shutdown
  PROVE  ServiceInv' /\ StoreKept
<1>1. /\ \A c \in Command : command[c].pc = "idle"
      /\ stopped' = TRUE /\ slot' = None
      /\ UNCHANGED <<gatewayVars, left, store, holder, lifecycle, command>>
  BY DEF Shutdown, Leased
<1>2. \A x : Published(x)' <=> Published(x)
  BY <1>1, IdentityFrame
<1>3. StoreKept
  BY <1>1, StoreSame DEF ServiceInv
<1>4. \A p \in Plan : /\ worker'[p].pc = worker[p].pc /\ worker'[p].life = worker[p].life
                      /\ worker'[p] \in Task
  <2>1. worker \in [Plan -> Task]
    BY DEF ServiceInv, ServiceTypeOK
  <2>2. CASE worker' = worker
    BY <2>1, <2>2
  <2>3. CASE worker' = CancelWorkers(slot.life)
    <3>1. \A p \in Plan : worker'[p] = IF worker[p].life = slot.life
                                       THEN [worker[p] EXCEPT !.cancelled = TRUE] ELSE worker[p]
      BY <2>3 DEF CancelWorkers
    <3> QED BY <2>1, <3>1 DEF Task
  <2> QED BY <2>2, <2>3 DEF Shutdown
<1>5. worker' \in [Plan -> Task]
  <2>1. worker' = [p \in Plan |-> worker'[p]]
    BY DEF Shutdown, CancelWorkers, ServiceInv, ServiceTypeOK
  <2> QED BY <1>4, <2>1
<1>6. ServiceTypeOK'
  BY <1>1, <1>5 DEF ServiceInv, ServiceTypeOK
<1>7. RecordsOk' /\ SlotOk'
  BY <1>1 DEF ServiceInv, RecordsOk, SlotOk
<1>8. ASSUME NEW c \in Command PROVE CommandOk(c)'
  <2>1. CommandOk(c)
    BY DEF ServiceInv, CommandsOk
  <2> QED BY <1>1, <2>1 DEF CommandOk, Holding, Building, Serving
<1>9. \A p \in Plan : WorkerOk(p)'
  <2>1. \A p \in Plan : WorkerOk(p)
    BY DEF ServiceInv, WorkersOk
  <2> QED BY <1>1, <1>4, <2>1 DEF WorkerOk
<1>10. HeldOk'
  <2>1. \A x \in Context : Held(x)' => Held(x)
    BY <1>1 DEF Held
  <2> QED BY <1>2, <2>1, HeldKept
<1> QED BY <1>3, <1>6, <1>7, <1>8, <1>9, <1>10 DEF ServiceInv, CommandsOk, WorkersOk

(* Whatever the gateway does, a context that a command or the provider holds*)
(* comes into force no more once it is not.                                 *)
LEMMA GatewayKeeps ==
  ASSUME ServiceInv, Carried, UNCHANGED serviceVars
  PROVE  ServiceInv' /\ StoreKept
<1>1. UNCHANGED <<store, slot, holder, lifecycle, command, worker, stopped>>
  BY DEF serviceVars
<1>2. StoreKept
  BY <1>1, StoreSame DEF ServiceInv
<1>3. ServiceTypeOK' /\ RecordsOk' /\ SlotOk'
  BY <1>1 DEF ServiceInv, ServiceTypeOK, RecordsOk, SlotOk, Serves
<1>4. ASSUME NEW c \in Command PROVE CommandOk(c)'
  <2>1. CommandOk(c)
    BY DEF ServiceInv, CommandsOk
  <2>2. binding'.active = command[c].ctx /\ command[c].ctx # None =>
          binding.active = command[c].ctx
    <3>1. command[c].ctx # None => command[c].ctx \in Context /\ Published(command[c].ctx)
      BY LivesInUse DEF Handler, ServiceInv, HeldOk, Held
    <3> QED BY <3>1 DEF Carried
  <2> QED BY <1>1, <2>1, <2>2 DEF CommandOk, Serves, InUse, Building
<1>5. \A p \in Plan : WorkerOk(p)'
  BY <1>1 DEF ServiceInv, WorkersOk, WorkerOk, Attended, InUse
<1>6. HeldOk'
  BY <1>1 DEF ServiceInv, HeldOk, Held, Carried
<1> QED BY <1>2, <1>3, <1>4, <1>5, <1>6 DEF ServiceInv, CommandsOk, WorkersOk

-----------------------------------------------------------------------------
(* The theorems.                                                            *)

LEMMA Starts == Init => IInv
<1> SUFFICES ASSUME Init PROVE IInv
  OBVIOUS
<1>1. IdentityInv
  BY IdentityStarts DEF Init
<1>2. store \in Projection /\ \A p \in Plan : Recorded(store[p])
  BY DEF Init, Empty, Projection, NoRecord, Rank, Recorded
<1> QED BY <1>1, <1>2, ServiceBegins DEF Init, IInv

(* The steps of a command, a worker, or the whole service.                  *)
LEMMA ServiceStep ==
  ASSUME IInv,
         \/ \E c \in Command, kind \in {"read", "prepare", "start"} : Issue(c, kind)
         \/ \E c \in Command :
              \/ Lock(c) \/ StopOld(c) \/ Drained(c)
              \/ BuildContext(c) \/ BuildEngine(c) \/ BuildRepository(c)
              \/ BuildLoad(c) \/ BuildSeal(c) \/ Register(c)
              \/ Use(c) \/ CommitChange(c) \/ AnswerCommand(c)
         \/ \E p \in Plan : WorkerClaim(p) \/ WorkerFinish(p)
         \/ Shutdown
  PROVE  IInv' /\ StoreKept
<1>1. ServiceInv' /\ StoreKept
  BY IssueKeeps, LockKeeps, StopOldKeeps, DrainedKeeps, BuildContextKeeps, BuildEngineKeeps,
     BuildRepositoryKeeps, BuildLoadKeeps, BuildSealKeeps, RegisterKeeps, UseKeeps,
     CommitChangeKeeps, AnswerCommandKeeps, WorkerClaimKeeps, WorkerFinishKeeps, ShutdownKeeps
  DEF IInv
<1>2. UNCHANGED gatewayVars
  BY DEF Issue, Lock, StopOld, Drained, BuildContext, BuildEngine, BuildRepository, BuildLoad,
         BuildSeal, Register, Use, CommitChange, AnswerCommand, WorkerClaim, WorkerFinish, Shutdown
<1>3. left' = left \/ Upset
  <2>1. \A l, new, ok : Publish(l, new, ok) => (left' = left \/ Upset)
    BY DEF Publish
  <2>2. ASSUME NEW c \in Command, BuildSeal(c) \/ CommitChange(c) PROVE left' = left \/ Upset
    BY <2>1, <2>2 DEF BuildSeal, CommitChange
  <2>3. ASSUME NEW p \in Plan, WorkerClaim(p) \/ WorkerFinish(p) PROVE left' = left \/ Upset
    BY <2>1, <2>3 DEF WorkerClaim, WorkerFinish
  <2>4. ASSUME NEW c \in Command,
               \/ Lock(c) \/ StopOld(c) \/ Drained(c) \/ BuildContext(c) \/ BuildEngine(c)
               \/ BuildRepository(c) \/ BuildLoad(c) \/ Register(c) \/ Use(c) \/ AnswerCommand(c)
        PROVE  left' = left
    BY <2>4 DEF Lock, StopOld, Drained, BuildContext, BuildEngine, BuildRepository, BuildLoad,
                Register, Use, AnswerCommand
  <2> QED BY <2>2, <2>3, <2>4 DEF Issue, Shutdown
<1> QED BY <1>1, <1>2, <1>3, IdentityFrame DEF IInv

LEMMA Steps ==
  ASSUME IInv, [Next]_vars
  PROVE  IInv' /\ StoreKept
<1>1. CASE IdentityNext /\ UNCHANGED serviceVars
  BY <1>1, IdentityKeeps, GatewayKeeps DEF IInv
<1>2. CASE Restarted
  BY <1>2, IdentityRestarts, RestartedKeeps DEF IInv
<1>3. CASE UNCHANGED vars
  <2>1. IdentityInv'
    BY <1>3, IdentityFrame DEF IInv, vars, gatewayVars
  <2>2. Carried
    BY <1>3, BeliefKept DEF IInv, IdentityInv, vars
  <2>3. ServiceInv' /\ StoreKept
    BY <1>3, <2>2, GatewayKeeps DEF IInv, vars, serviceVars
  <2> QED BY <2>1, <2>3 DEF IInv
<1> QED BY <1>1, <1>2, <1>3, ServiceStep DEF Next, SaveSettings, Die

(* IInv is an invariant: what is known of the gateway, and of the service,  *)
(* in every state.                                                          *)
THEOREM Inductive == Spec => []IInv
<1>1. IInv /\ [Next]_vars => IInv'
  BY Steps
<1> QED BY Starts, <1>1, PTL DEF Spec

(* A command past its checks is served by the lifecycle of its own context, *)
(* built for the identity verified in that generation, however the login and*)
(* the registered provider changed while it waited (provider_service.rs,    *)
(* connection.rs).                                                          *)
THEOREM ServedByContext == Spec => []ServedByItsContext
<1>1. ASSUME IInv PROVE ServedByItsContext
  <2>1. ContextIsVerified
    BY <1>1, SettlesOnTheLogin DEF IInv
  <2> QED BY <1>1, <2>1 DEF IInv, ServiceInv, CommandsOk, CommandOk, SlotOk, Serves, Serving,
          ServedByItsContext
<1> QED BY <1>1, Inductive, PTL

(* A plan or job that was recorded is never lost, moved to another scope, or*)
(* taken back, by a lifecycle that did not know of it (ScopedRepository and *)
(* its comparison in the transaction).                                      *)
THEOREM RecordsSurvive == Spec => RecordedJobsSurvive
<1>1. IInv /\ [Next]_vars => [StoreKept]_vars
  BY Steps
<1> QED BY <1>1, Inductive, PTL DEF Spec, RecordedJobsSurvive, StoreKept
=============================================================================
