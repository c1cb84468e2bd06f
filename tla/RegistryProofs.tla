---------------------------- MODULE RegistryProofs ----------------------------
(* A registry checkout under any number of maintainers, names, commands,     *)
(* edits, movements and crashes: what an apply leaves, what the gates pass,  *)
(* what a publish commits and what a vendored copy is.                       *)
EXTENDS Registry, TLAPS

Reviewed == {"reviewed", "writing", "undoing", "finalized", "listed"}

\* What the job of a process at w remembers.
JobShaped(j) ==
    j = [op |-> j.op, target |-> j.target, got |-> j.got, base |-> j.base,
         next |-> j.next, found |-> j.found, backups |-> j.backups, listed |-> j.listed]
Ordered(j) ==
    /\ j.op \in Commands
    /\ j.op \in Targeted => j.target \in Names
Planned(j) ==
    /\ j.op \in {"vendor", "revendor"} => j.target \in Names
    /\ Snapshot(j.base) /\ Snapshot(j.next)

TypeInv ==
    /\ Snapshot(ws)
    /\ up \in [Names -> Revs \cup {1}]
    /\ pc \in [Procs -> Reviewed \cup {"idle", "surveyed"}]
    /\ job = [p \in Procs |-> job[p]]
    /\ result = [p \in Procs |-> result[p]]
    /\ copied \subseteq Names
    /\ \A p \in Procs :
         /\ JobShaped(job[p])
         /\ pc[p] = "surveyed" =>
              /\ Ordered(job[p]) /\ Snapshot(job[p].base)
              /\ job[p].op \in {"vendor", "revendor"} =>
                   job[p].got[job[p].target] \in Revs \cup {1}
              /\ job[p].op = "batch" => \A n \in Names : job[p].got[n] \in Revs \cup {1}
         /\ pc[p] \in Reviewed => Planned(job[p])

\* An apply works on the checkout that was reviewed, and works alone.
Alone ==
    /\ \A p \in Procs :
         pc[p] \in {"writing", "undoing"} => holder = p /\ job[p].found = job[p].base
    /\ holder # NoProc => holder \in Applying

\* The files an apply has not backed up are as it found them.
Kept ==
    \A p \in Procs :
      pc[p] \in {"writing", "undoing"} /\ p \notin overtaken
      => \A f \in Files \ job[p].backups : ws[f] = job[p].found[f]

\* What a publish reviewed passed the gates.
PublishesCompiled ==
    \A p \in Procs :
      /\ pc[p] \in {"finalized", "listed"} =>
           job[p].op = "publish" /\ result[p] \in {"applied", "no-op"}
      /\ pc[p] \in Reviewed /\ job[p].op = "publish" => Compiled(job[p].next)

\* A plan leaves the recorded copies recorded, and records the ones it makes.
PlansRecord ==
    \A p \in Procs : pc[p] \in Reviewed =>
      /\ \A n \in Names : Recorded(job[p].base, n) => Recorded(job[p].next, n)
      /\ \A n \in CopiedBy(p) : Recorded(job[p].next, n)

\* While an apply is under way, each file of an untouched copy is the one it found or
\* the one it plans, and the former until it is backed up.
CopiesKept ==
    \A p \in Applying, n \in copied :
      /\ Recorded(job[p].found, n)
      /\ \A f \in Files : f[2] = n =>
           /\ ws[f] \in {job[p].found[f], job[p].next[f]}
           /\ f \notin job[p].backups => ws[f] = job[p].found[f]

IInv == TypeInv /\ Alone /\ Kept /\ PublishesCompiled /\ PlansRecord /\ CopiesKept /\ CopyIsRecorded

-----------------------------------------------------------------------------
\* The paths of a checkout.
LEMMA Paths ==
    /\ \A k \in Roots : <<k, 0>> \in Files
    /\ \A k \in Parts \cup {"entry", "evidence"}, n \in Names : <<k, n>> \in Files
    /\ \A f \in Files : f = <<f[1], f[2]>> /\ (f[1] \in Roots <=> f[2] = 0)
BY RegistryAssumption DEF Files, Roots, Parts

\* Whether a copy is recorded is a matter of the files of its package.
LEMMA RecordedLocal ==
    ASSUME NEW s, NEW t, NEW n \in Names, \A k \in Parts : s[<<k, n>>] = t[<<k, n>>]
    PROVE  Recorded(s, n) <=> Recorded(t, n)
BY DEF Recorded, Vendored, CopyMatches, CopyDigest, Has, At, Parts

\* A plan to go from s to t.
Sound(s, t) ==
    /\ Snapshot(t)
    /\ \A n \in Names : Recorded(s, n) => Recorded(t, n)

\* A plan that changes no package is sound when lock and index keep their shape.
LEMMA RootsSound ==
    ASSUME NEW s, Snapshot(s), NEW t, t = [f \in Files |-> t[f]],
           LockShaped(At(t, "lock", 0)), IndexShaped(At(t, "index", 0)),
           \A k \in Parts, n \in Names : s[<<k, n>>] = t[<<k, n>>]
    PROVE  Sound(s, t)
BY RecordedLocal DEF Sound, Snapshot, Has, At, Parts

LEMMA InitSound ==
    ASSUME NEW s, Snapshot(s), InitRegistry(s) # NoPlan
    PROVE  Sound(s, InitRegistry(s))
<1> DEFINE t == InitRegistry(s)
<1>1. t = [f \in Files |-> t[f]]
  BY Paths DEF InitRegistry, Snapshot
<1>2. \A k \in Parts \cup {"lock", "index"}, n \in Names \cup {0} :
        <<k, n>> \in Files => s[<<k, n>>] = t[<<k, n>>]
  BY Paths DEF InitRegistry, Snapshot, Parts
<1>3. LockShaped(At(t, "lock", 0)) /\ IndexShaped(At(t, "index", 0))
  BY <1>2, Paths DEF Snapshot, At, Roots
<1> QED
  BY <1>1, <1>2, <1>3, RootsSound, Paths

LEMMA ScaffoldSound ==
    ASSUME NEW s, Snapshot(s), NEW n \in Names, Scaffold(s, n) # NoPlan
    PROVE  Sound(s, Scaffold(s, n))
<1> DEFINE t == Scaffold(s, n)
<1>1. t = [f \in Files |-> t[f]]
  BY Paths DEF Scaffold, Snapshot
<1>2. s[<<"lock", 0>>] = t[<<"lock", 0>>] /\ s[<<"index", 0>>] = t[<<"index", 0>>]
  BY Paths DEF Scaffold, Snapshot, Roots
<1>3. n \notin Vendored(s)
  BY DEF Scaffold, Owned, PackageFiles, Vendored, Parts
<1>4. \A m \in Names \ {n}, k \in Parts : s[<<k, m>>] = t[<<k, m>>]
  BY Paths DEF Scaffold, Snapshot
<1>5. \A m \in Names : Recorded(s, m) => Recorded(t, m)
  BY <1>3, <1>4, RecordedLocal DEF Recorded
<1>6. \A m \in Names : s[<<"provenance", m>>] = t[<<"provenance", m>>]
  BY Paths DEF Scaffold, Snapshot, Parts
<1> QED
  BY <1>1, <1>2, <1>5, <1>6 DEF Sound, Snapshot, At, Has

LEMMA CollectionSound ==
    ASSUME NEW s, Snapshot(s), NEW S, Collection(s, S) # NoPlan
    PROVE  Sound(s, Collection(s, S))
<1> DEFINE t == Collection(s, S)
<1>1. t = [f \in Files |-> t[f]]
  BY Paths DEF Collection, Snapshot
<1>2. \A k \in Parts \cup {"lock", "index"}, n \in Names \cup {0} :
        <<k, n>> \in Files => s[<<k, n>>] = t[<<k, n>>]
  BY Paths DEF Collection, Snapshot, Parts
<1>3. LockShaped(At(t, "lock", 0)) /\ IndexShaped(At(t, "index", 0))
  BY <1>2, Paths DEF Snapshot, At, Roots
<1> QED
  BY <1>1, <1>2, <1>3, RootsSound, Paths

LEMMA FormatSound ==
    ASSUME NEW s, Snapshot(s), Format(s) # NoPlan
    PROVE  Sound(s, Format(s))
<1> DEFINE t == Format(s)
<1>1. t = [f \in Files |-> t[f]]
  BY Paths DEF Format, Snapshot
<1>2. \A k \in Parts \cup {"lock", "index"}, n \in Names \cup {0} :
        <<k, n>> \in Files => s[<<k, n>>] = t[<<k, n>>]
  BY Paths DEF Format, Snapshot, Parts
<1>3. LockShaped(At(t, "lock", 0)) /\ IndexShaped(At(t, "index", 0))
  BY <1>2, Paths DEF Snapshot, At, Roots
<1> QED
  BY <1>1, <1>2, <1>3, RootsSound, Paths

\* The lock of a checkout hashes the reviews it copies.
LEMMA LockSound ==
    ASSUME NEW s, Snapshot(s), NEW got, Lock(s, got) # NoPlan
    PROVE  Sound(s, Lock(s, got))
<1> DEFINE t == Lock(s, got)
<1>1. t = [s EXCEPT ![<<"lock", 0>>] = LockOf(s, got)]
  BY DEF Lock
<1>2. t = [f \in Files |-> t[f]]
  BY <1>1, Paths DEF Snapshot
<1>3. \A n \in Names : <<"entry", n>> \in InputFiles
  BY Paths DEF InputFiles
<1>4. LockShaped(LockOf(s, got))
  BY <1>3 DEF LockShaped, LockOf, LockedEntry, Inputs, Entries, At
<1>5. LockShaped(At(t, "lock", 0)) /\ IndexShaped(At(t, "index", 0))
  BY <1>1, <1>4, Paths DEF Snapshot, At, Roots
<1>6. \A k \in Parts, n \in Names : s[<<k, n>>] = t[<<k, n>>]
  BY <1>1, Paths DEF Snapshot, Parts
<1> QED
  BY <1>2, <1>5, <1>6, RootsSound

LEMMA IndexOfShaped ==
    ASSUME NEW s, NEW rev
    PROVE  IndexShaped(IndexOf(s, rev))
BY DEF IndexShaped, IndexOf

LEMMA BuildSound ==
    ASSUME NEW s, Snapshot(s), NEW got, Build(s, got) # NoPlan
    PROVE  Sound(s, Build(s, got))
<1> DEFINE t == Build(s, got)
<1>1. t = [s EXCEPT ![<<"index", 0>>] = IndexOf(s, got)]
  BY DEF Build
<1>2. t = [f \in Files |-> t[f]]
  BY <1>1, Paths DEF Snapshot
<1>3. LockShaped(At(t, "lock", 0)) /\ IndexShaped(At(t, "index", 0))
  BY <1>1, IndexOfShaped, Paths DEF Snapshot, At, Roots
<1>4. \A k \in Parts, n \in Names : s[<<k, n>>] = t[<<k, n>>]
  BY <1>1, Paths DEF Snapshot, Parts
<1> QED
  BY <1>2, <1>3, <1>4, RootsSound

LEMMA SoundTransitive ==
    ASSUME NEW s, NEW t, NEW u, Sound(s, t), Sound(t, u)
    PROVE  Sound(s, u)
BY DEF Sound

LEMMA PublishSound ==
    ASSUME NEW s, Snapshot(s), NEW got, Publish(s, got) # NoPlan
    PROVE  Sound(s, Publish(s, got))
<1>1. /\ Lock(s, got) # NoPlan /\ Build(Lock(s, got), got) # NoPlan
      /\ Publish(s, got) = Build(Lock(s, got), got)
  BY DEF Publish
<1>2. Sound(s, Lock(s, got))
  BY <1>1, LockSound
<1>3. Sound(Lock(s, got), Build(Lock(s, got), got))
  BY <1>1, <1>2, BuildSound DEF Sound
<1> QED
  BY <1>1, <1>2, <1>3, SoundTransitive

\* A promotion keeps the reviews of the other entries, and the lock it reads is one of
\* these very reviews.
LEMMA PromoteSound ==
    ASSUME NEW s, Snapshot(s), NEW n \in Names, NEW r, NEW review,
           Promote(s, n, r, review) # NoPlan
    PROVE  Sound(s, Promote(s, n, r, review))
<1> DEFINE t == Promote(s, n, r, review)
           kept == IF Has(s, "lock", 0) THEN At(s, "lock", 0).locked ELSE << >>
           added == [s EXCEPT ![<<"entry", n>>] = review]
           locked == [m \in DOMAIN kept \cup {n} |->
                        IF m = n THEN [rev |-> r, review |-> review] ELSE kept[m]]
           rev == [m \in DOMAIN locked |-> locked[m].rev]
           lock == [inputs |-> Inputs(added), locked |-> locked]
<1>1. /\ t = [added EXCEPT ![<<"lock", 0>>] = lock,
                           ![<<"index", 0>>] = IndexOf(added, rev)]
      /\ ReferencesCurrent(s, n)
  BY DEF Promote
<1>2. t = [f \in Files |-> t[f]]
  BY <1>1, Paths DEF Snapshot
<1>3. \A m \in Names : <<"entry", m>> \in InputFiles
  BY Paths DEF InputFiles
<1>4. lock.locked[n].review = lock.inputs[<<"entry", n>>]
  BY <1>3, Paths DEF Inputs, Snapshot
<1>5. ASSUME NEW m \in DOMAIN kept, m # n
      PROVE  m \in Names /\ lock.locked[m].review = lock.inputs[<<"entry", m>>]
  <2>1. Has(s, "lock", 0)
    BY <1>5
  <2>2. At(s, "lock", 0).inputs = Inputs(BeforePromotion(s, n))
    BY <1>1, <2>1 DEF ReferencesCurrent
  <2>3. m \in Names /\ kept[m].review = Inputs(BeforePromotion(s, n))[<<"entry", m>>]
    BY <1>5, <2>1, <2>2 DEF Snapshot, LockShaped, Has
  <2>4. BeforePromotion(s, n)[<<"entry", m>>] = s[<<"entry", m>>]
    BY <1>5, <2>3, Paths DEF BeforePromotion, Snapshot
  <2>5. added[<<"entry", m>>] = s[<<"entry", m>>]
    BY <1>5, <2>3, Paths DEF Snapshot
  <2>6. lock.inputs[<<"entry", m>>] = s[<<"entry", m>>]
    BY <1>3, <2>3, <2>5 DEF Inputs
  <2>7. kept[m].review = s[<<"entry", m>>]
    BY <1>3, <2>3, <2>4 DEF Inputs
  <2> QED
    BY <1>5, <2>3, <2>6, <2>7
<1>6. LockShaped(lock)
  BY <1>4, <1>5 DEF LockShaped
<1>7. LockShaped(At(t, "lock", 0)) /\ IndexShaped(At(t, "index", 0))
  BY <1>1, <1>6, IndexOfShaped, Paths DEF Snapshot, At, Roots
<1>8. \A k \in Parts, m \in Names : s[<<k, m>>] = t[<<k, m>>]
  BY <1>1, Paths DEF Snapshot, Parts
<1> QED
  BY <1>2, <1>7, <1>8, RootsSound

LEMMA RefreshSound ==
    ASSUME NEW s, Snapshot(s), NEW n \in Names, NEW r, Refresh(s, n, r) # NoPlan
    PROVE  Sound(s, Refresh(s, n, r))
BY PromoteSound DEF Refresh

\* A projected copy is the copy recorded, when an authored file takes the place of no
\* taken one; the other packages stay as they are.
LEMMA ProjectedSound ==
    ASSUME NEW s, Snapshot(s), NEW n \in Names, NEW r \in Revs \cup {1},
           NEW authored \in BOOLEAN, authored => TakenExtra(r) = NoFile
    PROVE  Sound(s, Projected(s, n, r, authored)) /\ Recorded(Projected(s, n, r, authored), n)
<1> DEFINE t == Projected(s, n, r, authored)
<1>1. t = [f \in Files |-> t[f]]
  BY Paths DEF Projected, Snapshot
<1>2. s[<<"lock", 0>>] = t[<<"lock", 0>>] /\ s[<<"index", 0>>] = t[<<"index", 0>>]
  BY Paths DEF Projected, Snapshot, Roots
<1>3. \A m \in Names \ {n}, k \in Parts : s[<<k, m>>] = t[<<k, m>>]
  BY Paths DEF Projected, Snapshot
<1>4. /\ t[<<"artifact", n>>] = r /\ t[<<"payload", n>>] = r
      /\ ~authored => t[<<"extra", n>>] = TakenExtra(r)
      /\ t[<<"provenance", n>>] = [digest |-> Taken(r), authored |-> authored]
  BY Paths DEF Projected, Snapshot, Parts
<1>5. n \in Vendored(t)
  BY <1>4, RegistryAssumption DEF Vendored, Has, At
<1>6. CopyMatches(t, n)
  BY <1>4 DEF CopyMatches, CopyDigest, Taken, At
<1>7. \A m \in Names : Recorded(s, m) => Recorded(t, m)
  BY <1>3, <1>5, <1>6, RecordedLocal DEF Recorded
<1>8. \A m \in Names : Has(t, "provenance", m) => At(t, "provenance", m).authored \in BOOLEAN
  <2>1. At(t, "provenance", n).authored \in BOOLEAN
    BY <1>4 DEF At
  <2>2. \A m \in Names \ {n} : t[<<"provenance", m>>] = s[<<"provenance", m>>]
    BY <1>3 DEF Parts
  <2> QED
    BY <2>1, <2>2 DEF Snapshot, Has, At
<1> QED
  BY <1>1, <1>2, <1>5, <1>6, <1>7, <1>8 DEF Sound, Snapshot, At, Recorded

\* A vendoring takes a copy only where no authored file is in its way.
LEMMA VendorSound ==
    ASSUME NEW s, Snapshot(s), NEW n \in Names, NEW r \in Revs \cup {1},
           Vendor(s, n, r) # NoPlan
    PROVE  Sound(s, Vendor(s, n, r)) /\ Recorded(Vendor(s, n, r), n)
<1>1. /\ Vendor(s, n, r) = Projected(s, n, r, Has(s, "extra", n))
      /\ ~Collides(s, n, r)
  BY DEF Vendor
<1>2. Has(s, "extra", n) \in BOOLEAN /\ (Has(s, "extra", n) => TakenExtra(r) = NoFile)
  BY <1>1 DEF Collides, Has
<1> QED
  BY <1>1, <1>2, ProjectedSound

\* The copies of one batch do not disturb each other.
LEMMA VendorBatchSound ==
    ASSUME NEW s, Snapshot(s), NEW got, \A n \in Names : got[n] \in Revs \cup {1},
           VendorBatch(s, Names, got) # NoPlan
    PROVE  /\ Sound(s, VendorBatch(s, Names, got))
           /\ \A n \in Names : Recorded(VendorBatch(s, Names, got), n)
<1> DEFINE t == VendorBatch(s, Names, got)
<1>1. /\ t = [f \in Files |-> IF f[2] \in Names THEN Vendor(s, f[2], got[f[2]])[f] ELSE s[f]]
      /\ \A n \in Names : Vendor(s, n, got[n]) # NoPlan
  BY DEF VendorBatch
<1>2. t = [f \in Files |-> t[f]]
  BY <1>1
<1>3. s[<<"lock", 0>>] = t[<<"lock", 0>>] /\ s[<<"index", 0>>] = t[<<"index", 0>>]
  BY <1>1, Paths, RegistryAssumption DEF Roots
<1>4. \A n \in Names, k \in Parts : t[<<k, n>>] = Vendor(s, n, got[n])[<<k, n>>]
  BY <1>1, Paths
<1>5. \A n \in Names : Recorded(Vendor(s, n, got[n]), n)
  BY <1>1, VendorSound
<1>6. \A n \in Names : Recorded(t, n)
  BY <1>4, <1>5, RecordedLocal
<1>7. \A n \in Names : t[<<"provenance", n>>] = Vendor(s, n, got[n])[<<"provenance", n>>]
  BY <1>4 DEF Parts
<1>8. \A n \in Names : Has(t, "provenance", n) => At(t, "provenance", n).authored \in BOOLEAN
  BY <1>1, <1>7, VendorSound DEF Sound, Snapshot, At, Has
<1> QED
  BY <1>2, <1>3, <1>6, <1>8 DEF Sound, Snapshot, At

\* A re-vendoring keeps the choice of the record, and refuses a movement that would
\* overwrite the authored file.
LEMMA RevendorSound ==
    ASSUME NEW s, Snapshot(s), NEW n \in Names, NEW r \in Revs \cup {1},
           Revendor(s, n, r, TRUE) # NoPlan
    PROVE  Sound(s, Revendor(s, n, r, TRUE)) /\ Recorded(Revendor(s, n, r, TRUE), n)
<1>1. /\ Revendor(s, n, r, TRUE) = Projected(s, n, r, At(s, "provenance", n).authored)
      /\ At(s, "provenance", n).authored => TakenExtra(r) = NoFile
  BY DEF Revendor
<1>2. At(s, "provenance", n).authored \in BOOLEAN
  BY DEF Revendor, Vendored, Snapshot
<1> QED
  BY <1>1, <1>2, ProjectedSound

-----------------------------------------------------------------------------
\* What the two gates ask, error by error.
LEMMA ValidatePasses ==
    ASSUME NEW s, Ready(s)
    PROVE  Validate(s, TRUE) = {} <=>
             /\ \A n \in Vendored(s) : UnchangedIntegrity(s, n)
             /\ NativeOk(s)
             /\ Has(s, "lock", 0) /\ Has(s, "index", 0)
             /\ LockResolves(s)
             /\ At(s, "index", 0).inputs = Inputs(s)
             /\ IndexAgrees(s)
<1> DEFINE Errors == {"copy", "native", "uncompiled", "lock", "index", "agreement"}
<1>1. Validate(s, TRUE) = {} <=> \A e \in Errors : e \notin Validate(s, TRUE)
  BY DEF Validate
<1>2. "copy" \in Validate(s, TRUE) <=> \E n \in Vendored(s) : ~UnchangedIntegrity(s, n)
  BY DEF Validate
<1>3. "native" \in Validate(s, TRUE) <=> ~NativeOk(s)
  BY DEF Validate
<1>4. "uncompiled" \in Validate(s, TRUE) <=> ~(Has(s, "lock", 0) /\ Has(s, "index", 0))
  BY DEF Validate
<1>5. "lock" \in Validate(s, TRUE) <=> Has(s, "lock", 0) /\ ~LockResolves(s)
  BY DEF Validate
<1>6. "index" \in Validate(s, TRUE) <=>
        Has(s, "index", 0) /\ (At(s, "index", 0).inputs # Inputs(s) \/ ~Has(s, "lock", 0))
  BY DEF Validate
<1>7. "agreement" \in Validate(s, TRUE) <=>
        Has(s, "index", 0) /\ Has(s, "lock", 0) /\ NativeOk(s) /\ ~IndexAgrees(s)
  BY DEF Validate
<1>8. Validate(s, TRUE) = {} <=>
        /\ "copy" \notin Validate(s, TRUE) /\ "native" \notin Validate(s, TRUE)
        /\ "uncompiled" \notin Validate(s, TRUE) /\ "lock" \notin Validate(s, TRUE)
        /\ "index" \notin Validate(s, TRUE) /\ "agreement" \notin Validate(s, TRUE)
  BY <1>1
<1> QED
  BY <1>2, <1>3, <1>4, <1>5, <1>6, <1>7, <1>8

LEMMA AuditPasses ==
    ASSUME NEW s, Ready(s)
    PROVE  Audit(s) = {} <=>
             /\ NativeOk(s)
             /\ Unapproved(s) = {}
             /\ Entries(s) # {} => Has(s, "lock", 0)
             /\ Has(s, "lock", 0) => DOMAIN At(s, "lock", 0).locked = Entries(s)
             /\ \A n \in Vendored(s) : UnchangedIntegrity(s, n)
             /\ \A n \in Names : Has(s, "artifact", n) => At(s, "payload", n) \notin Undelivered
             /\ Has(s, "security", 0) => SecurityPasses(s)
<1> DEFINE Errors == {"native", "approval", "unlocked", "identities", "copy", "delivery",
                      "security"}
<1>1. Audit(s) = {} <=> \A e \in Errors : e \notin Audit(s)
  BY DEF Audit
<1>2. "native" \in Audit(s) <=> ~NativeOk(s)
  BY DEF Audit
<1>3. "approval" \in Audit(s) <=> Unapproved(s) # {}
  BY DEF Audit
<1>4. "unlocked" \in Audit(s) <=> Entries(s) # {} /\ ~Has(s, "lock", 0)
  BY DEF Audit
<1>5. "identities" \in Audit(s) <=>
        Has(s, "lock", 0) /\ DOMAIN At(s, "lock", 0).locked # Entries(s)
  BY DEF Audit
<1>6. "copy" \in Audit(s) <=> \E n \in Vendored(s) : ~UnchangedIntegrity(s, n)
  BY DEF Audit
<1>7. "delivery" \in Audit(s) <=>
        \E n \in Names : Has(s, "artifact", n) /\ At(s, "payload", n) \in Undelivered
  BY DEF Audit
<1>8. "security" \in Audit(s) <=> Has(s, "security", 0) /\ ~SecurityPasses(s)
  BY DEF Audit
<1>9. Audit(s) = {} <=>
        /\ "native" \notin Audit(s) /\ "approval" \notin Audit(s)
        /\ "unlocked" \notin Audit(s) /\ "identities" \notin Audit(s) /\ "copy" \notin Audit(s)
        /\ "delivery" \notin Audit(s) /\ "security" \notin Audit(s)
  BY <1>1
<1> QED
  BY <1>2, <1>3, <1>4, <1>5, <1>6, <1>7, <1>8, <1>9

\* For any checkout the commands can write, the gates together ask exactly for a
\* compiled registry: that the index is the index of these inputs follows from its
\* digest of them, its agreement with the lock and its agreement with the packages.
LEMMA GatesExact ==
    ASSUME NEW s, Snapshot(s), GraphOk(s), NativeOk(s)
    PROVE  Validate(s, TRUE) \cup Audit(s) = {} <=> Compiled(s)
<1> DEFINE index == At(s, "index", 0)
           lock == At(s, "lock", 0)
           rev == [n \in Entries(s) |-> lock.locked[n].rev]
<1>1. Ready(s)
  BY DEF NativeOk
<1>2. \A n \in Vendored(s) : UnchangedIntegrity(s, n) <=> CopyMatches(s, n)
  BY DEF UnchangedIntegrity, Vendored, NativeOk, Owned, PackageFiles, Parts
<1>3. Unapproved(s) = {} <=> \A n \in Entries(s) : At(s, "entry", n) = "approved"
  BY DEF Unapproved
<1>4. Owned(s) \cap Entries(s) = {}
  BY DEF GraphOk
<1>5. ASSUME Has(s, "lock", 0), Has(s, "index", 0), DOMAIN lock.locked = Entries(s),
             lock.inputs = Inputs(s)
      PROVE  index.inputs = Inputs(s) /\ IndexAgrees(s) <=> index = IndexOf(s, rev)
  <2>1. /\ index = [inputs |-> index.inputs, collection |-> index.collection,
                    objects |-> index.objects]
        /\ index.objects = [n \in DOMAIN index.objects |-> index.objects[n]]
    BY <1>5 DEF Snapshot, IndexShaped, Has
  <2>2. ASSUME index.inputs = Inputs(s), IndexAgrees(s)
        PROVE  index = IndexOf(s, rev)
    <3> DEFINE objects == [n \in Owned(s) \cup Entries(s) |->
                             IF n \in Owned(s) THEN OwnedObject(s, n)
                                               ELSE ReferencedObject(rev[n])]
    <3>1. DOMAIN index.objects = Owned(s) \cup Entries(s)
      BY <1>5, <2>2 DEF IndexAgrees
    <3>2. \A n \in Owned(s) : index.objects[n] = OwnedObject(s, n)
      BY <2>2 DEF IndexAgrees
    <3>3. \A n \in Entries(s) : index.objects[n] = ReferencedObject(rev[n])
      BY <1>5, <2>2 DEF IndexAgrees
    <3>4. index.objects = objects
      <4> HIDE DEF index, rev
      <4> QED
        BY <2>1, <3>1, <3>2, <3>3
    <3>5. index.collection = At(s, "collection", 0)
      BY <2>2 DEF IndexAgrees
    <3> QED
      BY <2>1, <2>2, <3>4, <3>5 DEF IndexOf
  <2>3. ASSUME index = IndexOf(s, rev)
        PROVE  index.inputs = Inputs(s) /\ IndexAgrees(s)
    <3>1. /\ index.inputs = Inputs(s) /\ index.collection = At(s, "collection", 0)
          /\ DOMAIN index.objects = Owned(s) \cup Entries(s)
      BY <2>3 DEF IndexOf
    <3>2. index.objects = [n \in Owned(s) \cup Entries(s) |->
                             IF n \in Owned(s) THEN OwnedObject(s, n)
                                               ELSE ReferencedObject(rev[n])]
      <4> HIDE DEF index, rev
      <4> QED
        BY <2>3 DEF IndexOf
    <3>3. /\ \A n \in Owned(s) : index.objects[n] = OwnedObject(s, n)
          /\ \A n \in Entries(s) : index.objects[n] = ReferencedObject(rev[n])
      <4> HIDE DEF index, rev
      <4> QED
        BY <1>4, <3>2
    <3> QED
      BY <1>5, <3>1, <3>3 DEF IndexAgrees
  <2> QED
    BY <2>2, <2>3
<1>6. ASSUME Has(s, "lock", 0), DOMAIN lock.locked = Entries(s), lock.inputs = Inputs(s),
             \A n \in Entries(s) : At(s, "entry", n) = "approved"
      PROVE  LockResolves(s)
  <2>1. \A n \in Entries(s) : n \in Names /\ <<"entry", n>> \in InputFiles
    BY Paths DEF Entries, InputFiles
  <2>2. \A n \in Entries(s) : lock.locked[n].review = At(s, "entry", n)
    BY <1>6, <2>1 DEF Snapshot, LockShaped, Has, Inputs, At
  <2> QED
    BY <1>6, <2>2 DEF LockResolves
<1>7. LockResolves(s) => lock.inputs = Inputs(s)
  BY DEF LockResolves
<1> DEFINE Delivered == \A n \in Owned(s) : At(s, "payload", n) \notin Undelivered
           objects == {OwnedObject(s, n) : n \in Owned(s)}
                        \cup {ReferencedObject(lock.locked[n].rev) : n \in Entries(s)}
           Evidence == Has(s, "security", 0) =>
                         At(s, "security", 0) = [state |-> "clean", inputs |-> Inputs(s),
                                                 objects |-> objects]
<1>11. (\A n \in Names : Has(s, "artifact", n) => At(s, "payload", n) \notin Undelivered)
        <=> Delivered
  BY DEF NativeOk, Owned, PackageFiles, Parts
<1>12. ASSUME Has(s, "index", 0), index = IndexOf(s, rev)
       PROVE  SecurityPasses(s) <=> At(s, "security", 0) = [state |-> "clean",
                                         inputs |-> Inputs(s), objects |-> objects]
  <2>1. /\ index.inputs = Inputs(s)
        /\ index.objects = [n \in Owned(s) \cup Entries(s) |->
                              IF n \in Owned(s) THEN OwnedObject(s, n)
                                                ELSE ReferencedObject(rev[n])]
    <3> HIDE DEF index, rev
    <3> QED
      BY <1>12 DEF IndexOf
  <2>2. \A n \in Entries(s) : n \notin Owned(s) /\ rev[n] = lock.locked[n].rev
    BY <1>4
  <2>3. {index.objects[n] : n \in DOMAIN index.objects} = objects
    <3> HIDE DEF index, rev, lock
    <3> QED
      BY <2>1, <2>2
  <2> HIDE DEF objects
  <2> QED
    BY <1>12, <2>1, <2>3 DEF SecurityPasses, SecurityIndex
<1> HIDE DEF index, lock, rev, objects
<1>8. Compiled(s) <=>
        /\ Has(s, "lock", 0) /\ Has(s, "index", 0)
        /\ DOMAIN lock.locked = Entries(s) /\ lock.inputs = Inputs(s)
        /\ index = IndexOf(s, rev)
        /\ Unapproved(s) = {} /\ \A n \in Vendored(s) : UnchangedIntegrity(s, n)
        /\ Delivered /\ Evidence
  BY <1>2, <1>3 DEF Compiled, index, lock, rev, objects
<1>9. Validate(s, TRUE) = {} <=>
        /\ \A n \in Vendored(s) : UnchangedIntegrity(s, n)
        /\ Has(s, "lock", 0) /\ Has(s, "index", 0)
        /\ LockResolves(s) /\ index.inputs = Inputs(s) /\ IndexAgrees(s)
  BY <1>1, ValidatePasses DEF index
<1>10. Audit(s) = {} <=>
        /\ Unapproved(s) = {}
        /\ Entries(s) # {} => Has(s, "lock", 0)
        /\ Has(s, "lock", 0) => DOMAIN lock.locked = Entries(s)
        /\ \A n \in Vendored(s) : UnchangedIntegrity(s, n)
        /\ Delivered
        /\ Has(s, "security", 0) => SecurityPasses(s)
  <2> HIDE DEF Delivered
  <2> QED
    BY <1>1, <1>11, AuditPasses DEF lock
<1> HIDE DEF Delivered
<1> QED
  BY <1>3, <1>5, <1>6, <1>7, <1>8, <1>9, <1>10, <1>12

\* What publish plans is compiled: it passed the gates, and the lock and the index it
\* adds change neither the graph nor the packages they were gated with.
LEMMA PublishCompiles ==
    ASSUME NEW s, Snapshot(s), NEW got, Publish(s, got) # NoPlan
    PROVE  Compiled(Publish(s, got))
<1> DEFINE locked == Lock(s, got)
           built == Build(locked, got)
<1>1. /\ locked # NoPlan /\ built # NoPlan /\ Publish(s, got) = built
      /\ Validate(built, TRUE) \cup Audit(built) = {}
  BY DEF Publish
<1>2. Snapshot(locked) /\ Snapshot(built)
  BY <1>1, LockSound, BuildSound DEF Sound
<1>3. built = [locked EXCEPT ![<<"index", 0>>] = IndexOf(locked, got)]
  BY <1>1 DEF Build
<1>4. GraphOk(locked) /\ NativeOk(locked)
  BY <1>1 DEF Build
<1>5. /\ \A k \in Parts \cup {"entry"}, n \in Names : built[<<k, n>>] = locked[<<k, n>>]
      /\ \A k \in Roots \ {"index"} : built[<<k, 0>>] = locked[<<k, 0>>]
  <2> HIDE DEF locked, built
  <2> QED
    BY <1>2, <1>3, Paths DEF Snapshot, Parts, Roots
<1> HIDE DEF locked, built
<1>6. Owned(built) = Owned(locked) /\ Entries(built) = Entries(locked)
  BY <1>5 DEF Owned, PackageFiles, Entries, Has, At
<1>7. GraphOk(built) /\ NativeOk(built)
  BY <1>4, <1>5, <1>6 DEF GraphOk, NativeOk, Ready, Has, At, Roots, Parts, Owned
<1> QED
  BY <1>1, <1>2, <1>7, GatesExact

-----------------------------------------------------------------------------
\* What a preparation reviews is sound, whichever of its two readings it plans over.
LEMMA PreparedSound ==
    ASSUME TypeInv, NEW p \in Procs, pc[p] = "surveyed",
           NEW review, review # NoPlan,
           review = Prepared(job[p].base, ws, job[p].op, job[p].target, job[p].got)
    PROVE  /\ Snapshot(review.base) /\ Sound(review.base, review.next)
           /\ \A n \in CopiedBy(p) : Recorded(review.next, n)
           /\ job[p].op = "publish" => Compiled(review.next)
<1> DEFINE j == job[p]
<1>1. /\ Snapshot(ws) /\ Snapshot(j.base) /\ Ordered(j)
      /\ j.op \in {"vendor", "revendor"} => j.got[j.target] \in Revs \cup {1}
      /\ j.op = "batch" => \A n \in Names : j.got[n] \in Revs \cup {1}
  BY DEF TypeInv
<1>2. \A b, t : Review(b, t) # NoPlan =>
        t # NoPlan /\ Review(b, t).base = b /\ Review(b, t).next = t
  BY DEF Review
<1>3. j.op \in {"init", "scaffold", "collection", "format", "vendor", "batch", "revendor",
                "promote", "refresh", "lock", "build", "publish"}
  BY <1>1, RegistryAssumption DEF Ordered
<1>4. j.op \in Targeted => j.target \in Names
  BY <1>1 DEF Ordered
<1> HIDE DEF j
<1>5. review = Prepared(j.base, ws, j.op, j.target, j.got)
  BY DEF j
<1>6. CopiedBy(p) = CASE j.op \in {"vendor", "revendor"} -> {j.target}
                      [] j.op = "batch" -> Names [] OTHER -> {}
  BY DEF CopiedBy, j
<1>7. CASE j.op = "init"
  BY <1>1, <1>2, <1>5, <1>6, <1>7, InitSound DEF Prepared, PrepareInit, j
<1>8. CASE j.op = "scaffold"
  BY <1>1, <1>2, <1>4, <1>5, <1>6, <1>8, ScaffoldSound DEF Prepared, PrepareScaffold, Targeted, j
<1>9. CASE j.op = "collection"
  BY <1>1, <1>2, <1>5, <1>6, <1>9, CollectionSound DEF Prepared, PrepareCollection, j
<1>10. CASE j.op = "format"
  BY <1>1, <1>2, <1>5, <1>6, <1>10, FormatSound DEF Prepared, PrepareFormat, j
<1>11. CASE j.op = "vendor"
  BY <1>1, <1>2, <1>4, <1>5, <1>6, <1>11, VendorSound DEF Prepared, PrepareVendor, Targeted, j
<1>12. CASE j.op = "batch"
  BY <1>1, <1>2, <1>5, <1>6, <1>12, VendorBatchSound DEF Prepared, PrepareVendorBatch, j
<1>13. CASE j.op = "revendor"
  <2> DEFINE next == Revendor(ws, j.target, j.got[j.target], TRUE)
  <2>1. review = Review(ws, next)
    BY <1>5, <1>13 DEF Prepared, PrepareRevendor
  <2>2. next # NoPlan /\ review.base = ws /\ review.next = next
    <3> HIDE DEF next
    <3> QED
      BY <1>2, <2>1
  <2>3. j.target \in Names /\ j.got[j.target] \in Revs \cup {1} /\ Snapshot(ws)
    BY <1>1, <1>4, <1>13 DEF Targeted, j
  <2>4. Sound(ws, next) /\ Recorded(next, j.target)
    BY <2>2, <2>3, RevendorSound
  <2> QED
    BY <1>6, <1>13, <2>2, <2>3, <2>4 DEF j
<1>14. CASE j.op = "promote"
  BY <1>1, <1>2, <1>4, <1>5, <1>6, <1>14, PromoteSound DEF Prepared, PreparePromote, Targeted, j
<1>15. CASE j.op = "refresh"
  BY <1>1, <1>2, <1>4, <1>5, <1>6, <1>15, RefreshSound DEF Prepared, PrepareUpdate, Targeted, j
<1>16. CASE j.op = "lock"
  BY <1>1, <1>2, <1>5, <1>6, <1>16, LockSound DEF Prepared, PrepareGenerated, j
<1>17. CASE j.op = "build"
  BY <1>1, <1>2, <1>5, <1>6, <1>17, BuildSound DEF Prepared, PrepareGenerated, j
<1>18. CASE j.op = "publish"
  BY <1>1, <1>2, <1>5, <1>6, <1>18, PublishSound, PublishCompiles DEF Prepared, PreparePublish, j
<1> QED
  BY <1>3, <1>7, <1>8, <1>9, <1>10, <1>11, <1>12, <1>13, <1>14, <1>15, <1>16, <1>17, <1>18

LEMMA NewJobShaped ==
    ASSUME NEW c, NEW n, NEW got, NEW s, NEW j, j = NewJob(c, n, got, s)
    PROVE  JobShaped(j) /\ j.op = c /\ j.target = n /\ j.base = s /\ j.got = got
BY DEF JobShaped, NewJob

LEMMA NoJobShaped == JobShaped(NoJob) /\ NoJob.op = "none"
BY NewJobShaped DEF NoJob

LEMMA InitIInv == Init => IInv
<1> SUFFICES ASSUME Init PROVE IInv
  OBVIOUS
<1>1. TypeInv
  BY NoJobShaped, RegistryAssumption DEF Init, TypeInv, Vendored, Reviewed
<1>2. CopyIsRecorded
  BY RegistryAssumption DEF Init, CopyIsRecorded, Recorded
<1> QED
  BY <1>1, <1>2 DEF Init, IInv, Alone, Kept, PublishesCompiled, PlansRecord, CopiesKept,
                   Applying, Reviewed

-----------------------------------------------------------------------------
\* A process that goes idle, or stays where it is, disturbs nobody while the checkout and
\* the lock stay as they are.
LEMMA QuietStep ==
    ASSUME IInv, NEW p \in Procs, NEW r,
           \/ Return(p, r)
           \/ /\ UNCHANGED <<pc, job>> /\ result' = [q \in Procs |-> result'[q]]
              /\ \A q \in Procs : pc[q] # "idle" => result'[q] = result[q],
           pc[p] \notin {"writing", "undoing"},
           UNCHANGED <<ws, up, holder, copied>>, overtaken' \in {overtaken, overtaken \ {p}}
    PROVE  IInv'
<1> USE DEF IInv, Return, Goto, Report
<1>1. /\ \A q \in Procs \ {p} : pc'[q] = pc[q] /\ job'[q] = job[q]
      /\ (pc'[p] = "idle" /\ job'[p] = NoJob) \/ (pc'[p] = pc[p] /\ job'[p] = job[p])
      /\ pc' \in [Procs -> Reviewed \cup {"idle", "surveyed"}]
      /\ job' = [q \in Procs |-> job'[q]] /\ result' = [q \in Procs |-> result'[q]]
      /\ \A q \in Procs : pc'[q] # "idle" => result'[q] = result[q]
  BY DEF TypeInv
<1>2. TypeInv'
  BY <1>1, NoJobShaped DEF TypeInv, Reviewed
<1>3. Alone' /\ Kept'
  BY <1>1 DEF Alone, Kept, Applying
<1>4. PublishesCompiled'
  BY <1>1 DEF PublishesCompiled, Reviewed
<1>5. PlansRecord'
  BY <1>1 DEF PlansRecord, Reviewed, CopiedBy
<1>6. Applying' = Applying
  BY <1>1 DEF Applying
<1>7. CopiesKept' /\ CopyIsRecorded'
  BY <1>1, <1>6 DEF CopiesKept, CopyIsRecorded, Applying
<1> QED
  BY <1>2, <1>3, <1>4, <1>5, <1>7

LEMMA SurveyStep ==
    ASSUME IInv, NEW p \in Procs, NEW c \in Commands, NEW n \in Names \cup {0}, Survey(p, c, n)
    PROVE  IInv'
<1> USE DEF IInv
<1>1. CASE SurveyRefuses(ws, c, n)
  <2>1. UNCHANGED job /\ pc' = [pc EXCEPT ![p] = "idle"] /\ pc[p] = "idle"
    BY <1>1 DEF Survey, Goto
  <2>2. UNCHANGED pc
    BY <2>1 DEF TypeInv
  <2>3. /\ result' = [q \in Procs |-> result'[q]]
        /\ \A q \in Procs : pc[q] # "idle" => result'[q] = result[q]
    BY DEF Survey
  <2> QED
    BY <2>1, <2>2, <2>3, QuietStep DEF Survey, tree
<1>2. CASE ~SurveyRefuses(ws, c, n)
  <2> DEFINE got == [m \in ToAcquire(ws, c, n) |-> up[m]]
             j == NewJob(c, n, got, ws)
  <2>1. /\ pc[p] = "idle" /\ pc' = [pc EXCEPT ![p] = "surveyed"]
        /\ job' = [job EXCEPT ![p] = j]
        /\ result' = [q \in Procs |-> result'[q]]
        /\ \A q \in Procs : pc[q] # "idle" => result'[q] = result[q]
        /\ UNCHANGED <<ws, up, holder, overtaken, copied>>
    BY <1>2 DEF Survey, Goto, tree
  <2>2. /\ JobShaped(j) /\ j.op = c /\ j.target = n /\ j.base = ws
        /\ j.got = got
    <3> HIDE DEF got
    <3> QED
      BY NewJobShaped
  <2> HIDE DEF j
  <2>3. /\ pc'[p] = "surveyed" /\ job'[p] = j
        /\ \A q \in Procs \ {p} : pc'[q] = pc[q] /\ job'[q] = job[q]
    BY <2>1 DEF TypeInv
  <2>4. c \in Targeted => n \in Names
    BY DEF Survey
  <2>5. /\ c \in {"vendor", "revendor"} => j.got[n] \in Revs \cup {1}
        /\ c = "batch" => \A m \in Names : j.got[m] \in Revs \cup {1}
    BY <2>2, <2>4 DEF ToAcquire, Compiling, Targeted, TypeInv
  <2>6. TypeInv'
    BY <2>1, <2>2, <2>3, <2>4, <2>5 DEF TypeInv, Reviewed, Ordered
  <2>7. Alone' /\ Kept'
    BY <2>1, <2>3 DEF Alone, Kept, Applying
  <2>8. PublishesCompiled'
    BY <2>1, <2>3 DEF PublishesCompiled, Reviewed
  <2>9. PlansRecord'
    BY <2>1, <2>3 DEF PlansRecord, Reviewed, CopiedBy
  <2>10. Applying' = Applying
    BY <2>1, <2>3 DEF Applying
  <2>11. CopiesKept' /\ CopyIsRecorded'
    BY <2>1, <2>3, <2>10 DEF CopiesKept, CopyIsRecorded, Applying
  <2> QED
    BY <2>6, <2>7, <2>8, <2>9, <2>11
<1> QED
  BY <1>1, <1>2

LEMMA PrepareStep ==
    ASSUME IInv, NEW p \in Procs, Prepare(p)
    PROVE  IInv'
<1> USE DEF IInv
<1> DEFINE review == Prepared(job[p].base, ws, job[p].op, job[p].target, job[p].got)
<1>1. pc[p] = "surveyed" /\ UNCHANGED <<ws, up, holder, overtaken, copied>>
  BY DEF Prepare, tree
<1>2. CASE review = NoPlan
  <2>1. Return(p, "refused")
    BY <1>2 DEF Prepare
  <2> QED
    BY <1>1, <2>1, QuietStep
<1>3. CASE review # NoPlan
  <2>1. /\ job' = [job EXCEPT ![p].base = review.base, ![p].next = review.next,
                             ![p].got = << >>]
        /\ pc' = [pc EXCEPT ![p] = "reviewed"]
        /\ UNCHANGED result
    BY <1>3 DEF Prepare, Goto
  <2>2. /\ Snapshot(review.base) /\ Sound(review.base, review.next)
        /\ \A n \in CopiedBy(p) : Recorded(review.next, n)
        /\ job[p].op = "publish" => Compiled(review.next)
    BY <1>1, <1>3, PreparedSound
  <2> HIDE DEF review
  <2>3. /\ pc'[p] = "reviewed" /\ \A q \in Procs \ {p} : pc'[q] = pc[q] /\ job'[q] = job[q]
        /\ job' = [q \in Procs |-> job'[q]]
    BY <2>1 DEF TypeInv
  <2>4. /\ job'[p].base = review.base /\ job'[p].next = review.next
        /\ job'[p].op = job[p].op /\ job'[p].target = job[p].target
        /\ JobShaped(job'[p])
    <3>1. job'[p] = [job[p] EXCEPT !.base = review.base, !.next = review.next, !.got = << >>]
      BY <2>1 DEF TypeInv
    <3>2. JobShaped(job[p])
      BY DEF TypeInv
    <3> QED
      BY <3>1, <3>2 DEF JobShaped
  <2>5. CopiedBy(p)' = CopiedBy(p)
    BY <2>4 DEF CopiedBy
  <2>6. TypeInv'
    BY <1>1, <2>1, <2>2, <2>3, <2>4 DEF TypeInv, Reviewed, Planned, Sound, Ordered, Targeted
  <2>7. Alone' /\ Kept'
    BY <1>1, <2>3 DEF Alone, Kept, Applying
  <2>8. PublishesCompiled'
    BY <1>1, <2>1, <2>2, <2>3, <2>4 DEF PublishesCompiled, Reviewed
  <2>9. PlansRecord'
    BY <1>1, <2>2, <2>3, <2>4, <2>5 DEF PlansRecord, Reviewed, CopiedBy, Sound
  <2>10. Applying' = Applying
    BY <1>1, <2>3 DEF Applying
  <2>11. CopiesKept' /\ CopyIsRecorded'
    BY <1>1, <2>3, <2>10 DEF CopiesKept, CopyIsRecorded, Applying
  <2> QED
    BY <2>6, <2>7, <2>8, <2>9, <2>11
<1> QED
  BY <1>2, <1>3

\* The lock on the root is taken: whoever held it is done, and what is found is what was
\* reviewed.
LEMMA EnterStep ==
    ASSUME IInv, NEW p \in Procs, Enter(p)
    PROVE  IInv'
<1> USE DEF IInv
<1>1. /\ pc[p] = "reviewed" /\ overtaken' = overtaken \ {p}
      /\ UNCHANGED <<ws, up, copied>>
  BY DEF Enter
<1>2. ASSUME NEW r, Return(p, r), UNCHANGED holder
      PROVE  IInv'
  BY <1>1, <1>2, QuietStep
<1>3. ASSUME NEW r \in {"no-op", "stale"}, Finished(p, r), UNCHANGED holder
      PROVE  IInv'
  <2>1. CASE job[p].op = "publish" /\ r = "no-op"
    <3>1. /\ pc' = [pc EXCEPT ![p] = "finalized"] /\ UNCHANGED job
          /\ result' = [result EXCEPT ![p] = r]
      BY <1>3, <2>1 DEF Finished, Goto, Report
    <3>2. /\ pc'[p] = "finalized" /\ \A q \in Procs \ {p} : pc'[q] = pc[q]
          /\ result' = [q \in Procs |-> result'[q]] /\ result'[p] = r
          /\ \A q \in Procs \ {p} : result'[q] = result[q]
      BY <3>1 DEF TypeInv
    <3>3. TypeInv'
      BY <1>1, <3>1, <3>2 DEF TypeInv, Reviewed
    <3>4. Alone' /\ Kept'
      BY <1>1, <1>3, <3>1, <3>2 DEF Alone, Kept, Applying
    <3>5. PublishesCompiled'
      BY <1>1, <2>1, <3>1, <3>2 DEF PublishesCompiled, Reviewed
    <3>6. PlansRecord'
      BY <1>1, <3>1, <3>2 DEF PlansRecord, Reviewed, CopiedBy
    <3>7. Applying' = Applying
      BY <1>1, <3>2 DEF Applying
    <3>8. CopiesKept' /\ CopyIsRecorded'
      BY <1>1, <3>1, <3>7 DEF CopiesKept, CopyIsRecorded
    <3> QED
      BY <3>3, <3>4, <3>5, <3>6, <3>8
  <2>2. CASE ~(job[p].op = "publish" /\ r = "no-op")
    <3>1. Return(p, r)
      BY <1>3, <2>2 DEF Finished
    <3> QED
      BY <1>2, <1>3, <3>1
  <2> QED
    BY <2>1, <2>2
<1>4. ASSUME Free, Admitted(p), holder' = p, Remember(p, "found", ws), Goto(p, "writing"),
             UNCHANGED result
      PROVE  IInv'
  <2>1. Applying = {}
    BY <1>4, RegistryAssumption DEF Applying, Alone, Free
  <2>2. /\ pc'[p] = "writing" /\ \A q \in Procs \ {p} : pc'[q] = pc[q] /\ job'[q] = job[q]
        /\ job' = [q \in Procs |-> job'[q]]
        /\ pc' \in [Procs -> Reviewed \cup {"idle", "surveyed"}]
    BY <1>4 DEF TypeInv, Goto, Remember, Reviewed
  <2>3. job'[p] = [job[p] EXCEPT !.found = ws] /\ JobShaped(job[p])
    BY <1>4 DEF TypeInv, Remember
  <2>4. /\ JobShaped(job'[p])
        /\ job'[p].op = job[p].op /\ job'[p].target = job[p].target
        /\ job'[p].base = job[p].base /\ job'[p].next = job[p].next
        /\ job'[p].backups = job[p].backups /\ job'[p].found = ws
    BY <2>3 DEF JobShaped
  <2>5. TypeInv'
    BY <1>1, <1>4, <2>2, <2>4 DEF TypeInv, Reviewed, Planned
  <2>6. Alone'
    BY <1>4, <2>1, <2>2, <2>4 DEF Alone, Applying, Admitted
  <2>7. Kept'
    BY <1>1, <2>1, <2>2, <2>4 DEF Kept, Applying
  <2>8. PublishesCompiled'
    BY <1>1, <1>4, <2>2, <2>4 DEF PublishesCompiled, Reviewed
  <2>9. CopiedBy(p)' = CopiedBy(p)
    BY <2>4 DEF CopiedBy
  <2>10. PlansRecord'
    BY <1>1, <2>2, <2>4, <2>9 DEF PlansRecord, Reviewed, CopiedBy
  <2>11. Applying' = {p}
    BY <2>1, <2>2 DEF Applying
  <2>12. \A n \in copied : Recorded(ws, n)
    BY <2>1 DEF CopyIsRecorded
  <2>13. CopiesKept' /\ CopyIsRecorded'
    BY <1>1, <2>4, <2>11, <2>12 DEF CopiesKept, CopyIsRecorded
  <2> QED
    BY <2>5, <2>6, <2>7, <2>8, <2>10, <2>13
<1> QED
  BY <1>2, <1>3, <1>4 DEF Enter

-----------------------------------------------------------------------------
\* A checkout whose file f is replaced by the one another snapshot has there.
LEMMA ReplacedSnapshot ==
    ASSUME NEW s, Snapshot(s), NEW t, Snapshot(t), NEW f
    PROVE  Snapshot([s EXCEPT ![f] = t[f]])
<1> DEFINE u == [s EXCEPT ![f] = t[f]]
<1>1. u = [g \in Files |-> u[g]]
  BY DEF Snapshot
<1>2. \A g \in Files : u[g] \in {s[g], t[g]}
  BY DEF Snapshot
<1> HIDE DEF u
<1>3. /\ u[<<"lock", 0>>] \in {s[<<"lock", 0>>], t[<<"lock", 0>>]}
      /\ u[<<"index", 0>>] \in {s[<<"index", 0>>], t[<<"index", 0>>]}
      /\ \A n \in Names :
           u[<<"provenance", n>>] \in {s[<<"provenance", n>>], t[<<"provenance", n>>]}
  BY <1>2, Paths DEF Roots, Parts
<1>4. Snapshot(u)
  BY <1>1, <1>3 DEF Snapshot, At, Has
<1> QED
  BY <1>4 DEF u

\* A step of the apply under way that changes only its own pc, result and backups, and
\* of the checkout only one file: the one it plans and has backed up, or the one it found.
LEMMA ApplyStep ==
    ASSUME IInv, NEW p \in Procs, pc[p] \in {"writing", "undoing"},
           NEW f, NEW b,
           \/ ws' = ws
           \/ /\ ws' = [ws EXCEPT ![f] = job[p].next[f]]
              /\ ws[f] = job[p].found[f] /\ f \in b
           \/ ws' = [ws EXCEPT ![f] = job[p].found[f]],
           job' = [job EXCEPT ![p]["backups"] = b],
           \A g \in job[p].backups \ b : g = f /\ ws' = [ws EXCEPT ![f] = job[p].found[f]],
           \/ UNCHANGED <<pc, result>>
           \/ pc' = [pc EXCEPT ![p] = "undoing"] /\ \E r : result' = [result EXCEPT ![p] = r],
           UNCHANGED <<up, holder, overtaken, copied>>
    PROVE  IInv'
<1> USE DEF IInv
<1>1. /\ \A q \in Procs \ {p} : pc'[q] = pc[q] /\ job'[q] = job[q]
      /\ pc'[p] \in {"writing", "undoing"}
      /\ pc' \in [Procs -> Reviewed \cup {"idle", "surveyed"}]
      /\ job' = [q \in Procs |-> job'[q]] /\ result' = [q \in Procs |-> result'[q]]
      /\ \A q \in Procs \ {p} : result'[q] = result[q]
  BY DEF TypeInv, Reviewed
<1>2. job'[p] = [job[p] EXCEPT !.backups = b] /\ JobShaped(job[p])
  BY DEF TypeInv
<1>3. /\ JobShaped(job'[p])
      /\ job'[p].op = job[p].op /\ job'[p].target = job[p].target
      /\ job'[p].base = job[p].base /\ job'[p].next = job[p].next
      /\ job'[p].backups = b /\ job'[p].found = job[p].found
  BY <1>2 DEF JobShaped
<1>4. Applying = {p} /\ Applying' = {p} /\ job[p].found = job[p].base
  BY <1>1 DEF Alone, Applying
<1>5. Snapshot(ws) /\ Snapshot(job[p].base) /\ Snapshot(job[p].next)
  BY DEF TypeInv, Planned, Reviewed
<1>6. Snapshot(ws)'
  <2>1. Snapshot([ws EXCEPT ![f] = job[p].next[f]])
    BY <1>5, ReplacedSnapshot
  <2>2. Snapshot([ws EXCEPT ![f] = job[p].found[f]])
    BY <1>4, <1>5, ReplacedSnapshot
  <2> QED
    BY <1>5, <2>1, <2>2
<1>7. TypeInv'
  BY <1>1, <1>3, <1>6 DEF TypeInv, Reviewed, Planned
<1>8. Alone'
  BY <1>1, <1>3, <1>4 DEF Alone, Applying
<1>9. ASSUME NEW g \in Files
      PROVE  /\ ws[g] = job[p].found[g] \/ g \in job[p].backups
                => ws'[g] = job[p].found[g] \/ g \in b
             /\ ws'[g] \in {ws[g], job[p].found[g], job[p].next[g]}
  <2>1. ws = [h \in Files |-> ws[h]]
    BY <1>5 DEF Snapshot
  <2>2. CASE g = f
    BY <2>1, <2>2
  <2>3. CASE g # f
    BY <2>1, <2>3
  <2> QED
    BY <2>2, <2>3
<1>10. Kept'
  BY <1>1, <1>3, <1>4, <1>9 DEF Kept, Applying
<1>11. PublishesCompiled'
  BY <1>1, <1>3 DEF PublishesCompiled, Reviewed
<1>12. CopiedBy(p)' = CopiedBy(p)
  BY <1>3 DEF CopiedBy
<1>13. PlansRecord'
  BY <1>1, <1>3, <1>12 DEF PlansRecord, Reviewed, CopiedBy
<1>14. CopiesKept'
  BY <1>3, <1>4, <1>9 DEF CopiesKept
<1>15. CopyIsRecorded'
  BY <1>4 DEF CopyIsRecorded
<1> QED
  BY <1>7, <1>8, <1>10, <1>11, <1>13, <1>14, <1>15

LEMMA WriteStep ==
    ASSUME IInv, NEW p \in Procs, Write(p)
    PROVE  IInv'
<1> DEFINE f == First(Todo(p))
           b == job[p].backups \cup {f}
<1>1. pc[p] = "writing" /\ UNCHANGED <<up, holder, overtaken, copied>>
  BY DEF Write
<1>2. TargetCurrent(p, f) => ws[f] = job[p].found[f]
  BY <1>1 DEF TargetCurrent, IInv, Alone
<1>3. job[p] = [job[p] EXCEPT !["backups"] = job[p].backups] /\ job = [q \in Procs |-> job[q]]
  BY DEF IInv, TypeInv, JobShaped
<1>4. job = [job EXCEPT ![p]["backups"] = job[p].backups]
  BY <1>3
<1> HIDE DEF f
<1>5. ASSUME TargetCurrent(p, f), ws' = [ws EXCEPT ![f] = job[p].next[f]],
             Remember(p, "backups", b), UNCHANGED <<pc, result>>
      PROVE  IInv'
  <2>1. /\ ws' = [ws EXCEPT ![f] = job[p].next[f]] /\ ws[f] = job[p].found[f] /\ f \in b
        /\ job' = [job EXCEPT ![p]["backups"] = b] /\ job[p].backups \ b = {}
    BY <1>2, <1>5 DEF Remember
  <2> HIDE DEF b
  <2> QED
    BY <1>1, <1>5, <2>1, ApplyStep
<1>6. ASSUME Remember(p, "backups", b), GiveUp(p, "failed"), UNCHANGED ws
      PROVE  IInv'
  BY <1>1, <1>6, ApplyStep DEF Remember, GiveUp, Goto, Report
<1>7. ASSUME GiveUp(p, "stale"), UNCHANGED <<ws, job>>
      PROVE  IInv'
  BY <1>1, <1>4, <1>7, ApplyStep DEF GiveUp, Goto, Report
<1> QED
  BY <1>5, <1>6, <1>7 DEF Write, f

\* The apply is over: its process leaves the lock, and every copy still counted is one the
\* checkout records.
LEMMA LeaveStep ==
    ASSUME IInv, NEW p \in Procs, pc[p] \in {"writing", "undoing"}, NEW r,
           \/ Return(p, r)
           \/ /\ job[p].op = "publish" /\ ws = job[p].next /\ r = "applied"
              /\ Goto(p, "finalized") /\ Report(p, r) /\ UNCHANGED job,
           holder' = NoProc, UNCHANGED <<ws, up, overtaken>>,
           copied' \subseteq Names, \A n \in copied' : Recorded(ws, n)
    PROVE  IInv'
<1> USE DEF IInv
<1>1. /\ \A q \in Procs \ {p} : pc'[q] = pc[q] /\ job'[q] = job[q]
      /\ \/ pc'[p] = "idle" /\ job'[p] = NoJob
         \/ /\ pc'[p] = "finalized" /\ job'[p] = job[p] /\ job[p].op = "publish"
            /\ result'[p] = "applied"
      /\ \A q \in Procs \ {p} : result'[q] = result[q]
      /\ pc' \in [Procs -> Reviewed \cup {"idle", "surveyed"}]
      /\ job' = [q \in Procs |-> job'[q]] /\ result' = [q \in Procs |-> result'[q]]
  BY DEF TypeInv, Return, Goto, Report, Reviewed
<1>2. Applying = {p} /\ Applying' = {}
  BY <1>1 DEF Alone, Applying
<1>3. TypeInv'
  BY <1>1, NoJobShaped DEF TypeInv, Reviewed, Planned
<1>4. Alone' /\ Kept' /\ CopiesKept' /\ CopyIsRecorded'
  BY <1>2 DEF Alone, Kept, CopiesKept, CopyIsRecorded, Applying
<1>5. PublishesCompiled'
  BY <1>1 DEF PublishesCompiled, Reviewed
<1>6. PlansRecord'
  BY <1>1 DEF PlansRecord, Reviewed, CopiedBy
<1> QED
  BY <1>3, <1>4, <1>5, <1>6

\* A copy none of whose files differs from what the apply found.
LEMMA UntouchedCopy ==
    ASSUME IInv, NEW p \in Applying, NEW n \in copied,
           \A f \in Files : f[2] = n => ws[f] = job[p].found[f]
    PROVE  Recorded(ws, n)
<1>1. n \in Names /\ Recorded(job[p].found, n)
  BY DEF IInv, TypeInv, CopiesKept
<1>2. \A k \in Parts : ws[<<k, n>>] = job[p].found[<<k, n>>]
  BY <1>1, Paths
<1> QED
  BY <1>1, <1>2, RecordedLocal

LEMMA VerifyStep ==
    ASSUME IInv, NEW p \in Procs, Verify(p)
    PROVE  IInv'
<1>1. pc[p] = "writing" /\ UNCHANGED <<ws, up, overtaken>>
  BY DEF Verify
<1>2. CASE /\ ws = job[p].next /\ Finished(p, "applied")
           /\ holder' = NoProc /\ copied' = copied \cup CopiedBy(p)
  <2>1. Finished(p, "applied") /\ holder' = NoProc /\ copied' = copied \cup CopiedBy(p)
    BY <1>2
  <2>2. CopiedBy(p) \subseteq Names
    BY <1>1 DEF CopiedBy, IInv, TypeInv, Planned, Reviewed
  <2>3. \A n \in copied : Recorded(job[p].next, n)
    BY <1>1 DEF IInv, TypeInv, Alone, CopiesKept, PlansRecord, Applying, Reviewed
  <2>4. \A n \in copied' : Recorded(ws, n)
    BY <1>1, <1>2, <2>1, <2>3 DEF IInv, PlansRecord, Reviewed
  <2>5. copied' \subseteq Names
    BY <2>1, <2>2 DEF IInv, TypeInv
  <2> QED
    BY <1>1, <1>2, <2>1, <2>4, <2>5, LeaveStep DEF Finished
<1>3. CASE GiveUp(p, "failed") /\ UNCHANGED <<job, holder, copied>>
  <2>1. job = [job EXCEPT ![p]["backups"] = job[p].backups]
    BY DEF IInv, TypeInv, JobShaped
  <2>2. GiveUp(p, "failed") /\ UNCHANGED <<job, holder, copied>>
    BY <1>3
  <2> QED
    BY <1>1, <2>1, <2>2, ApplyStep DEF GiveUp, Goto, Report
<1> QED
  BY <1>2, <1>3 DEF Verify

LEMMA UndoStep ==
    ASSUME IInv, NEW p \in Procs, Undo(p)
    PROVE  IInv'
<1> DEFINE files == job[p].backups
<1>1. pc[p] = "undoing" /\ p \in Applying /\ UNCHANGED <<up, overtaken>>
  BY DEF Undo, Applying
<1>2. \A n \in copied \ {f[2] : f \in files} : Recorded(ws, n)
  BY <1>1, UntouchedCopy DEF IInv, CopiesKept
<1>3. copied \subseteq Names
  BY DEF IInv, TypeInv
<1>4. ASSUME files = {}, Return(p, result[p]), holder' = NoProc, UNCHANGED <<ws, copied>>
      PROVE  IInv'
  BY <1>1, <1>2, <1>3, <1>4, LeaveStep
<1>5. ASSUME ws' = [ws EXCEPT ![Last(files)] = Backup(p, Last(files))],
             Remember(p, "backups", files \ {Last(files)}),
             UNCHANGED <<pc, result, holder, copied>>
      PROVE  IInv'
  <2> DEFINE f == Last(files)
             b == files \ {f}
  <2>1. /\ ws' = [ws EXCEPT ![f] = job[p].found[f]]
        /\ job' = [job EXCEPT ![p]["backups"] = b] /\ \A g \in job[p].backups \ b : g = f
    BY <1>5 DEF Remember, Backup
  <2> HIDE DEF f, b
  <2> QED
    BY <1>1, <1>5, <2>1, ApplyStep
<1>6. ASSUME Return(p, "damaged"), holder' = NoProc,
             copied' = copied \ {f[2] : f \in files}, UNCHANGED ws
      PROVE  IInv'
  BY <1>1, <1>2, <1>3, <1>6, LeaveStep
<1> QED
  BY <1>4, <1>5, <1>6 DEF Undo

LEMMA CrashStep ==
    ASSUME IInv, NEW p \in Procs, Crash(p)
    PROVE  IInv'
<1>1. /\ Return(p, "dead") /\ UNCHANGED <<ws, up, overtaken>>
      /\ pc[p] \in {"writing", "undoing", "finalized"}
      /\ holder' = IF holder = p THEN NoProc ELSE holder
      /\ copied' = IF p \in Applying THEN copied \ {f[2] : f \in Changes(p)} ELSE copied
  BY DEF Crash
<1>2. CASE p \in Applying
  <2>1. holder = p /\ job[p].found = job[p].base /\ copied \subseteq Names
    BY <1>2 DEF Applying, IInv, Alone, TypeInv
  <2>2. \A n \in copied \ {f[2] : f \in Changes(p)} : Recorded(ws, n)
    <3> SUFFICES ASSUME NEW n \in copied \ {f[2] : f \in Changes(p)}
                 PROVE  Recorded(ws, n)
      OBVIOUS
    <3>1. \A f \in Files : f[2] = n => job[p].base[f] = job[p].next[f]
      BY DEF Changes
    <3>2. \A f \in Files : f[2] = n => ws[f] = job[p].found[f]
      BY <1>2, <2>1, <3>1 DEF IInv, CopiesKept
    <3> QED
      BY <1>2, <3>2, UntouchedCopy
  <2> QED
    BY <1>1, <1>2, <2>1, <2>2, LeaveStep DEF Applying
<1>3. CASE p \notin Applying
  <2>1. pc[p] = "finalized" /\ copied' = copied
    BY <1>1, <1>3 DEF Applying
  <2>2. holder' = holder
    BY <1>1, <1>3, RegistryAssumption DEF IInv, Alone
  <2> QED
    BY <1>1, <2>1, <2>2, QuietStep
<1> QED
  BY <1>2, <1>3

LEMMA ListStep ==
    ASSUME IInv, NEW p \in Procs, List(p)
    PROVE  IInv'
<1> USE DEF IInv
<1>1. pc[p] = "finalized" /\ UNCHANGED <<ws, up, holder, overtaken, copied>>
  BY DEF List, tree
<1>2. ASSUME Return(p, "nothing to commit")
      PROVE  IInv'
  BY <1>1, <1>2, QuietStep
<1>3. ASSUME Goto(p, "listed"), Remember(p, "listed", Pending), UNCHANGED result
      PROVE  IInv'
  <2>1. /\ pc'[p] = "listed" /\ \A q \in Procs \ {p} : pc'[q] = pc[q] /\ job'[q] = job[q]
        /\ job' = [q \in Procs |-> job'[q]]
        /\ pc' \in [Procs -> Reviewed \cup {"idle", "surveyed"}]
    BY <1>3 DEF TypeInv, Goto, Remember, Reviewed
  <2>2. job'[p] = [job[p] EXCEPT !.listed = Pending] /\ JobShaped(job[p])
    BY <1>3 DEF TypeInv, Remember
  <2>3. /\ JobShaped(job'[p])
        /\ job'[p].op = job[p].op /\ job'[p].target = job[p].target
        /\ job'[p].base = job[p].base /\ job'[p].next = job[p].next
    BY <2>2 DEF JobShaped
  <2>4. TypeInv'
    BY <1>1, <1>3, <2>1, <2>3 DEF TypeInv, Reviewed, Planned
  <2>5. Alone' /\ Kept'
    BY <1>1, <2>1 DEF Alone, Kept, Applying
  <2>6. PublishesCompiled'
    BY <1>1, <1>3, <2>1, <2>3 DEF PublishesCompiled, Reviewed
  <2>7. CopiedBy(p)' = CopiedBy(p)
    BY <2>3 DEF CopiedBy
  <2>8. PlansRecord'
    BY <1>1, <2>1, <2>3, <2>7 DEF PlansRecord, Reviewed, CopiedBy
  <2>9. Applying' = Applying
    BY <1>1, <2>1 DEF Applying
  <2>10. CopiesKept' /\ CopyIsRecorded'
    BY <1>1, <2>1, <2>9 DEF CopiesKept, CopyIsRecorded, Applying
  <2> QED
    BY <2>4, <2>5, <2>6, <2>8, <2>10
<1> QED
  BY <1>2, <1>3 DEF List

\* An edit beside an apply is remembered, and the copy it touches no longer counted.
LEMMA EditStep ==
    ASSUME IInv, Edit
    PROVE  IInv'
<1> USE DEF IInv
<1>1. PICK f, c : /\ f \in Files /\ EditTo(f, c)
                   /\ f[1] \in {"payload", "extra", "entry", "registry", "security"}
  BY Paths DEF Edit, Roots, Parts
<1>2. /\ ws' = [ws EXCEPT ![f] = c] /\ overtaken' = overtaken \cup Applying
      /\ copied' = copied \ {f[2]}
      /\ UNCHANGED <<up, holder, pc, job, result>>
  BY <1>1 DEF EditTo
<1>3. /\ ws' = [g \in Files |-> ws'[g]]
      /\ \A g \in Files : g # f => ws'[g] = ws[g]
  BY <1>2 DEF TypeInv, Snapshot
<1>4. Snapshot(ws)'
  <2>1. /\ ws'[<<"lock", 0>>] = ws[<<"lock", 0>>] /\ ws'[<<"index", 0>>] = ws[<<"index", 0>>]
        /\ \A n \in Names : ws'[<<"provenance", n>>] = ws[<<"provenance", n>>]
    BY <1>1, <1>3, Paths DEF Roots, Parts
  <2> QED
    BY <1>3, <2>1 DEF TypeInv, Snapshot, At, Has
<1>5. TypeInv'
  BY <1>2, <1>4 DEF TypeInv
<1>6. Applying' = Applying
  BY <1>2 DEF Applying
<1>7. Alone' /\ Kept'
  BY <1>2, <1>6 DEF Alone, Kept, Applying
<1>8. PublishesCompiled' /\ PlansRecord'
  BY <1>2 DEF PublishesCompiled, PlansRecord, CopiedBy
<1>9. CopiesKept'
  BY <1>2, <1>3, <1>6 DEF CopiesKept
<1>10. CopyIsRecorded'
  <2> SUFFICES ASSUME Applying = {}, NEW n \in copied \ {f[2]}
               PROVE  Recorded(ws', n)
    BY <1>2, <1>6 DEF CopyIsRecorded
  <2>1. n \in Names /\ Recorded(ws, n)
    BY DEF CopyIsRecorded, TypeInv
  <2>2. \A k \in Parts : ws'[<<k, n>>] = ws[<<k, n>>]
    BY <1>3, <2>1, Paths
  <2> QED
    BY <2>1, <2>2, RecordedLocal
<1> QED
  BY <1>5, <1>7, <1>8, <1>9, <1>10

LEMMA MoveStep ==
    ASSUME IInv, NEW n \in Names, Move(n)
    PROVE  IInv'
<1> USE DEF IInv
<1>1. /\ UNCHANGED <<ws, overtaken, copied, holder, pc, job, result>>
      /\ \E r \in Revs : up' = [up EXCEPT ![n] = r]
  BY DEF Move
<1>2. TypeInv'
  BY <1>1 DEF TypeInv
<1>3. Alone' /\ Kept' /\ PublishesCompiled' /\ PlansRecord' /\ CopiesKept' /\ CopyIsRecorded'
  BY <1>1 DEF Alone, Kept, PublishesCompiled, PlansRecord, CopiesKept, CopyIsRecorded,
              Applying, CopiedBy
<1> QED
  BY <1>2, <1>3

LEMMA StepIInv == IInv /\ [Next]_vars => IInv'
<1> SUFFICES ASSUME IInv, [Next]_vars PROVE IInv'
  OBVIOUS
<1>1. ASSUME NEW p \in Procs, NEW c \in Commands, NEW n \in Names \cup {0}, Survey(p, c, n)
      PROVE  IInv'
  BY <1>1, SurveyStep
<1>2. ASSUME NEW p \in Procs, Unreachable(p) \/ Abandon(p) \/ Commit(p)
      PROVE  IInv'
  <2>1. /\ \E r : Return(p, r)
        /\ pc[p] \notin {"writing", "undoing"}
        /\ UNCHANGED <<ws, up, holder, overtaken, copied>>
    BY <1>2 DEF Unreachable, Abandon, Commit, tree
  <2> QED
    BY <2>1, QuietStep
<1>3. ASSUME NEW p \in Procs, Prepare(p) PROVE IInv'
  BY <1>3, PrepareStep
<1>4. ASSUME NEW p \in Procs, Enter(p) PROVE IInv'
  BY <1>4, EnterStep
<1>5. ASSUME NEW p \in Procs, Write(p) PROVE IInv'
  BY <1>5, WriteStep
<1>6. ASSUME NEW p \in Procs, Verify(p) PROVE IInv'
  BY <1>6, VerifyStep
<1>7. ASSUME NEW p \in Procs, Undo(p) PROVE IInv'
  BY <1>7, UndoStep
<1>8. ASSUME NEW p \in Procs, Crash(p) PROVE IInv'
  BY <1>8, CrashStep
<1>9. ASSUME NEW p \in Procs, List(p) PROVE IInv'
  BY <1>9, ListStep
<1>10. CASE Edit
  BY <1>10, EditStep
<1>11. ASSUME NEW n \in Names, Move(n) PROVE IInv'
  BY <1>11, MoveStep
<1>12. CASE UNCHANGED vars
  BY <1>12 DEF vars, tree, IInv, TypeInv, Alone, Kept, PublishesCompiled, PlansRecord,
               CopiesKept, CopyIsRecorded, Applying, CopiedBy
<1> QED
  BY <1>1, <1>2, <1>3, <1>4, <1>5, <1>6, <1>7, <1>8, <1>9, <1>10, <1>11, <1>12 DEF Next

LEMMA RegistryInvariant == Spec => []IInv
BY InitIInv, StepIInv, PTL DEF Spec

-----------------------------------------------------------------------------
\* A vendored copy nobody edited is the copy its provenance records whenever no apply is
\* under way, for any number of maintainers, commands, edits, failures and crashes
\* (plan_artifact_vendor, plan_artifact_revendor, apply_reviewed_plan).
THEOREM RegistryCopiesRecorded == Spec => []CopyIsRecorded
<1>1. IInv => CopyIsRecorded
  BY DEF IInv
<1> QED
  BY <1>1, RegistryInvariant, PTL

\* The strict gates pass exactly the compiled checkouts among those whose graph and
\* packages load, whatever history led there (validate_registry_workspace,
\* audit_registry_workspace).
THEOREM RegistryGatesExact == Spec => []GatesAreExact
<1>1. IInv => GatesAreExact
  BY GatesExact DEF IInv, TypeInv, GatesAreExact
<1> QED
  BY <1>1, RegistryInvariant, PTL

\* An apply that reports a refusal or a failure left the checkout as it found it, unless
\* the operator edited beside it (_apply_locked, _rollback).
THEOREM RegistryRefusalsLeaveNothing == Spec => RefusedLeavesNothing
<1> DEFINE Leaves(p) ==
      /\ pc[p] \in {"writing", "undoing"} /\ pc'[p] = "idle"
      /\ result'[p] \in {"stale", "failed"}
      /\ p \notin overtaken
      => ws' = job[p].found
<1>1. ASSUME IInv, [Next]_vars, NEW p \in Procs
      PROVE  Leaves(p)
  <2> SUFFICES ASSUME pc[p] \in {"writing", "undoing"}, pc'[p] = "idle",
                      result'[p] \in {"stale", "failed"}, p \notin overtaken
               PROVE  ws' = job[p].found
    OBVIOUS
  <2>0. /\ pc = [q \in Procs |-> pc[q]] /\ result = [q \in Procs |-> result[q]]
        /\ job = [q \in Procs |-> job[q]]
    BY <1>1 DEF IInv, TypeInv
  <2>1. ~\E q \in Procs, c \in Commands, n \in Names \cup {0} : Survey(q, c, n)
    BY <2>0 DEF Survey, Goto
  <2>2. ~\E q \in Procs : Unreachable(q) \/ Prepare(q) \/ Abandon(q) \/ Enter(q) \/ List(q)
                          \/ Commit(q)
    BY <2>0 DEF Unreachable, Prepare, Abandon, Enter, List, Commit, Return, Finished, Goto
  <2>3. ~\E q \in Procs : Write(q)
    BY <2>0 DEF Write, GiveUp, Goto
  <2>4. ~\E q \in Procs : Verify(q)
    BY <2>0 DEF Verify, GiveUp, Finished, Return, Report, Goto
  <2>5. ~\E q \in Procs : Crash(q)
    BY <2>0 DEF Crash, Return, Report, Goto
  <2>6. ~Edit /\ ~\E n \in Names : Move(n)
    BY DEF Edit, EditTo, Move
  <2>7. ASSUME NEW q \in Procs, Undo(q)
        PROVE  ws' = job[p].found
    <3>1. q = p /\ job[p].backups = {} /\ ws' = ws
      BY <2>0, <2>7 DEF Undo, Return, Report, Goto
    <3>2. \A f \in Files : ws[f] = job[p].found[f]
      BY <1>1, <3>1 DEF IInv, Kept
    <3>3. ws = [f \in Files |-> ws[f]] /\ job[p].found = [f \in Files |-> job[p].found[f]]
      BY <1>1 DEF IInv, TypeInv, Snapshot, Alone, Planned, Reviewed
    <3> QED
      BY <3>1, <3>2, <3>3
  <2>8. ~UNCHANGED vars
    BY DEF vars
  <2> QED
    BY <1>1, <2>1, <2>2, <2>3, <2>4, <2>5, <2>6, <2>7, <2>8 DEF Next
<1>2. IInv /\ [Next]_vars => [\A p \in Procs : Leaves(p)]_vars
  BY <1>1
<1> QED
  BY <1>2, RegistryInvariant, PTL DEF Spec, RefusedLeavesNothing

\* An apply that reports success leaves the reviewed snapshot, reached from the very
\* checkout that was reviewed (_apply_locked).
THEOREM RegistryAppliesReviewed == Spec => AppliedIsReviewed
<1> DEFINE Applies(p) ==
      pc[p] = "writing" /\ result'[p] = "applied" /\ pc'[p] # "writing"
      => ws' = job[p].next /\ job[p].found = job[p].base
<1>1. ASSUME IInv, [Next]_vars, NEW p \in Procs
      PROVE  Applies(p)
  <2> SUFFICES ASSUME pc[p] = "writing", result'[p] = "applied", pc'[p] # "writing"
               PROVE  ws' = job[p].next /\ job[p].found = job[p].base
    OBVIOUS
  <2>0. /\ pc = [q \in Procs |-> pc[q]] /\ result = [q \in Procs |-> result[q]]
        /\ job = [q \in Procs |-> job[q]] /\ job[p].found = job[p].base
    BY <1>1 DEF IInv, TypeInv, Alone
  <2>1. ~\E q \in Procs, c \in Commands, n \in Names \cup {0} : Survey(q, c, n)
    BY <2>0 DEF Survey, Goto
  <2>2. ~\E q \in Procs : Unreachable(q) \/ Prepare(q) \/ Abandon(q) \/ Enter(q) \/ List(q)
                          \/ Commit(q)
    BY <2>0 DEF Unreachable, Prepare, Abandon, Enter, List, Commit, Return, Finished, Goto
  <2>3. ~\E q \in Procs : Write(q)
    BY <2>0 DEF Write, GiveUp, Goto, Report
  <2>4. ASSUME NEW q \in Procs, Verify(q)
        PROVE  ws' = job[p].next
    BY <2>0, <2>4 DEF Verify, GiveUp, Finished, Return, Report, Goto
  <2>5. ~\E q \in Procs : Undo(q) \/ Crash(q)
    BY <2>0 DEF Undo, Crash, Return, Report, Goto
  <2>6. ~Edit /\ ~\E n \in Names : Move(n)
    BY DEF Edit, EditTo, Move
  <2>7. ~UNCHANGED vars
    BY DEF vars
  <2> QED
    BY <1>1, <2>0, <2>1, <2>2, <2>3, <2>4, <2>5, <2>6, <2>7 DEF Next
<1>2. IInv /\ [Next]_vars => [\A p \in Procs : Applies(p)]_vars
  BY <1>1
<1> QED
  BY <1>2, RegistryInvariant, PTL DEF Spec, AppliedIsReviewed

\* A publish whose checkout nobody touched between its apply and its commit commits a
\* compiled registry (_prepare_publish, _run_publish).
THEOREM RegistryCommitsCompiled == Spec => CommitIsCompiled
<1> DEFINE Commits(p) ==
      pc[p] = "listed" /\ result'[p] = "committed" /\ ws = job[p].next => Compiled(head')
<1>1. ASSUME IInv, [Next]_vars, NEW p \in Procs
      PROVE  Commits(p) \/ UNCHANGED vars
  <2> SUFFICES ASSUME pc[p] = "listed", result'[p] = "committed", ws = job[p].next,
                      ~UNCHANGED vars
               PROVE  Compiled(head')
    OBVIOUS
  <2>0. /\ pc = [q \in Procs |-> pc[q]] /\ result = [q \in Procs |-> result[q]]
        /\ Compiled(ws)
    BY <1>1 DEF IInv, TypeInv, PublishesCompiled, Reviewed
  <2>1. result[p] # "committed"
    BY <1>1 DEF IInv, PublishesCompiled
  <2>2. ~\E q \in Procs, c \in Commands, n \in Names \cup {0} : Survey(q, c, n)
    BY <2>0, <2>1 DEF Survey
  <2>3. ~\E q \in Procs : Unreachable(q) \/ Prepare(q) \/ Abandon(q) \/ Enter(q)
    BY <2>0, <2>1 DEF Unreachable, Prepare, Abandon, Enter, Return, Finished, Report
  <2>4. ~\E q \in Procs : Write(q) \/ Verify(q) \/ Undo(q) \/ Crash(q)
    BY <2>0, <2>1 DEF Write, Verify, Undo, Crash, GiveUp, Return, Finished, Report
  <2>5. ~\E q \in Procs : List(q)
    BY <2>0, <2>1 DEF List, Return, Report
  <2>6. ASSUME NEW q \in Procs, Commit(q)
        PROVE  head' = ws
    BY <2>0, <2>1, <2>6 DEF Commit, Return, Report
  <2>7. ~Edit /\ ~\E n \in Names : Move(n)
    BY <2>1 DEF Edit, EditTo, Move
  <2> QED
    BY <1>1, <2>0, <2>2, <2>3, <2>4, <2>5, <2>6, <2>7 DEF Next
<1>2. IInv /\ [Next]_vars => [\A p \in Procs : Commits(p)]_vars
  BY <1>1
<1> QED
  BY <1>2, RegistryInvariant, PTL DEF Spec, CommitIsCompiled
=============================================================================
