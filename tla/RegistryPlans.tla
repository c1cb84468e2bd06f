---------------------------- MODULE RegistryPlans ----------------------------
(***************************************************************************)
(* What each curation command plans over one snapshot of a registry        *)
(* checkout: registry_commands/planning.py, registry_maintenance and the   *)
(* gates of curation/runtime.py.  A snapshot maps every modelled file to   *)
(* its content; a plan is the snapshot it would leave, or NoPlan when the  *)
(* command refuses.  A digest is the value it is computed from.            *)
(***************************************************************************)
EXTENDS Naturals, FiniteSets

CONSTANTS
    Names,      \* artifact names, numbered in path order
    ExecRevs,   \* the upstream revisions whose payload file is executable
    Undelivered,  \* the payloads that launch a file no consumer receives
    NoFile,     \* the content of a path that does not exist
    NoPlan      \* the command refuses, or only reports

Roots == {"template", "registry", "source", "index", "lock", "collection", "security"}
Parts == {"artifact", "extra", "payload", "provenance"}
Files == (Roots \X {0}) \cup ((Parts \cup {"entry", "evidence"}) \X Names)

\* The revision number of a payload the operator wrote.
Tampered == 99

At(s, kind, n) == s[<<kind, n>>]
Has(s, kind, n) == At(s, kind, n) # NoFile

\* Upstream's second file exists in every other revision, so that a movement can
\* add a file and remove one.
TakenExtra(r) == IF r % 2 = 0 THEN r ELSE NoFile

\* The executable bit travels with the payload of some revisions.
Executable(f, c) == f[1] = "payload" /\ c \in ExecRevs

\* The order of the changes of a plan: sorted paths.
Rank(f) == CASE f[1] = "template" -> 0 [] f[1] = "registry" -> 1
             [] f[1] = "source" -> 2   [] f[1] = "index" -> 3
             [] f[1] = "lock" -> 4     [] f[1] = "artifact" -> 10 * f[2]
             [] f[1] = "extra" -> 10 * f[2] + 1
             [] f[1] = "payload" -> 10 * f[2] + 2
             [] f[1] = "provenance" -> 10 * f[2] + 3
             [] f[1] = "collection" -> 1000
             [] f[1] = "entry" -> 1000 + f[2]
             [] f[1] = "security" -> 3000 [] OTHER -> 2000 + f[2]

\* Only the inputs are hashed, JSON ones in canonical form.
InputFiles ==
    {f \in Files : f[1] \notin {"template", "lock", "index", "evidence", "security"}}
Inputs(s) ==
    [f \in InputFiles |-> IF f[1] \in {"registry", "source"} /\ s[f] = "loose"
                          THEN "canonical" ELSE s[f]]

Entries(s) == {n \in Names : Has(s, "entry", n)}
Unapproved(s) == {n \in Entries(s) : At(s, "entry", n) # "approved"}
Ready(s) == Has(s, "registry", 0) /\ Has(s, "source", 0)

PackageFiles(s, n) == {k \in Parts : Has(s, k, n)}
Owned(s) == {n \in Names : PackageFiles(s, n) # {}}

\* The owned packages load: each has its manifest, the setup recipe that manifest declares
\* (one file here) and its primary payload document.
NativeOk(s) ==
    /\ Ready(s)
    /\ \A n \in Owned(s) : Has(s, "artifact", n) /\ Has(s, "payload", n)

OwnedObject(s, n) ==
    [by |-> "owned", version |-> At(s, "artifact", n), body |-> At(s, "payload", n),
     extra |-> At(s, "extra", n), provenance |-> At(s, "provenance", n)]
ReferencedObject(r) ==
    [by |-> "reference", version |-> r, body |-> r, extra |-> TakenExtra(r),
     provenance |-> NoFile]

-----------------------------------------------------------------------------
\* Vendored copies and the record they carry.

Vendored(s) == {n \in Names : Has(s, "artifact", n) /\ Has(s, "provenance", n)}

CopyDigest(s, n) ==
    <<At(s, "payload", n),
      IF At(s, "provenance", n).authored THEN NoFile ELSE At(s, "extra", n)>>
CopyMatches(s, n) == CopyDigest(s, n) = At(s, "provenance", n).digest

Taken(r) == <<r, TakenExtra(r)>>

\* A taken byte is never overwritten by an authored file: a collision refuses.
Collides(s, n, r) == Has(s, "payload", n) \/ (Has(s, "extra", n) /\ TakenExtra(r) # NoFile)

Unrecorded_Projected(s, n, r, authored) ==
    LET attested == IF Has(s, "evidence", n) THEN At(s, "evidence", n) ELSE {}
    IN  [s EXCEPT ![<<"artifact", n>>] = r,
                  ![<<"payload", n>>] = r,
                  ![<<"extra", n>>] = IF authored THEN @ ELSE TakenExtra(r),
                  ![<<"provenance", n>>] = IF @ # NoFile THEN @
                                           ELSE [digest |-> Taken(r), authored |-> authored],
                  ![<<"evidence", n>>] = attested \cup {r}]

\* The files of the vendored package, and the assessment committed beside it.
Projected(s, n, r, authored) ==
    LET attested == IF Has(s, "evidence", n) THEN At(s, "evidence", n) ELSE {}
    IN  [s EXCEPT ![<<"artifact", n>>] = r,
                  ![<<"payload", n>>] = r,
                  ![<<"extra", n>>] = IF authored THEN @ ELSE TakenExtra(r),
                  ![<<"provenance", n>>] = [digest |-> Taken(r), authored |-> authored],
                  ![<<"evidence", n>>] = attested \cup {r}]

Vendor(s, n, r) ==
    IF ~Has(s, "source", 0) \/ Has(s, "artifact", n) \/ Collides(s, n, r)
    THEN NoPlan
    ELSE Projected(s, n, r, Has(s, "extra", n))

\* One acquisition, every accepted copy projected over the one before, one plan.
VendorBatch(s, S, got) ==
    IF \E n \in S : Vendor(s, n, got[n]) = NoPlan
    THEN NoPlan
    ELSE [f \in Files |-> IF f[2] \in S THEN Vendor(s, f[2], got[f[2]])[f] ELSE s[f]]

UnchangedIntegrity(s, n) == Has(s, "payload", n) /\ CopyMatches(s, n)

\* What upstream means for one copy.
Drift(s, n, r) == IF CopyDigest(s, n) = Taken(r) THEN "up-to-date" ELSE "changed"

\* Without a stated version the movement is only reported.  The whole package is
\* projected again, and what the copy no longer names is pruned under its directory.
Revendor(s, n, r, stated) ==
    IF \/ n \notin Vendored(s)
       \/ ~UnchangedIntegrity(s, n)
       \/ Drift(s, n, r) = "up-to-date"
       \/ ~stated
       \/ At(s, "provenance", n).authored
            /\ (~Has(s, "extra", n) \/ TakenExtra(r) # NoFile)
    THEN NoPlan
    ELSE Projected(s, n, r, At(s, "provenance", n).authored)

-----------------------------------------------------------------------------
\* Authoring commands.

InitRegistry(s) ==
    IF \/ \E k \in {"registry", "source", "lock", "index"} : Has(s, k, 0)
       \/ At(s, "template", 0) \notin {NoFile, "standard"}
    THEN NoPlan
    ELSE [s EXCEPT ![<<"template", 0>>] = "standard",
                   ![<<"registry", 0>>] = "canonical", ![<<"source", 0>>] = "canonical"]

Scaffold(s, n) ==
    IF ~Has(s, "source", 0) \/ n \in Owned(s)
    THEN NoPlan
    ELSE [s EXCEPT ![<<"artifact", n>>] = 0, ![<<"payload", n>>] = 0]

Collection(s, members) ==
    IF ~NativeOk(s) \/ ~(members \subseteq Owned(s) \cup Entries(s))
    THEN NoPlan
    ELSE [s EXCEPT ![<<"collection", 0>>] = members]

Format(s) ==
    IF ~Has(s, "source", 0)
    THEN NoPlan
    ELSE [f \in Files |-> IF f[1] \in {"registry", "source"} /\ s[f] = "loose"
                          THEN "canonical" ELSE s[f]]

-----------------------------------------------------------------------------
\* Lock, index and the native references between them.

LockedEntry(s, n, r) == [rev |-> r, review |-> At(s, "entry", n)]

LockOf(s, got) == [inputs |-> Inputs(s),
                   locked |-> [n \in Entries(s) |-> LockedEntry(s, n, got[n])]]

\* Every entry approved and exactly one acquisition for each.
Lock(s, got) ==
    IF ~NativeOk(s) \/ Unapproved(s) # {} \/ DOMAIN got # Entries(s)
    THEN NoPlan
    ELSE [s EXCEPT ![<<"lock", 0>>] = LockOf(s, got)]

\* Committed references resolve from a lock of these very inputs only.
LockResolves(s) ==
    /\ At(s, "lock", 0).inputs = Inputs(s)
    /\ \A n \in Entries(s) :
         /\ n \in DOMAIN At(s, "lock", 0).locked
         /\ At(s, "lock", 0).locked[n].review = At(s, "entry", n)
         /\ At(s, "entry", n) = "approved"

\* The index validates its graph: one object for each identity, no dangling member.
GraphOk(s) ==
    /\ Owned(s) \cap Entries(s) = {}
    /\ Has(s, "collection", 0) => At(s, "collection", 0) \subseteq Owned(s) \cup Entries(s)

IndexOf(s, rev) ==
    [inputs |-> Inputs(s), collection |-> At(s, "collection", 0),
     objects |-> [n \in Owned(s) \cup Entries(s) |->
                    IF n \in Owned(s) THEN OwnedObject(s, n) ELSE ReferencedObject(rev[n])]]

Build(s, got) ==
    IF \/ ~Ready(s) \/ ~Has(s, "lock", 0)
       \/ ~LockResolves(s)
       \/ DOMAIN got # Entries(s)
       \/ ~NativeOk(s)
       \/ \E n \in Entries(s) : At(s, "lock", 0).locked[n] # LockedEntry(s, n, got[n])
       \/ ~GraphOk(s)
    THEN NoPlan
    ELSE [s EXCEPT ![<<"index", 0>>] = IndexOf(s, got)]

Lenient_IndexAgrees(s) ==
    LET objects == At(s, "index", 0).objects
    IN  /\ DOMAIN objects = DOMAIN At(s, "lock", 0).locked \cup Owned(s)
        /\ \A n \in Owned(s) : objects[n] = OwnedObject(s, n)
        /\ At(s, "index", 0).collection = At(s, "collection", 0)

\* The index speaks of the objects the lock pins and of the owned packages, and of no more.
IndexAgrees(s) ==
    LET objects == At(s, "index", 0).objects
        locked == At(s, "lock", 0).locked
    IN  /\ DOMAIN objects = DOMAIN locked \cup Owned(s)
        /\ \A n \in DOMAIN locked : objects[n] = ReferencedObject(locked[n].rev)
        /\ \A n \in Owned(s) : objects[n] = OwnedObject(s, n)
        /\ At(s, "index", 0).collection = At(s, "collection", 0)

\* The workspace the committed lock is to be read against while n is promoted: an
\* entry not locked yet is left out, one whose review moved has its locked review.
BeforePromotion(s, n) ==
    LET locked == IF Has(s, "lock", 0) THEN At(s, "lock", 0).locked ELSE << >>
    IN  IF n \in Entries(s) /\ n \notin DOMAIN locked
        THEN [s EXCEPT ![<<"entry", n>>] = NoFile]
        ELSE IF n \in DOMAIN locked
             THEN [s EXCEPT ![<<"entry", n>>] = locked[n].review]
             ELSE s

\* The state _existing_reference_state accepts: lock and index are both those of the
\* workspace before this promotion.
ReferencesCurrent(s, n) ==
    LET before == BeforePromotion(s, n)
        locked == IF Has(s, "lock", 0) THEN DOMAIN At(s, "lock", 0).locked ELSE {}
    IN  /\ locked \subseteq Entries(s)
        /\ Has(s, "lock", 0) => At(s, "lock", 0).inputs = Inputs(before)
        /\ Entries(before) # {} =>
             /\ Has(s, "lock", 0) /\ Has(s, "index", 0)
             /\ LockResolves(before)
        /\ locked = Entries(before)
        /\ Has(s, "index", 0) =>
             /\ At(s, "index", 0).inputs = Inputs(before)
             /\ Has(s, "lock", 0) => IndexAgrees(before)
             /\ ~Has(s, "lock", 0) =>
                  /\ At(s, "index", 0).objects = [m \in Owned(s) |-> OwnedObject(s, m)]
                  /\ At(s, "index", 0).collection = At(s, "collection", 0)

\* Entry, lock and index in one plan; a refresh promotes the entry again as it stands.
Promote(s, n, r, review) ==
    LET kept == IF Has(s, "lock", 0) THEN At(s, "lock", 0).locked ELSE << >>
        added == [s EXCEPT ![<<"entry", n>>] = review]
        locked == [m \in DOMAIN kept \cup {n} |->
                     IF m = n THEN [rev |-> r, review |-> review] ELSE kept[m]]
        rev == [m \in DOMAIN locked |-> locked[m].rev]
    IN  IF \/ ~Ready(s) \/ review # "approved"
           \/ Has(s, "artifact", n)
           \/ ~NativeOk(s)
           \/ ~ReferencesCurrent(s, n)
           \/ ~GraphOk(added)
        THEN NoPlan
        ELSE [added EXCEPT ![<<"lock", 0>>] = [inputs |-> Inputs(added), locked |-> locked],
                           ![<<"index", 0>>] = IndexOf(added, rev)]

Refresh(s, n, r) ==
    IF n \notin Entries(s) THEN NoPlan ELSE Promote(s, n, r, At(s, "entry", n))

-----------------------------------------------------------------------------
\* The gates.

\* Errors of registry validate; strict also asks for lock and index.
Validate(s, strict) ==
    IF ~Ready(s) THEN {"inputs"}
    ELSE {e \in {"copy", "native", "uncompiled", "lock", "index", "agreement"} :
            CASE e = "copy" -> \E n \in Vendored(s) : ~UnchangedIntegrity(s, n)
              [] e = "native" -> ~NativeOk(s)
              [] e = "uncompiled" -> strict /\ ~(Has(s, "lock", 0) /\ Has(s, "index", 0))
              [] e = "lock" -> Has(s, "lock", 0) /\ ~LockResolves(s)
              [] e = "index" -> Has(s, "index", 0) /\
                                  (At(s, "index", 0).inputs # Inputs(s) \/ ~Has(s, "lock", 0))
              [] e = "agreement" -> /\ Has(s, "index", 0) /\ Has(s, "lock", 0)
                                    /\ NativeOk(s) /\ ~IndexAgrees(s)}

\* The index of assessments an operator's own tool commits as security/index.json: what it
\* says of the objects of a compiled index, or a document that does not verify.
SecurityIndex(index, state) ==
    [state |-> state, inputs |-> index.inputs,
     objects |-> {index.objects[n] : n \in DOMAIN index.objects}]

\* It verifies, belongs to the compiled index beside it, covers its objects and no others,
\* and calls none of them critical.
SecurityPasses(s) ==
    /\ Has(s, "index", 0)
    /\ At(s, "security", 0) = SecurityIndex(At(s, "index", 0), "clean")

\* Errors of registry audit; its warnings gate nothing.  A setup recipe that is declared
\* and missing, which it reports once more, already keeps the package from loading.
Audit(s) ==
    IF ~Ready(s) THEN {"inputs"}
    ELSE {e \in {"native", "approval", "unlocked", "identities", "copy", "delivery",
                 "security"} :
            CASE e = "native" -> ~NativeOk(s)
              [] e = "approval" -> Unapproved(s) # {}
              [] e = "unlocked" -> Entries(s) # {} /\ ~Has(s, "lock", 0)
              [] e = "identities" -> /\ Has(s, "lock", 0)
                                     /\ DOMAIN At(s, "lock", 0).locked # Entries(s)
              [] e = "copy" -> \E n \in Vendored(s) : ~UnchangedIntegrity(s, n)
              [] e = "delivery" -> \E n \in Names : /\ Has(s, "artifact", n)
                                                    /\ At(s, "payload", n) \in Undelivered
              [] e = "security" -> Has(s, "security", 0) /\ ~SecurityPasses(s)}

Ungated_Publish(s, got) ==
    LET locked == Lock(s, got) IN IF locked = NoPlan THEN NoPlan ELSE Build(locked, got)

\* Lock, build and both gates over the one projected result, in one plan.
Publish(s, got) ==
    LET locked == Lock(s, got)
        built == IF locked = NoPlan THEN NoPlan ELSE Build(locked, got)
    IN  IF built = NoPlan THEN NoPlan
        ELSE IF Validate(built, TRUE) \cup Audit(built) # {} THEN NoPlan ELSE built
=============================================================================
