-------------------------- MODULE ConfigCasProofs --------------------------
(***************************************************************************)
(* The configuration: how it is written, what is written, and what leaves  *)
(* the machine under it.                                                   *)
(*                                                                         *)
(* For any number of writers and every fault of the model, the checked     *)
(* writer loses no update, provided one process at a time waits out a      *)
(* stale lock.  The release removes the lock path without looking whose it *)
(* is, so the core of the argument is that a writer's own lock stays under *)
(* the path until it releases it.  The two parts after it take the         *)
(* decisions of Management and Reporting.                                  *)
(***************************************************************************)
EXTENDS ConfigCas, Management, Reporting, FiniteSetTheorems, FunctionTheorems, TLAPS

\* At most one writer may meet a lock older than stale_after_seconds.
LoneReclaimer == \A v, w \in Reclaimers : v = w

\* Whoever is between acquire and release has its own lock under the path.
HolderOwns ==
    \A w \in running : pc[w] \in Locked => Present /\ lock.owner = w

\* The directory a writer has just made is still there and has no owner yet.
MakerKeeps ==
    \A w \in running : pc[w] = "made" =>
        Present /\ lock.maker = w /\ lock.owner = NoOwner

\* What was judged stale still is: the lock of a process that is gone.
StaleIsDead ==
    \A w \in running : pc[w] = "stale" =>
        w \in Reclaimers /\ Present /\ lock.owner \in Writers \ running

\* A writer about to replace the configuration still has its very content.
ReviewedIsCurrent ==
    \A w \in running : pc[w] = "replace" => config = seen[w]

IInv ==
    /\ TypeOK
    /\ HolderOwns
    /\ MakerKeeps
    /\ StaleIsDead
    /\ ReviewedIsCurrent

-----------------------------------------------------------------------------
\* Every step of the checked writer, and the environment's, keeps the types.
LEMMA TypeStep == TypeOK /\ [Next]_vars => TypeOK'
<1> SUFFICES ASSUME TypeOK, [Next]_vars PROVE TypeOK'
  OBVIOUS
<1> USE ConfigConstants DEF TypeOK, Present, At, Goto, PCs, Locked, Directory, Contents
<1>1. CASE Age
  BY <1>1 DEF Age
<1>2. ASSUME NEW w \in Writers, Step(w) PROVE TypeOK'
  <2>1. CASE Load(w)
    BY <2>1 DEF Load
  <2>2. CASE Mkdir(w)
    BY <2>2 DEF Mkdir
  <2>3. CASE WriteOwner(w)
    <3>1. ASSUME NEW o \in {NoOwner, Torn, w}, Present,
                 lock' = [lock EXCEPT !.owner = o]
          PROVE  lock' \in Directory
      BY <3>1
    <3>2. lock' \in Directory \cup {NoLock}
      BY <2>3, <3>1 DEF WriteOwner
    <3> QED
      BY <2>3, <3>2 DEF WriteOwner
  <2>4. CASE Inspect(w)
    BY <2>4 DEF Inspect
  <2>5. CASE Reclaim(w) \/ Retry(w)
    BY <2>5 DEF Reclaim, Retry
  <2>6. CASE Compare(w)
    BY <2>6 DEF Compare
  <2>7. CASE Replace(w)
    BY <2>7 DEF Replace, Replacement, Has
  <2>8. CASE Release(w)
    <3>1. lock' \in Directory \cup {NoLock}
      BY <2>8 DEF Release
    <3> QED
      BY <2>8, <3>1 DEF Release
  <2> QED
    BY <1>2, <2>1, <2>2, <2>3, <2>4, <2>5, <2>6, <2>7, <2>8 DEF Step
<1>3. ASSUME NEW w \in Writers, MkdirFails(w) \/ ReclaimFails(w) PROVE TypeOK'
  BY <1>3 DEF MkdirFails, ReclaimFails
<1>4. ASSUME NEW w \in Writers, Crash(w) PROVE TypeOK'
  BY <1>4 DEF Crash
<1>5. CASE UNCHANGED vars
  BY <1>5 DEF vars
<1> QED
  BY <1>1, <1>2, <1>3, <1>4, <1>5 DEF Next

\* With one reclaimer, every step keeps each writer's lock and review.
LEMMA InvStep == LoneReclaimer /\ IInv /\ [Next]_vars => IInv'
<1> SUFFICES ASSUME LoneReclaimer, IInv, [Next]_vars PROVE IInv'
  OBVIOUS
<1>t. TypeOK'
  BY TypeStep DEF IInv
<1> USE ConfigConstants, <1>t
    DEF LoneReclaimer, IInv, TypeOK, HolderOwns, MakerKeeps, StaleIsDead,
        ReviewedIsCurrent, Present, At, Goto, PCs, Locked, Directory
<1>1. CASE Age
  BY <1>1 DEF Age
<1>2. ASSUME NEW w \in Writers, Step(w) PROVE IInv'
  <2>1. CASE Load(w)
    BY <2>1 DEF Load
  <2>2. CASE Mkdir(w)
    BY <2>2 DEF Mkdir
  <2>3. CASE WriteOwner(w)
    BY <2>3 DEF WriteOwner
  <2>4. CASE Inspect(w)
    BY <2>4 DEF Inspect, Stale
  <2>5. CASE Reclaim(w)
    BY <2>5 DEF Reclaim
  <2>6. CASE Retry(w)
    BY <2>6 DEF Retry
  <2>7. CASE Compare(w)
    BY <2>7 DEF Compare
  <2>8. CASE Replace(w)
    BY <2>8 DEF Replace
  <2>9. CASE Release(w)
    BY <2>9 DEF Release
  <2> QED
    BY <1>2, <2>1, <2>2, <2>3, <2>4, <2>5, <2>6, <2>7, <2>8, <2>9 DEF Step
<1>3. ASSUME NEW w \in Writers, MkdirFails(w) \/ ReclaimFails(w) PROVE IInv'
  BY <1>3 DEF MkdirFails, ReclaimFails
<1>4. ASSUME NEW w \in Writers, Crash(w) PROVE IInv'
  BY <1>4 DEF Crash
<1>5. CASE UNCHANGED vars
  BY <1>5 DEF vars
<1> QED
  BY <1>1, <1>2, <1>3, <1>4, <1>5 DEF Next

\* The first state satisfies the invariant.
LEMMA InvInit == Init => IInv
BY ConfigConstants DEF Init, IInv, TypeOK, HolderOwns, MakerKeeps, StaleIsDead,
   ReviewedIsCurrent, PCs, Locked, Contents

-----------------------------------------------------------------------------
\* At most one writer is between acquire and release of the configuration
\* lock, although the release checks no token and reclaiming is two calls.
THEOREM ConfigSerializes == LoneReclaimer => (Spec => []OneWriter)
<1> SUFFICES ASSUME LoneReclaimer PROVE Spec => []OneWriter
  OBVIOUS
<1>1. IInv => OneWriter
  BY DEF IInv, HolderOwns, OneWriter
<1>2. IInv /\ [Next]_vars => IInv'
  BY InvStep
<1> QED
  BY InvInit, <1>1, <1>2, PTL DEF Spec

\* The checked write never undoes another command's change: the comparison
\* under the lock makes a content reviewed without it safe to replace.
THEOREM ConfigLosesNothing == LoneReclaimer => (Spec => NoLostUpdate)
<1> SUFFICES ASSUME LoneReclaimer PROVE Spec => NoLostUpdate
  OBVIOUS
<1> DEFINE Own == \A w \in Writers : (w \in Has(config)) # (w \in Has(config')) =>
                     w \in running /\ pc[w] = "replace" /\ pc'[w] = "release"
<1>1. IInv /\ [Next]_vars => [Own]_vars
  <2> SUFFICES ASSUME IInv, Next, config' # config PROVE Own
    BY DEF vars
  <2>1. PICK w \in Writers : Replace(w)
    BY DEF Next, Age, Step, Load, Mkdir, WriteOwner, Inspect, Reclaim, Retry, Compare,
       Release, MkdirFails, ReclaimFails, Crash
  <2>2. config = seen[w] /\ config' = Replacement(w)
    BY <2>1 DEF Replace, At, IInv, ReviewedIsCurrent
  <2>3. Has(config') = config'
    BY <2>2, ConfigConstants DEF Replacement, Has, IInv, TypeOK, Contents
  <2>4. \A v \in Writers \ {w} : v \in Has(config) <=> v \in Has(config')
    BY <2>2, <2>3 DEF Replacement
  <2> QED
    BY <2>1, <2>4 DEF Replace, At, Goto, IInv, TypeOK
<1>2. IInv /\ [Next]_vars => IInv'
  BY InvStep
<1> QED
  BY InvInit, <1>1, <1>2, PTL DEF Spec, NoLostUpdate

(***************************************************************************)
(* Source management: what a command writes, a later command can read.     *)
(***************************************************************************)

\* A source as the parser leaves it.
Settled(s) == s \in SourceInputs /\ s # None /\ ConfiguredSourceFromInput(s) = s

\* What holds of sources and settings that were read from a document, or made from
\* such by a command of source management, before the policy is asked.
Drafted(c) ==
    /\ c \in UserConfigurations
    /\ IsFiniteSet(c.sources)
    /\ \A s \in c.sources : Settled(s)
    /\ SourcesValid(c.sources)
    /\ SyncValid(c.sync) /\ ReportingValid(c.reporting)
    /\ c.sync = None => c.sync = DefaultUserConfiguration.sync
    /\ c.reporting = None => c.reporting = DefaultUserConfiguration.reporting

\* The document on disk is one a user may have, with finitely many sources.
Kept(d) == d = None \/ (d \in UserConfigurations /\ IsFiniteSet(d.sources))

ManagementInv ==
    /\ Kept(document)
    /\ wrote # None => document # None
    /\ WrittenIsReadable
    /\ InstallStateValid(manifest)

\* A finite set is counted by a key that tells its elements apart.
LEMMA KeysCount ==
    ASSUME NEW S, IsFiniteSet(S), \A s, t \in S : s.alias = t.alias => s = t
    PROVE  Cardinality({s.alias : s \in S}) = Cardinality(S)
<1> DEFINE T == {s.alias : s \in S}
           f == [s \in S |-> s.alias]
<1>1. f \in Bijection(S, T)
  BY DEF Bijection, Injection, Surjection, IsInjective
<1>2. ExistsBijection(S, T)
  BY <1>1 DEF ExistsBijection
<1> QED BY <1>2, FS_Bijection

\* What a parsed source is parsed into.
LEMMA SettledOnce ==
    ASSUME NEW s \in SourceInputs, ConfiguredSourceFromInput(s) # None
    PROVE  /\ Settled(ConfiguredSourceFromInput(s))
           /\ ConfiguredSourceFromInput(s).alias = s.alias
<1> DEFINE u == ConfiguredSourceFromInput(s)
<1>1. u = [s EXCEPT !.ref = IF s.kind # "source-local" /\ s.ref = None THEN "main" ELSE s.ref]
      /\ u.location.safe
      /\ IF u.kind = "source-local" THEN u.ref = None ELSE u.ref # "unsafe"
  BY DEF ConfiguredSourceFromInput, SourceInputs
<1>2. u \in SourceInputs
  BY <1>1, SettingsAssumption DEF SourceInputs
<1>3. u.alias = s.alias
  BY <1>1 DEF SourceInputs
<1>4. u.kind # "source-local" => u.ref # None
  BY <1>1, SettingsAssumption, NoneAssumption DEF SourceInputs
<1>5. [u EXCEPT !.ref = IF u.kind # "source-local" /\ u.ref = None THEN "main" ELSE u.ref] = u
  BY <1>2, <1>4 DEF SourceInputs
<1>6. ConfiguredSourceFromInput(u) = u
  BY <1>1, <1>5 DEF ConfiguredSourceFromInput
<1> QED BY <1>2, <1>3, <1>6 DEF Settled

\* A document the parser takes gives a draft.
LEMMA ParsedDraft ==
    ASSUME NEW d \in UserConfigurations, IsFiniteSet(d.sources), ParseUserConfiguration(d) # None
    PROVE  Drafted(ParseUserConfiguration(d))
<1> DEFINE S == {ConfiguredSourceFromInput(s) : s \in d.sources}
           p == ParseUserConfiguration(d)
<1>1. /\ None \notin S /\ SourcesValid(S)
      /\ p = [d EXCEPT !.sources = S,
                       !.sync = IF d.sync = None THEN DefaultUserConfiguration.sync ELSE d.sync,
                       !.reporting = IF d.reporting = None THEN DefaultUserConfiguration.reporting ELSE d.reporting]
      /\ SyncValid(p.sync) /\ ReportingValid(p.reporting)
  BY DEF ParseUserConfiguration
<1>2. \A s \in S : Settled(s)
  <2> SUFFICES ASSUME NEW t \in d.sources PROVE Settled(ConfiguredSourceFromInput(t))
    OBVIOUS
  <2>1. t \in SourceInputs BY DEF UserConfigurations
  <2>2. ConfiguredSourceFromInput(t) # None BY <1>1
  <2> QED BY <2>1, <2>2, SettledOnce
<1>3. IsFiniteSet(S)
  <2> DEFINE f == [s \in d.sources |-> ConfiguredSourceFromInput(s)]
  <2>1. f \in Surjection(d.sources, S) BY DEF Surjection
  <2> QED BY <2>1, FS_Surjection
<1>4. S \subseteq SourceInputs
  BY <1>2 DEF Settled
<1>5. DefaultUserConfiguration.sync \in [mode : STRING, age : Nat]
      /\ DefaultUserConfiguration.reporting \in [mode : STRING, destination : STRING \cup {None}]
  BY SettingsAssumption DEF DefaultUserConfiguration
<1>6. p \in UserConfigurations /\ p.sources = S
      /\ p.sync = (IF d.sync = None THEN DefaultUserConfiguration.sync ELSE d.sync)
      /\ p.reporting = (IF d.reporting = None THEN DefaultUserConfiguration.reporting ELSE d.reporting)
  BY <1>1, <1>4, <1>5 DEF UserConfigurations
<1> QED BY <1>1, <1>2, <1>3, <1>6 DEF Drafted

\* The default configuration is a draft too.
LEMMA DefaultDraft == Drafted(DefaultUserConfiguration)
<1>1. DefaultUserConfiguration \in UserConfigurations
  BY SettingsAssumption DEF DefaultUserConfiguration, UserConfigurations
<1> QED BY <1>1, FS_EmptySet, SettingsAssumption
     DEF Drafted, DefaultUserConfiguration, SourcesValid, SyncValid, ReportingValid

\* What source management works from is a draft.
LEMMA LoadedDraft ==
    ASSUME Kept(document), Manageable
    PROVE  Drafted(Loaded(FALSE).configuration)
<1> DEFINE parsed == IF document = None THEN DefaultUserConfiguration ELSE ParseUserConfiguration(document)
<1>1. parsed # None /\ Loaded(FALSE).configuration = parsed
  BY DEF Manageable, Loaded, LoadConfiguration
<1>2. CASE document = None
  BY <1>1, <1>2, DefaultDraft
<1>3. CASE document # None
  BY <1>1, <1>3, ParsedDraft DEF Kept
<1> QED BY <1>2, <1>3

\* A draft the policy accepts, as source management writes it, is read back as it was,
\* and the policy accepts it again.
LEMMA CheckedIsRead ==
    ASSUME NEW c, Drafted(c), NEW p, NEW missing \in BOOLEAN, Checked(c, p, missing) # None
    PROVE  LET d == Checked(c, p, missing) IN
           /\ d \in UserConfigurations /\ IsFiniteSet(d.sources)
           /\ p.destination \in {None, d.reporting.destination} =>
                /\ ParseUserConfiguration(d) # None
                /\ ApplyConfiguration(ParseUserConfiguration(d), NoOverrides, p, TRUE) # None
<1> DEFINE d == Checked(c, p, missing)
<1>1. d = UserConfigurationBytes(c) /\ ApplyConfiguration(c, NoOverrides, p, missing) # None
  BY DEF Checked
<1>2. d = c
  BY <1>1 DEF UserConfigurationBytes, Drafted, UserConfigurations
<1> SUFFICES ASSUME p.destination \in {None, c.reporting.destination}
             PROVE  /\ ParseUserConfiguration(c) # None
                    /\ ApplyConfiguration(ParseUserConfiguration(c), NoOverrides, p, TRUE) # None
  BY <1>2 DEF Drafted
<1> DEFINE first(a, b) == IF a # None THEN a ELSE b
           e == [c EXCEPT
            !.default = first(NoOverrides.default, @),
            !.reporting = [mode |-> first(p.mode, first(NoOverrides.mode, @.mode)),
                           destination |-> first(p.destination,
                                                 first(NoOverrides.destination, @.destination))]]
<1>3. /\ ~LockedOverride(NoOverrides, p) /\ ReportingValid(e.reporting)
      /\ e.default # None => Registry(e.sources, e.default)
      /\ ~PolicyDenies(e, p, missing) /\ e # None
  BY <1>1 DEF ApplyConfiguration
<1>4. e.sources = c.sources /\ e.default = c.default /\ e.reporting.destination = c.reporting.destination
  BY DEF Drafted, UserConfigurations, NoOverrides
<1>5. ~PolicyDenies(e, p, TRUE)
  BY <1>3 DEF PolicyDenies
<1>6. ApplyConfiguration(c, NoOverrides, p, TRUE) # None
  BY <1>3, <1>5 DEF ApplyConfiguration
<1>7. c.default # None => Registry(c.sources, c.default)
  BY <1>3, <1>4
<1>8. c.reporting.destination # None => Registry(c.sources, c.reporting.destination)
  BY <1>3, <1>4 DEF PolicyDenies, Registry
<1> DEFINE S == {ConfiguredSourceFromInput(s) : s \in c.sources}
<1>9. S = c.sources /\ None \notin c.sources
  BY DEF Drafted, Settled
<1>10. Cardinality({s.alias : s \in c.sources}) = Cardinality(c.sources)
  <2>1. IsFiniteSet(c.sources) /\ \A s, t \in c.sources : s.alias = t.alias => s = t
    BY DEF Drafted, SourcesValid
  <2> QED BY <2>1, KeysCount
<1>11. c = [c EXCEPT !.sources = S,
                 !.sync = IF c.sync = None THEN DefaultUserConfiguration.sync ELSE c.sync,
                 !.reporting = IF c.reporting = None THEN DefaultUserConfiguration.reporting ELSE c.reporting]
  BY <1>9 DEF Drafted, UserConfigurations
<1>12. ParseUserConfiguration(c) = c
  BY <1>7, <1>8, <1>9, <1>10, <1>11 DEF ParseUserConfiguration, Drafted
<1> QED BY <1>6, <1>12, SettingsAssumption DEF Drafted

\* A draft with another set of settled sources and another default is a draft.
LEMMA DraftWith ==
    ASSUME NEW c, Drafted(c), NEW S, IsFiniteSet(S), \A s \in S : Settled(s), SourcesValid(S),
           NEW q \in STRING \cup {None}
    PROVE  Drafted([c EXCEPT !.sources = S, !.default = q])
<1> DEFINE d == [c EXCEPT !.sources = S, !.default = q]
<1>1. S \subseteq SourceInputs BY DEF Settled
<1>2. d \in UserConfigurations /\ d.sources = S /\ d.sync = c.sync /\ d.reporting = c.reporting
  BY <1>1 DEF Drafted, UserConfigurations
<1> QED BY <1>2 DEF Drafted

\* Each command of source management writes a checked draft.
LEMMA AddDraft ==
    ASSUME NEW c, Drafted(c), NEW s, Settled(s), NEW m, NEW p,
           WithSource(c, s, m, p) # None
    PROVE  \E d : \E missing \in BOOLEAN : Drafted(d) /\ WithSource(c, s, m, p) = Checked(d, p, missing)
<1> DEFINE first == s.kind = "registry-git" /\ ~\E t \in c.sources : t.kind = "registry-git"
           S == c.sources \cup {s}
           chosen == IF m = None THEN first ELSE m
           q == IF chosen THEN s.alias ELSE c.default
           d == [c EXCEPT !.sources = S, !.default = q]
<1>1. /\ ~\E t \in c.sources : t.alias = s.alias
      /\ ~\E t \in c.sources : IsGit(t) /\ IsGit(s) /\ OriginKey(t) = OriginKey(s)
      /\ WithSource(c, s, m, p) = Checked(d, p, TRUE)
  BY DEF WithSource
<1>2. IsFiniteSet(S) BY FS_AddElement DEF Drafted
<1>3. \A t \in S : Settled(t) BY DEF Drafted
<1>4. SourcesValid(S)
  BY <1>1 DEF SourcesValid, Drafted
<1>5. q \in STRING \cup {None}
  BY DEF Drafted, Settled, UserConfigurations, SourceInputs
<1>6. Drafted(d)
  <2> HIDE DEF S, q
  <2> QED BY <1>2, <1>3, <1>4, <1>5, DraftWith
<1> QED BY <1>1, <1>6

\* Removing a source: the default goes with it.
LEMMA RemoveDraft ==
    ASSUME NEW c, Drafted(c), NEW a, NEW p, WithoutSource(c, a, p) # None
    PROVE  \E d : \E missing \in BOOLEAN : Drafted(d) /\ WithoutSource(c, a, p) = Checked(d, p, missing)
<1> DEFINE S == {s \in c.sources : s.alias # a}
           q == IF c.default = a THEN None ELSE c.default
           d == [c EXCEPT !.sources = S, !.default = q]
<1>1. WithoutSource(c, a, p) = Checked(d, p, TRUE)
  BY DEF WithoutSource
<1>2. IsFiniteSet(S) BY FS_Subset DEF Drafted
<1>3. \A t \in S : Settled(t) BY DEF Drafted
<1>4. SourcesValid(S) BY DEF SourcesValid, Drafted
<1>5. q \in STRING \cup {None} BY DEF Drafted, UserConfigurations
<1>6. Drafted(d)
  <2> HIDE DEF S, q
  <2> QED BY <1>2, <1>3, <1>4, <1>5, DraftWith
<1> QED BY <1>1, <1>6

\* Choosing which sources are enabled: the default stays among them.
LEMMA SelectDraft ==
    ASSUME NEW c, Drafted(c), NEW A, NEW p, WithEnabled(c, A, p) # None
    PROVE  \E d : \E missing \in BOOLEAN : Drafted(d) /\ WithEnabled(c, A, p) = Checked(d, p, missing)
<1> DEFINE mark(s) == [s EXCEPT !.enabled = s.alias \in A]
           S == {mark(s) : s \in c.sources}
           chosen == {s \in c.sources : s.alias \in A}
           R == {s.alias : s \in {s \in chosen : s.kind = "registry-git"}}
           q == IF c.default \in A THEN c.default ELSE IF R = {} THEN None ELSE CHOOSE a \in R : TRUE
           d == [c EXCEPT !.sources = S, !.default = q]
<1>1. WithEnabled(c, A, p) = Checked(d, p, FALSE)
  BY DEF WithEnabled
<1>2. IsFiniteSet(S)
  <2> DEFINE f == [s \in c.sources |-> mark(s)]
  <2>1. f \in Surjection(c.sources, S) BY DEF Surjection
  <2> QED BY <2>1, FS_Surjection DEF Drafted
<1>3. \A t \in c.sources :
        /\ mark(t) \in SourceInputs /\ mark(t).alias = t.alias /\ mark(t).kind = t.kind /\ mark(t).ref = t.ref
        /\ mark(t).location = t.location
  <2> SUFFICES ASSUME NEW t \in c.sources, NEW b \in BOOLEAN, b = (t.alias \in A)
               PROVE  LET u == [t EXCEPT !.enabled = b] IN
                      /\ u \in SourceInputs /\ u.alias = t.alias /\ u.kind = t.kind /\ u.ref = t.ref
                      /\ u.location = t.location
    <3>1. \A t \in c.sources : (t.alias \in A) \in BOOLEAN OBVIOUS
    <3> QED BY <3>1, Zenon
  <2>1. t \in SourceInputs BY DEF Drafted, Settled
  <2> QED BY <2>1 DEF SourceInputs
<1>4. \A t \in S : Settled(t)
  <2> SUFFICES ASSUME NEW t \in c.sources PROVE Settled(mark(t))
    OBVIOUS
  <2> DEFINE u == mark(t)
  <2>1. t \in SourceInputs /\ ConfiguredSourceFromInput(t) = t /\ t # None
    BY DEF Drafted, Settled
  <2>2. t.location.safe /\ IF t.kind = "source-local" THEN t.ref = None ELSE t.ref # "unsafe"
    <3> DEFINE v == [t EXCEPT !.ref = IF t.kind # "source-local" /\ t.ref = None THEN "main" ELSE t.ref]
    <3>1. t = v /\ v.location.safe /\ IF v.kind = "source-local" THEN v.ref = None ELSE v.ref # "unsafe"
      BY <2>1 DEF ConfiguredSourceFromInput
    <3> HIDE DEF v
    <3> QED BY <3>1
  <2>3. t.kind # "source-local" => t.ref # None
    <3> DEFINE v == [t EXCEPT !.ref = IF t.kind # "source-local" /\ t.ref = None THEN "main" ELSE t.ref]
    <3>1. t = v BY <2>1 DEF ConfiguredSourceFromInput
    <3>2. t.ref = (IF t.kind # "source-local" /\ t.ref = None THEN "main" ELSE t.ref)
      BY <2>1, <3>1 DEF SourceInputs
    <3> QED BY <3>2, NoneAssumption, SettingsAssumption
  <2>4. u \in SourceInputs /\ u.kind = t.kind /\ u.ref = t.ref /\ u.location = t.location
    BY <1>3
  <2> HIDE DEF u
  <2>5. [u EXCEPT !.ref = IF u.kind # "source-local" /\ u.ref = None THEN "main" ELSE u.ref] = u
    BY <2>3, <2>4 DEF SourceInputs
  <2>6. ConfiguredSourceFromInput(u) = u
    BY <2>2, <2>4, <2>5 DEF ConfiguredSourceFromInput
  <2>7. u # None BY <2>4, SettingsAssumption
  <2>8. Settled(u)
    BY <2>4, <2>6, <2>7 DEF Settled
  <2> QED BY <2>8 DEF u
<1>5. SourcesValid(S)
  <2>1. \A s, t \in c.sources :
          /\ s.alias = t.alias => s = t
          /\ IsGit(s) /\ IsGit(t) /\ OriginKey(s) = OriginKey(t) => s = t
    BY DEF Drafted, SourcesValid
  <2>2. \A t \in c.sources : (IsGit(mark(t)) <=> IsGit(t)) /\ OriginKey(mark(t)) = OriginKey(t)
    BY <1>3 DEF IsGit, OriginKey
  <2> HIDE DEF mark
  <2> QED BY <1>3, <2>1, <2>2 DEF SourcesValid
<1>6. q \in STRING \cup {None}
  <2>1. R \subseteq STRING BY DEF Drafted, Settled, SourceInputs
  <2> QED BY <2>1 DEF Drafted, UserConfigurations
<1>7. Drafted(d)
  <2> HIDE DEF S, q
  <2> QED BY <1>2, <1>4, <1>5, <1>6, DraftWith
<1> QED BY <1>1, <1>7

\* Whatever source management writes.
LEMMA WriteKeeps ==
    ASSUME ManagementInv, NEW w, Write(w),
           w # None => \E d : \E missing \in BOOLEAN : Drafted(d) /\ w = Checked(d, policy, missing)
    PROVE  ManagementInv'
<1>1. w # None /\ document' = w /\ wrote' = policy /\ policy' = policy /\ manifest' = manifest
  BY DEF Write
<1>2. PICK d : \E missing \in BOOLEAN : Drafted(d) /\ w = Checked(d, policy, missing)
  BY <1>1
<1>3. PICK missing \in BOOLEAN : Drafted(d) /\ w = Checked(d, policy, missing)
  BY <1>2
<1>4. /\ w \in UserConfigurations /\ IsFiniteSet(w.sources)
      /\ policy.destination \in {None, w.reporting.destination} =>
           /\ ParseUserConfiguration(w) # None
           /\ ApplyConfiguration(ParseUserConfiguration(w), NoOverrides, policy, TRUE) # None
  BY <1>1, <1>3, CheckedIsRead
<1>5. InstallStateValid(manifest)' /\ ParseInstallState([envelope |-> "v2", installations |-> manifest']) = None
  BY <1>1 DEF ManagementInv, WrittenIsReadable
<1>6. WrittenIsReadable'
  BY <1>1, <1>4, <1>5 DEF WrittenIsReadable
<1> QED BY <1>1, <1>4, <1>5, <1>6 DEF ManagementInv, Kept

\* A user may edit the document into one that cannot be read: nothing is claimed of it.
LEMMA HandEditKeeps ==
    ASSUME ManagementInv, NEW mode \in STRING, NEW destination \in STRING \cup {None}, NEW age \in Nat,
           HandEdit(mode, destination, age)
    PROVE  ManagementInv'
<1> DEFINE r == [mode |-> mode, destination |-> destination]
           y == [mode |-> "auto", age |-> age]
<1>1. document # None /\ document' = [document EXCEPT !.reporting = r, !.sync = y]
      /\ wrote' = None /\ manifest' = manifest
  BY DEF HandEdit
<1>2. document \in UserConfigurations /\ IsFiniteSet(document.sources)
  BY <1>1 DEF ManagementInv, Kept
<1>3. r \in [mode : STRING, destination : STRING \cup {None}] /\ y \in [mode : STRING, age : Nat]
  BY SettingsAssumption
<1> HIDE DEF r, y
<1>4. document' \in UserConfigurations /\ document'.sources = document.sources
  BY <1>1, <1>2, <1>3 DEF UserConfigurations
<1>5. WrittenIsReadable'
  BY <1>1 DEF ManagementInv, WrittenIsReadable
<1> QED BY <1>1, <1>2, <1>4, <1>5 DEF ManagementInv, Kept

\* At first there is no document and nothing is installed.
LEMMA ManagementInitially == ManagementInit => ManagementInv
<1> SUFFICES ASSUME ManagementInit PROVE ManagementInv
  OBVIOUS
<1>1. InstallStateValid(manifest)
  BY DEF ManagementInit, InstallStateValid, OwnershipUnique
<1>2. ParseInstallState([envelope |-> "v2", installations |-> manifest]) = None
  BY <1>1 DEF ParseInstallState
<1> QED BY <1>1, <1>2 DEF ManagementInit, ManagementInv, Kept, WrittenIsReadable

\* Every step of source management keeps the invariant.
LEMMA ManagementStep == ManagementInv /\ [ManagementNext]_management => ManagementInv'
<1> SUFFICES ASSUME ManagementInv, [ManagementNext]_management PROVE ManagementInv'
  OBVIOUS
<1> USE SettingsAssumption
<1>1. ASSUME NEW input \in Inputs, NEW m, Add(input, m) PROVE ManagementInv'
  <2> DEFINE c == Loaded(FALSE).configuration
             s == ConfiguredSourceFromInput(input)
  <2>1. Drafted(c) BY <1>1, LoadedDraft DEF Add, ManagementInv
  <2>2. Settled(s) BY <1>1, ManagementAssumption, SettledOnce DEF Add
  <2>3. Write(WithSource(c, s, m, policy)) BY <1>1 DEF Add
  <2> HIDE DEF c, s
  <2> QED BY <2>1, <2>2, <2>3, AddDraft, WriteKeeps
<1>2. ASSUME NEW alias, RemoveSource(alias) PROVE ManagementInv'
  <2> DEFINE c == Loaded(FALSE).configuration
  <2>1. Drafted(c) BY <1>2, LoadedDraft DEF RemoveSource, ManagementInv
  <2>2. Write(WithoutSource(c, alias, policy)) BY <1>2 DEF RemoveSource
  <2> HIDE DEF c
  <2> QED BY <2>1, <2>2, RemoveDraft, WriteKeeps
<1>3. ASSUME NEW aliases, SelectSources(aliases) PROVE ManagementInv'
  <2> DEFINE c == Loaded(FALSE).configuration
  <2>1. Drafted(c) BY <1>3, LoadedDraft DEF SelectSources, ManagementInv
  <2>2. Write(WithEnabled(c, aliases, policy)) BY <1>3 DEF SelectSources
  <2> HIDE DEF c
  <2> QED BY <2>1, <2>2, SelectDraft, WriteKeeps
<1>4. ASSUME NEW mode \in STRING, NEW destination \in STRING \cup {None}, NEW age \in Nat,
             HandEdit(mode, destination, age)
      PROVE  ManagementInv'
  BY <1>4, HandEditKeeps
<1>5. ASSUME NEW deployed, Deploy(deployed) PROVE ManagementInv'
  BY <1>5 DEF Deploy, ManagementInv, Kept, WrittenIsReadable
<1>6. ASSUME NEW name, NEW alias, NEW effect, Record(name, alias, effect) PROVE ManagementInv'
  <2>1. InstallStateValid(manifest') /\ document' = document /\ wrote' = wrote /\ policy' = policy
    BY <1>6 DEF Record
  <2>2. ParseInstallState([envelope |-> "v2", installations |-> manifest']) = None
    BY <2>1 DEF ParseInstallState
  <2> QED BY <2>1, <2>2 DEF ManagementInv, Kept, WrittenIsReadable
<1>7. ASSUME UNCHANGED management PROVE ManagementInv'
  BY <1>7 DEF management, ManagementInv, Kept, WrittenIsReadable
<1>8. MaxAge + 1 \in Nat /\ 0 \in Nat
  OBVIOUS
<1> QED BY <1>1, <1>2, <1>3, <1>4, <1>5, <1>6, <1>7, <1>8 DEF ManagementNext

\* A configuration that add, remove or select has written under a policy is parsed by the
\* next command and accepted under that policy, and the installation manifest that the
\* commands check reads back as it was, for every set of inputs and policies and however
\* often the document is edited by hand or the policy replaced in between.
THEOREM ManagementReadable == ManagementSpec => []WrittenIsReadable
<1>1. ManagementInv => WrittenIsReadable
  BY DEF ManagementInv
<1> QED BY <1>1, ManagementInitially, ManagementStep, PTL DEF ManagementSpec

(***************************************************************************)
(* Reporting: what leaves goes where the user or the organisation said.    *)
(***************************************************************************)

\* Where a loaded service may send: to the named destination, or by the routes.
Home(loaded, end) ==
    \E source \in loaded.effective.sources :
        /\ source.enabled /\ source.kind = "registry-git" /\ source.location.host = end.host
        /\ loaded.rules.denyPublic => end.host \notin PublicHosts

Legitimate(loaded) ==
    /\ loaded.destination # None =>
        /\ loaded.destination.mode = loaded.effective.reporting.mode
        /\ loaded.effective.reporting.destination # None
        /\ Home(loaded, loaded.destination)
    /\ \A alias \in DOMAIN loaded.routes :
        /\ loaded.routes[alias].mode = "prompt"
        /\ Home(loaded, loaded.routes[alias])
        /\ \E source \in loaded.effective.sources :
              /\ source.alias = alias /\ source.kind = "registry-git"
              /\ source.location.host = loaded.routes[alias].host

\* A report that may be offered, and where it may go.
Offerable(loaded, end, results) ==
    /\ end.mode = "automatic" =>
          loaded.effective.reporting.mode = "automatic" /\ loaded.effective.reporting.destination # None
    /\ Home(loaded, end)
    /\ loaded.effective.reporting.destination = None =>
          \A r \in results : \E source \in loaded.effective.sources :
              source.alias = SourceOf[r.artifact] /\ source.kind = "registry-git"
                /\ source.location.host = end.host
    /\ results # {} /\ IsFiniteSet(results) /\ results \subseteq Reportable
    /\ \A r \in results : r.outcome # "cancelled"

\* What a session that was applied leaves to report.
Applied(done) ==
    /\ IsFiniteSet(DOMAIN done.terminal) /\ DOMAIN done.terminal # {}
    /\ DOMAIN done.terminal \subseteq UNION Baskets
    /\ \A a \in DOMAIN done.terminal :
          /\ done.terminal[a].status \in ArtifactOutcomes \ {"cancelled"}
          /\ done.terminal[a].setup \in SetupOutcomes
    /\ \A s \in done.states : s.status \in SetupOutcomes

ReportingInv ==
    /\ service \in {None, Rejected} \/ Legitimate(service)
    /\ stage # "open" => Applied(session) /\ (session.interface = "tui" => service # None)
    /\ stage # "prepared" => offers = {} /\ sent = {}
    /\ \A p \in offers : Offerable(service, p.destination, p.results)
    /\ \A p, q \in offers : p.destination = q.destination => p = q
    /\ \A p \in offers, s \in sent : p.destination # s.destination
    /\ ReportsStayHome

\* A session fails as a whole only when every artifact of it did, and ends well only
\* when every one did.
LEMMA OutcomeHonest ==
    ASSUME NEW R, IsFiniteSet(R), R \subseteq Reportable, \A r \in R : r.outcome # "cancelled"
    PROVE  (\A r \in R : ~Miscounted(r)) =>
              /\ SessionOutcome(R) \in {"succeeded", "no-op"} <=> \A r \in R : Well(r)
              /\ SessionOutcome(R) = "failed" => \A r \in R : ~Well(r)
<1> DEFINE failed == {r \in R : r.outcome \in ArtifactFailures \/ r.setup \notin SetupSuccess \cup SetupCancelled}
           cancelled == {r \in R : r.outcome = "cancelled" \/ r.setup \in SetupCancelled}
           successful == Cardinality(R) - Cardinality(failed) - Cardinality(cancelled)
<1> SUFFICES ASSUME \A r \in R : ~Miscounted(r)
             PROVE  /\ SessionOutcome(R) \in {"succeeded", "no-op"} <=> \A r \in R : Well(r)
                    /\ SessionOutcome(R) = "failed" => \A r \in R : ~Well(r)
  OBVIOUS
<1>1. SessionOutcome(R) =
        CASE failed # {} -> IF successful # 0 \/ cancelled # {} THEN "partial" ELSE "failed"
          [] failed = {} /\ cancelled # {} -> IF successful # 0 THEN "partial" ELSE "cancelled"
          [] OTHER -> IF \A r \in R : r.outcome \in ArtifactNoop THEN "no-op" ELSE "succeeded"
  BY DEF SessionOutcome
<1>2. \A r \in R : Well(r) <=> r \notin failed /\ r \notin cancelled
  <2> SUFFICES ASSUME NEW r \in R PROVE Well(r) <=> r \notin failed /\ r \notin cancelled
    OBVIOUS
  <2>1. r.setup \in SetupOutcomes /\ r.outcome # "cancelled" /\ ~Miscounted(r)
    BY DEF Reportable
  <2> QED BY <2>1 DEF Well, Miscounted, SetupSuccess, SetupCancelled, SetupOutcomes
<1>3. IsFiniteSet(failed) /\ (Cardinality(failed) = Cardinality(R) => failed = R)
  BY FS_Subset
<1>4. Cardinality(R) \in Nat /\ Cardinality(failed) \in Nat
  BY <1>3, FS_CardinalityType
<1>5. cancelled = {} => Cardinality(cancelled) = 0
  BY FS_EmptySet
<1>6. failed \subseteq R /\ cancelled \subseteq R
  OBVIOUS
<1> HIDE DEF failed, cancelled
<1>7. SessionOutcome(R) \in {"succeeded", "no-op"} <=> failed = {} /\ cancelled = {}
  BY <1>1
<1>8. SessionOutcome(R) = "failed" => failed = R
  <2> SUFFICES ASSUME SessionOutcome(R) = "failed" PROVE failed = R
    OBVIOUS
  <2>1. successful = 0 /\ cancelled = {} BY <1>1
  <2> QED BY <2>1, <1>3, <1>4, <1>5
<1> QED BY <1>2, <1>6, <1>7, <1>8

\* What the service is loaded into may be sent to.
LEMMA LoadedLegitimate ==
    LoadLocalReportingService # Rejected => Legitimate(LoadLocalReportingService)
<1> DEFINE effective == ApplyConfiguration(user, NoOverrides, rules, FALSE)
           destination == ReportingDestinationFromCurrent(effective)
           L == [destination |-> destination, routes |-> ReportingRoutesFromCurrent(effective, rules),
                 effective |-> effective, rules |-> rules]
<1> SUFFICES ASSUME LoadLocalReportingService # Rejected PROVE Legitimate(LoadLocalReportingService)
  OBVIOUS
<1>1. LoadLocalReportingService = L /\ effective # None /\ destination # Rejected
  BY DEF LoadLocalReportingService
<1>2. /\ L.destination = destination /\ L.routes = ReportingRoutesFromCurrent(effective, rules)
      /\ L.effective = effective /\ L.rules = rules
  OBVIOUS
<1>3. \A m, s : Advertised(m, s) # Rejected => Advertised(m, s).mode = m /\ Advertised(m, s).host = s.location.host
  BY DEF Advertised, DestinationFromServices
<1>4. ~PolicyDenies(effective, rules, FALSE)
  <2> DEFINE first(a, b) == IF a # None THEN a ELSE b
             e == [user EXCEPT
                !.default = first(NoOverrides.default, @),
                !.reporting = [mode |-> first(rules.mode, first(NoOverrides.mode, @.mode)),
                               destination |-> first(rules.destination,
                                                     first(NoOverrides.destination, @.destination))]]
  <2>1. effective = e /\ ~PolicyDenies(e, rules, FALSE)
    BY <1>1 DEF ApplyConfiguration
  <2> QED BY <2>1
<1> HIDE DEF effective
<1>5. ASSUME destination # None
      PROVE  /\ destination.mode = effective.reporting.mode
             /\ effective.reporting.destination # None
             /\ Home(L, destination)
  <2> DEFINE selected == ConfiguredReportingSource(effective)
             matches == {s \in effective.sources : s.enabled /\ s.alias = effective.reporting.destination}
  <2>1. selected \notin {None, Rejected} /\ destination = Advertised(effective.reporting.mode, selected)
    BY <1>1, <1>5 DEF ReportingDestinationFromCurrent
  <2>2. /\ effective.reporting.destination # None
        /\ \E s \in matches : matches = {s} /\ s.kind = "registry-git"
        /\ selected = CHOOSE s \in matches : TRUE
    BY <2>1 DEF ConfiguredReportingSource
  <2>3. selected \in matches /\ selected.kind = "registry-git"
    BY <2>2
  <2> HIDE DEF selected
  <2>4. destination.mode = effective.reporting.mode /\ destination.host = selected.location.host
    BY <1>1, <1>3, <2>1
  <2>5. rules.denyPublic => selected.location.host \notin PublicHosts
    BY <1>4, <2>2, <2>3 DEF PolicyDenies
  <2> HIDE DEF destination
  <2> QED BY <2>2, <2>3, <2>4, <2>5 DEF Home
<1>6. ASSUME NEW alias \in DOMAIN L.routes
      PROVE  /\ L.routes[alias].mode = "prompt"
             /\ Home(L, L.routes[alias])
             /\ \E source \in effective.sources :
                  /\ source.alias = alias /\ source.kind = "registry-git"
                  /\ source.location.host = L.routes[alias].host
  <2> DEFINE eligible == {s \in effective.sources :
                /\ s.enabled /\ s.kind = "registry-git"
                /\ ~(rules.denyPublic /\ s.location.host \in PublicHosts)
                /\ Advertised("prompt", s) # Rejected}
             routes == [a \in {s.alias : s \in eligible} |-> Advertised("prompt", CHOOSE s \in eligible : s.alias = a)]
             source == CHOOSE s \in eligible : s.alias = alias
  <2>1. L.routes \in {<<>>, routes}
    BY <1>2 DEF ReportingRoutesFromCurrent
  <2>2. L.routes = routes
    <3>1. DOMAIN <<>> = {} OBVIOUS
    <3> QED BY <2>1, <3>1, <1>6
  <2>3. alias \in {s.alias : s \in eligible} BY <1>6, <2>2
  <2>4. source \in eligible /\ source.alias = alias BY <2>3
  <2>5. L.routes[alias] = Advertised("prompt", source) BY <2>2, <2>3
  <2> HIDE DEF source
  <2>6. L.routes[alias].mode = "prompt" /\ L.routes[alias].host = source.location.host
    BY <1>3, <2>4, <2>5
  <2> QED BY <1>2, <2>4, <2>6 DEF Home
<1> HIDE DEF destination, L
<1> QED BY <1>1, <1>2, <1>5, <1>6 DEF Legitimate

\* What a session leaves to report is a set of results, one for each artifact of it.
LEMMA ReportTyped ==
    ASSUME NEW done, Applied(done), UsageReportFromConsumer(done) # Rejected
    PROVE  LET R == UsageReportFromConsumer(done) IN
           /\ R # {} /\ IsFiniteSet(R) /\ R \subseteq Reportable
           /\ \A r \in R : r.outcome # "cancelled"
<1> DEFINE D == DOMAIN done.terminal
           state(a) == IF \E s \in done.states : s.key = <<a, "version">>
                       THEN CHOOSE s \in done.states : s.key = <<a, "version">> ELSE None
           entry(a) == [artifact |-> a, outcome |-> done.terminal[a].status,
                        setup |-> IF state(a) = None THEN done.terminal[a].setup ELSE state(a).status,
                        failure |-> Failure(done.terminal[a].status, state(a))]
           R == UsageReportFromConsumer(done)
<1>1. R = {entry(a) : a \in D}
  BY DEF UsageReportFromConsumer
<1>2. \A a \in D : state(a) # None => state(a).status \in SetupOutcomes
  BY DEF Applied
<1> HIDE DEF state
<1>3. \A a \in D : Failure(done.terminal[a].status, state(a)) \in FailureCategories \cup {None}
  BY DEF Failure, FailureCategories
<1>4. \A a \in D : entry(a) \in Reportable /\ entry(a).outcome # "cancelled"
  <2> SUFFICES ASSUME NEW a \in D PROVE entry(a) \in Reportable /\ entry(a).outcome # "cancelled"
    OBVIOUS
  <2>1. /\ a \in UNION Baskets /\ done.terminal[a].status \in ArtifactOutcomes \ {"cancelled"}
        /\ (IF state(a) = None THEN done.terminal[a].setup ELSE state(a).status) \in SetupOutcomes
    BY <1>2 DEF Applied
  <2> QED BY <1>3, <2>1 DEF Reportable
<1> HIDE DEF entry
<1>5. R # {} /\ R \subseteq Reportable /\ \A r \in R : r.outcome # "cancelled"
  BY <1>1, <1>4 DEF Applied
<1>6. IsFiniteSet(R)
  <2> DEFINE f == [a \in D |-> entry(a)]
  <2>1. f \in Surjection(D, R) BY <1>1 DEF Surjection
  <2> QED BY <2>1, FS_Surjection DEF Applied
<1> QED BY <1>5, <1>6

\* The reports that are prepared are offerable, and no two go to one place.
LEMMA PreparedOfferable ==
    ASSUME NEW L, Legitimate(L), NEW R, R # {}, IsFiniteSet(R), R \subseteq Reportable,
           \A r \in R : r.outcome # "cancelled"
    PROVE  LET P == PrepareRouted(L, R) IN
           /\ \A p \in P : Offerable(L, p.destination, p.results)
           /\ \A p, q \in P : p.destination = q.destination => p = q
<1> DEFINE routed == {r \in R : SourceOf[r.artifact] \in DOMAIN L.routes}
           share(end) == {r \in routed : L.routes[SourceOf[r.artifact]] = end}
           ends == {L.routes[SourceOf[r.artifact]] : r \in routed}
           P == PrepareRouted(L, R)
<1>1. CASE L.destination # None
  <2> DEFINE p == [destination |-> L.destination, results |-> R]
  <2>1. P \subseteq {p} BY <1>1 DEF PrepareRouted
  <2>2. p.destination = L.destination /\ p.results = R OBVIOUS
  <2>3. Offerable(L, L.destination, R)
    BY <1>1 DEF Offerable, Legitimate
  <2> QED BY <2>1, <2>2, <2>3
<1>2. CASE L.destination = None
  <2> DEFINE plan(end) == [destination |-> end, results |-> share(end)]
  <2>1. P \subseteq {plan(end) : end \in ends} BY <1>2 DEF PrepareRouted
  <2>2. \A end : plan(end).destination = end /\ plan(end).results = share(end) OBVIOUS
  <2>3. ASSUME NEW end \in ends PROVE Offerable(L, end, share(end))
    <3>1. PICK r \in routed : end = L.routes[SourceOf[r.artifact]] BY <2>3
    <3>2. share(end) # {} BY <3>1
    <3>3. share(end) \subseteq R /\ IsFiniteSet(share(end)) BY FS_Subset
    <3>4. end.mode = "prompt" /\ Home(L, end)
      BY <3>1 DEF Legitimate
    <3>5. \A s \in share(end) : \E source \in L.effective.sources :
            source.alias = SourceOf[s.artifact] /\ source.kind = "registry-git" /\ source.location.host = end.host
      BY DEF Legitimate
    <3> HIDE DEF share
    <3> QED BY <3>2, <3>3, <3>4, <3>5 DEF Offerable
  <2> HIDE DEF plan, share
  <2> QED BY <2>1, <2>2, <2>3
<1> QED BY <1>1, <1>2

\* Preparing the reports of a session.
LEMMA PrepareKeeps == ReportingInv /\ Prepare => ReportingInv'
<1> SUFFICES ASSUME ReportingInv, Prepare PROVE ReportingInv'
  OBVIOUS
<1> DEFINE loaded == IF session.interface = "tui" THEN service ELSE LoadLocalReportingService
           R == UsageReportFromConsumer(session)
<1>1. /\ stage = "applied" /\ stage' = "prepared" /\ service' = loaded
      /\ offers' = IF loaded = Rejected \/ R = Rejected THEN {} ELSE PrepareRouted(loaded, R)
      /\ session' = session /\ sent' = sent
  BY DEF Prepare
<1>2. sent = {} /\ Applied(session)
  BY <1>1 DEF ReportingInv
<1>3. loaded = Rejected \/ Legitimate(loaded)
  BY <1>1, LoadedLegitimate DEF ReportingInv
<1>4. session.interface = "tui" => service' # None
  BY <1>1 DEF ReportingInv
<1> HIDE DEF loaded, R
<1>5. ASSUME loaded # Rejected, R # Rejected
      PROVE  /\ \A p \in offers' : Offerable(loaded, p.destination, p.results)
             /\ \A p, q \in offers' : p.destination = q.destination => p = q
  <2>1. R # {} /\ IsFiniteSet(R) /\ R \subseteq Reportable /\ \A r \in R : r.outcome # "cancelled"
    BY <1>2, <1>5, ReportTyped DEF R
  <2> QED BY <1>1, <1>3, <1>5, <2>1, PreparedOfferable
<1>6. /\ \A p \in offers' : Offerable(loaded, p.destination, p.results)
      /\ \A p, q \in offers' : p.destination = q.destination => p = q
  BY <1>1, <1>5
<1>7. ReportsStayHome'
  BY <1>1, <1>2 DEF ReportsStayHome
<1> QED BY <1>1, <1>2, <1>3, <1>4, <1>6, <1>7 DEF ReportingInv

\* Offering one of them.
LEMMA OfferKeeps ==
    ASSUME ReportingInv, NEW p \in offers, NEW share \in BOOLEAN, NEW open \in BOOLEAN,
           NEW delivered \in BOOLEAN, Offer(p, share, open, delivered)
    PROVE  ReportingInv'
<1> DEFINE item == [destination |-> p.destination, body |-> UsageReportBytes(p.results),
                    consent |-> share /\ open]
<1>1. /\ offers' = offers \ {p} /\ session' = session /\ service' = service /\ stage' = stage
      /\ sent' = sent \/ (sent' = sent \cup {item} /\ (p.destination.mode = "prompt" => share /\ open))
  BY DEF Offer
<1>2. Offerable(service, p.destination, p.results)
  BY DEF ReportingInv
<1>3. /\ item.destination = p.destination /\ item.body.results = p.results
      /\ item.body.outcome = SessionOutcome(p.results)
  BY DEF UsageReportBytes
<1>4. item.consent <=> share /\ open
  OBVIOUS
<1>5. \A s \in sent : s.destination # p.destination
  BY DEF ReportingInv
<1>6. ParseIssueBody(item.body) # Rejected
  <2>1. ParseIssueBody(item.body) = item.body
    BY <1>2, <1>3 DEF ParseIssueBody, Offerable
  <2>2. item.body \in [results : SUBSET Reportable, outcome : SessionOutcomes]
    <3>1. SessionOutcome(p.results) \in SessionOutcomes BY DEF SessionOutcome, SessionOutcomes
    <3>2. p.results \in SUBSET Reportable BY <1>2 DEF Offerable
    <3> QED BY <3>1, <3>2 DEF UsageReportBytes
  <2> QED BY <2>1, <2>2, ReportingAssumption
<1>7. (\A r \in item.body.results : ~Miscounted(r)) =>
        /\ item.body.outcome \in {"succeeded", "no-op"} <=> \A r \in item.body.results : Well(r)
        /\ item.body.outcome = "failed" => \A r \in item.body.results : ~Well(r)
  <2>1. IsFiniteSet(p.results) /\ p.results \subseteq Reportable /\ \A r \in p.results : r.outcome # "cancelled"
    BY <1>2 DEF Offerable
  <2> QED BY <1>3, <2>1, OutcomeHonest
<1> HIDE DEF item
<1>8. ReportsStayHome'
  <2>1. CASE sent' = sent
    BY <1>1, <2>1 DEF ReportingInv, ReportsStayHome
  <2>2. CASE sent' = sent \cup {item} /\ (p.destination.mode = "prompt" => share /\ open)
    <3>1. \A s \in sent \cup {item} :
        LET effective == service.effective IN
        /\ s.destination.mode = "prompt" => s.consent
        /\ s.destination.mode = "automatic" =>
              effective.reporting.mode = "automatic" /\ effective.reporting.destination # None
        /\ \E source \in effective.sources : source.enabled /\ source.kind = "registry-git"
                                             /\ source.location.host = s.destination.host
        /\ service.rules.denyPublic => s.destination.host \notin PublicHosts
        /\ effective.reporting.destination = None =>
              \A r \in s.body.results : \E source \in effective.sources :
                  source.alias = SourceOf[r.artifact] /\ source.kind = "registry-git"
                    /\ source.location.host = s.destination.host
      BY <1>2, <1>3, <1>4, <2>2 DEF ReportingInv, ReportsStayHome, Offerable, Home
    <3>2. \A s, t \in sent \cup {item} : s.destination = t.destination => s = t
      BY <1>3, <1>5 DEF ReportingInv, ReportsStayHome
    <3>3. \A s \in sent :
        /\ ParseIssueBody(s.body) # Rejected
        /\ (\A r \in s.body.results : ~Miscounted(r)) =>
              /\ s.body.outcome \in {"succeeded", "no-op"} <=> \A r \in s.body.results : Well(r)
              /\ s.body.outcome = "failed" => \A r \in s.body.results : ~Well(r)
      BY DEF ReportingInv, ReportsStayHome
    <3> QED BY <1>1, <1>6, <1>7, <2>2, <3>1, <3>2, <3>3 DEF ReportsStayHome
  <2> QED BY <1>1, <2>1, <2>2
<1>9. \A q \in offers', s \in sent' : q.destination # s.destination
  BY <1>1, <1>3 DEF ReportingInv
<1>10. stage = "prepared"
  BY DEF ReportingInv
<1> QED BY <1>1, <1>8, <1>9, <1>10 DEF ReportingInv

\* Applying the basket.
LEMMA ActKeeps ==
    ASSUME ReportingInv, NEW basket \in Baskets, NEW o \in Outcomes, NEW others \in {"failed", "current"},
           NEW queue \in {"none", "planning-failed", "queue-declined", "configured", "cancelled",
                          "rollback-incomplete"},
           Act(basket, o[1], o[2], others, queue)
    PROVE  ReportingInv'
<1> DEFINE status == o[2]
           interface == IF service = None THEN "cli" ELSE "tui"
           terminal == [a \in basket |->
              IF a = "x" THEN IF o[1] # "install" /\ status = "failed" THEN [status |-> "failed", setup |-> "not-required"]
                              ELSE Terminal(status, TRUE)
              ELSE Terminal(others, FALSE)]
           done == [interface |-> interface, terminal |-> terminal, states |-> States(interface, queue)]
<1>1. /\ stage = "open" /\ stage' = "applied" /\ session' = done /\ service' = service
      /\ offers' = offers /\ sent' = sent
  BY DEF Act
<1>2. status \in ArtifactOutcomes \ {"cancelled"}
  BY DEF Outcomes, ArtifactOutcomes, ArtifactFailures, ArtifactNoop
<1>3. \A a \in basket : /\ terminal[a].status \in ArtifactOutcomes \ {"cancelled"}
                         /\ terminal[a].setup \in SetupOutcomes
  BY <1>2 DEF Terminal, ArtifactOutcomes, ArtifactFailures, ArtifactNoop, SetupOutcomes, SetupSuccess
<1>4. \A s \in States(interface, queue) : s.status \in SetupOutcomes
  BY DEF States, SetupOutcomes, SetupSuccess, SetupCancelled
<1>5. DOMAIN terminal = basket /\ IsFiniteSet(basket) /\ basket # {} /\ basket \subseteq UNION Baskets
  BY ReportingAssumption
<1>6. done.terminal = terminal /\ done.interface = interface /\ done.states = States(interface, queue)
  OBVIOUS
<1> HIDE DEF terminal, done
<1>7. Applied(done)
  BY <1>3, <1>4, <1>5, <1>6 DEF Applied
<1>8. done.interface = "tui" => service # None
  BY <1>6
<1>9. ReportsStayHome'
  BY <1>1 DEF ReportingInv, ReportsStayHome
<1> QED BY <1>1, <1>7, <1>8, <1>9 DEF ReportingInv

\* Every step of a session that reports keeps the invariant.
LEMMA ReportingStep == ReportingInv /\ [ReportingNext]_reporting => ReportingInv'
<1> SUFFICES ASSUME ReportingInv, [ReportingNext]_reporting PROVE ReportingInv'
  OBVIOUS
<1>1. ASSUME OpenWizard PROVE ReportingInv'
  <2>1. /\ stage = "open" /\ stage' = "open" /\ service' = LoadLocalReportingService
        /\ session' = session /\ offers' = offers /\ sent' = sent
    BY <1>1 DEF OpenWizard
  <2>2. offers = {} /\ sent = {}
    BY <2>1 DEF ReportingInv
  <2>3. service' \in {None, Rejected} \/ Legitimate(service')
    BY <2>1, LoadedLegitimate
  <2> QED BY <2>1, <2>2, <2>3 DEF ReportingInv, ReportsStayHome
<1>2. ASSUME NEW p \in Policies, DeployPolicy(p) PROVE ReportingInv'
  BY <1>2 DEF DeployPolicy, ReportingInv, ReportsStayHome
<1>3. ASSUME NEW alias, NEW snapshot, Synchronize(alias, snapshot) PROVE ReportingInv'
  BY <1>3 DEF Synchronize, ReportingInv, ReportsStayHome
<1>4. ASSUME UNCHANGED reporting PROVE ReportingInv'
  BY <1>4 DEF reporting, ReportingInv, ReportsStayHome
<1> QED BY <1>1, <1>2, <1>3, <1>4, ActKeeps, PrepareKeeps, OfferKeeps DEF ReportingNext

\* Nothing is loaded, offered or sent at first.
LEMMA ReportingInitially == ReportingInit => ReportingInv
  BY DEF ReportingInit, ReportingInv, ReportsStayHome

\* A report goes only to an enabled registry the effective configuration names or the
\* artifact came from, never to a public host the policy denies, never without consent
\* where consent is asked, at most once to each place, and its outcome is the one of its
\* results, for every set of policies, configurations, snapshots and baskets.
THEOREM ReportingStaysHome == ReportingSpec => []ReportsStayHome
<1>1. ReportingInv => ReportsStayHome
  BY DEF ReportingInv
<1> QED BY <1>1, ReportingInitially, ReportingStep, PTL DEF ReportingSpec
=============================================================================
