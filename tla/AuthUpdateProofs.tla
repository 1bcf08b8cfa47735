--------------------------- MODULE AuthUpdateProofs ---------------------------
(***************************************************************************)
(* Theorems about AuthUpdate, for every set of characters, servers and     *)
(* class masks, every retry budget and every cooldown.                     *)
(***************************************************************************)
EXTENDS AuthUpdate, FiniteSetTheorems, TLAPS

\* What a reader gets out of a well-formed image is a well-formed set of rows.
LEMMA ReadIsRows ==
    ASSUME NEW image \in Image
    PROVE  ReadCacheEntries(image) \in Rows
<1>1. ASSUME NEW n \in Names
      PROVE  ParseCacheEntries(image)[n] \in Row \cup {NoRow}
  BY DEF ParseCacheEntries, RowKept, RowFields, Image, Rows, Row
<1>2. ParseCacheEntries(image) \in Rows
  BY <1>1 DEF ParseCacheEntries, Rows
<1>3. NoRows \in Rows
  BY DEF NoRows, Rows
<1> QED
  BY <1>2, <1>3 DEF ReadCacheEntries

\* Every image a store can leave is well formed.
LEMMA StoreIsImage ==
    ASSUME NEW image \in Image, NEW name \in Names, NEW mask \in Masks,
           NEW native \in PlayableClasses, NEW on \in Servers,
           NEW new \in StoreCharacterClassMask(image, name, mask, native, on)
    PROVE  new \in Image
<1> DEFINE rows == ReadCacheEntries(image)
           row  == CacheRow(mask, native, on)
<1>1. rows \in Rows
  BY ReadIsRows
<1>2. row \in Row
  BY DEF CacheRow, Row
<1>3. LastRow(rows, name, row) \subseteq Row \cup {NoRow}
  BY <1>1, <1>2 DEF LastRow, Rows
<1>4. PICK last \in LastRow(rows, name, row) :
        new = [format |-> IF RowsWritten(rows, name, row) > MaxRows
                          THEN "unreadable" ELSE "V3",
               rows   |-> [rows EXCEPT ![name] = last]]
  BY DEF StoreCharacterClassMask, BuildCacheFileContents
<1>5. [rows EXCEPT ![name] = last] \in Rows
  BY <1>1, <1>3 DEF Rows
<1> QED
  BY <1>4, <1>5 DEF Image

\* What a poll may make of a retry record: it is left alone, cleared, put off,
\* or an attempt is spent and the next one put off.
PolledTo(retry, ready, after) ==
    /\ after \in Retries
    /\ after \in {retry, Cleared}
         \/ /\ retry.pending
            /\ retry.attempts < MaxAttempts
            /\ after.pending
            /\ after.mask = retry.mask
            /\ after.attempts < MaxAttempts
            /\ after.wait = Cooldown
    /\ Attempts(retry, ready) => retry.wait = 0 /\ (after = Cleared \/ after.wait = Cooldown)

LEMMA PolledRetry ==
    ASSUME NEW retry \in Retries,
           NEW ready \in BOOLEAN, NEW success \in BOOLEAN, NEW eligible \in BOOLEAN
    PROVE  PolledTo(retry, ready, Polled(retry, ready, success, eligible))
<1> DEFINE after == Polled(retry, ready, success, eligible)
<1> USE DEF PolledTo
<1>1. Cleared \in Retries
  BY AuthUpdateAssumption DEF Cleared, Retries, Masks
<1>2. CASE ~retry.pending \/ retry.mask = {} \/ retry.wait > 0
  BY <1>1, <1>2 DEF Polled, Attempts, Retries
<1>3. CASE retry.pending /\ retry.mask # {} /\ ~(retry.wait > 0)
  <2>1. retry.wait = 0
    BY <1>3 DEF Retries
  <2>2. CASE retry.attempts >= MaxAttempts
    BY <1>1, <1>3, <2>1, <2>2, AuthUpdateAssumption DEF Polled, Attempts, Retries
  <2>3. CASE retry.attempts < MaxAttempts /\ ~ready
    BY <1>1, <1>3, <2>1, <2>3, AuthUpdateAssumption DEF Polled, Attempts, Retries
  <2>4. CASE retry.attempts < MaxAttempts /\ ready
    <3>1. after = AfterAttempt(retry, success, eligible)
      BY <1>3, <2>4, AuthUpdateAssumption DEF Polled, Retries
    <3>2. CASE success \/ ~eligible \/ retry.attempts + 1 >= MaxAttempts
      BY <1>1, <1>3, <2>1, <2>4, <3>1, <3>2 DEF AfterAttempt
    <3>3. CASE ~(success \/ ~eligible \/ retry.attempts + 1 >= MaxAttempts)
      <4>1. after = [retry EXCEPT !.attempts = @ + 1, !.wait = Cooldown]
        BY <3>1, <3>3 DEF AfterAttempt
      <4>2. after = [pending |-> TRUE, mask |-> retry.mask,
                     attempts |-> retry.attempts + 1, wait |-> Cooldown]
        BY <1>3, <4>1 DEF Retries
      <4>3. retry.attempts + 1 \in 0 .. MaxAttempts /\ retry.attempts + 1 < MaxAttempts
        BY <2>4, <3>3, AuthUpdateAssumption DEF Retries
      <4>4. retry.mask \in Masks /\ Cooldown \in 0 .. Cooldown
        BY AuthUpdateAssumption DEF Retries
      <4>5. after \in Retries
        BY <4>2, <4>3, <4>4 DEF Retries
      <4>6. /\ after.pending
            /\ after.mask = retry.mask
            /\ after.attempts < MaxAttempts
            /\ after.wait = Cooldown
        BY <4>2, <4>3
      <4> QED
        BY <1>3, <2>1, <2>4, <4>5, <4>6
    <3> QED
      BY <3>2, <3>3
  <2> QED
    BY <2>2, <2>3, <2>4, AuthUpdateAssumption DEF Retries
<1> QED
  BY <1>2, <1>3

LEMMA RecordTypes ==
    /\ NoPersist \in [pending : BOOLEAN, mask : Masks]
    /\ NotEnsured \in [set : BOOLEAN, mask : Masks, class : PlayableClasses \cup {NoClass}]
    /\ Cleared \in Retries
    /\ \A mask \in Masks : Armed(mask) \in Retries
  BY AuthUpdateAssumption
     DEF NoPersist, NotEnsured, Cleared, Armed, Retries, Masks

------------------------------------------------------------------------------
(* What the three helpers the handlers are made of do to their variables.     *)

\* An attempt to persist leaves a well-formed file, and what stays pending is
\* what was pending.
LEMMA PersistStep ==
    ASSUME TypeOK, NEW p \in [pending : BOOLEAN, mask : Masks], NEW io \in BOOLEAN,
           TryPersistPendingMulticlassCache(p, io)
    PROVE  /\ persist' \in [pending : BOOLEAN, mask : Masks]
           /\ cache' \in Image
           /\ persist'.pending => p.pending /\ persist'.mask = p.mask
<1>1. CASE /\ p.pending
           /\ p.mask # {}
           /\ profileClass # NoClass
           /\ server # NoServer
           /\ player # NoName
           /\ io
  <2>1. /\ player \in Names
        /\ profileClass \in PlayableClasses
        /\ server \in Servers
        /\ cache \in Image
    BY <1>1 DEF TypeOK
  <2>2. /\ persist' = NoPersist
        /\ cache' \in StoreCharacterClassMask(cache, player, p.mask, profileClass, server)
    BY <1>1 DEF TryPersistPendingMulticlassCache
  <2>3. cache' \in Image
    BY <2>1, <2>2, StoreIsImage
  <2> QED
    BY <2>2, <2>3, RecordTypes DEF NoPersist
<1>2. CASE ~(/\ p.pending
             /\ p.mask # {}
             /\ profileClass # NoClass
             /\ server # NoServer
             /\ player # NoName
             /\ io)
  <2>1. persist' = [p EXCEPT !.pending = @ /\ p.mask # {}] /\ cache' = cache
    BY <1>2 DEF TryPersistPendingMulticlassCache
  <2>2. persist' = [pending |-> (p.pending /\ p.mask # {}), mask |-> p.mask]
    BY <2>1
  <2> QED
    BY <2>1, <2>2 DEF TypeOK
<1> QED
  BY <1>1, <1>2

EnsuredType == [set : BOOLEAN, mask : Masks, class : PlayableClasses \cup {NoClass}]

\* A poll of the caster retry: an attempt happens when the wait is over, starts
\* the history anew, and leaves nothing pending that is not put off.
LEMMA CasterStep ==
    ASSUME TypeOK, NEW retry \in Retries, NEW was \in EnsuredType, NEW uiOk \in BOOLEAN,
           TryRetryPendingCasterUiAccess(retry, was, uiOk)
    PROVE  /\ caster' \in Retries
           /\ ensured' \in EnsuredType
           /\ caster' \in {retry, Cleared}
                \/ /\ retry.pending
                   /\ caster'.pending
                   /\ caster'.mask = retry.mask
                   /\ caster'.attempts < MaxAttempts
                   /\ caster'.wait = Cooldown
           /\ \/ sinceAttempt' = sinceAttempt /\ gap' = gap
              \/ /\ sinceAttempt' = 0
                 /\ gap' = sinceAttempt
                 /\ retry.pending
                 /\ retry.wait = 0
                 /\ caster' = Cleared \/ caster'.wait = Cooldown
<1> DEFINE ready    == player # NoName
           eligible == ShouldArmCaster(retry.mask)
           success  == TryEnsure(retry.mask, uiOk)
<1>1. ready \in BOOLEAN /\ eligible \in BOOLEAN /\ success \in BOOLEAN
  BY DEF ShouldArmCaster, TryEnsure
<1>2. caster' = Polled(retry, ready, success, eligible)
  BY DEF TryRetryPendingCasterUiAccess
<1> HIDE DEF ready, eligible, success
<1>3. ensured' \in EnsuredType
  <2>1. Ensured(retry.mask, uiOk, was) \in EnsuredType
    BY DEF Ensured, EnsuredType, TypeOK, Retries
  <2> QED
    BY <2>1 DEF TryRetryPendingCasterUiAccess, ready
<1>4. \/ sinceAttempt' = sinceAttempt /\ gap' = gap /\ ~Attempts(retry, ready)
      \/ sinceAttempt' = 0 /\ gap' = sinceAttempt /\ Attempts(retry, ready)
  BY DEF TryRetryPendingCasterUiAccess, ready
<1>5. Attempts(retry, ready) => retry.pending
  BY DEF Attempts
<1>6. PolledTo(retry, ready, caster')
  BY <1>1, <1>2, PolledRetry
<1> QED
  BY <1>3, <1>4, <1>5, <1>6 DEF PolledTo

\* A poll of the combat-ability retry.
LEMMA CombatStep ==
    ASSUME TypeOK, NEW ready \in BOOLEAN, NEW resyncOk \in BOOLEAN,
           TryRetryPendingCombatResync(ready, resyncOk)
    PROVE  /\ combat' \in Retries
           /\ combat' \in {combat, Cleared}
                \/ /\ combat.pending
                   /\ combat'.pending
                   /\ combat'.mask = combat.mask
                   /\ combat'.attempts < MaxAttempts
<1> DEFINE able     == player # NoName /\ ready
           eligible == ShouldArmCombat(combat.mask)
<1>1. able \in BOOLEAN /\ eligible \in BOOLEAN /\ combat \in Retries
  BY DEF TypeOK, ShouldArmCombat, IsPlayableClassMask
<1>2. combat' = Polled(combat, able, resyncOk, eligible)
  BY DEF TryRetryPendingCombatResync
<1> HIDE DEF able, eligible
<1>3. PolledTo(combat, able, combat')
  BY <1>1, <1>2, PolledRetry
<1> QED
  BY <1>3 DEF PolledTo

------------------------------------------------------------------------------
(* The inductive invariant.  RetryRecordsSound, PendingUsesLatestMask and the *)
(* two halves of AttemptsSpaced need each other and the types: the mask an    *)
(* armed record holds is the one it was armed for, and an attempt can only be *)
(* spaced because the record that allows it has waited out the cooldown.      *)

AuthInv ==
    /\ TypeOK
    /\ RetryRecordsSound
    /\ PendingUsesLatestMask
    /\ AttemptsSpaced

LEMMA InitAuthInv == Init => AuthInv
<1> SUFFICES ASSUME Init PROVE AuthInv
  OBVIOUS
<1>1. TypeOK
  BY RecordTypes, AuthUpdateAssumption
     DEF Init, TypeOK, Image, Rows, NoRows, Masks
<1>2. RetryRecordsSound /\ PendingUsesLatestMask /\ AttemptsSpaced
  BY DEF Init, RetryRecordsSound, SoundRetry, PendingUsesLatestMask, AttemptsSpaced,
         Cleared, NoPersist
<1> QED
  BY <1>1, <1>2 DEF AuthInv

\* What arming a retry record makes of it.
LEMMA ArmedSound ==
    ASSUME NEW mask \in Masks, ShouldArmCombat(mask)
    PROVE  SoundRetry(Armed(mask)) /\ Armed(mask).pending /\ Armed(mask).wait = Cooldown
             /\ Armed(mask).mask = mask
  BY AuthUpdateAssumption DEF SoundRetry, Armed

LEMMA CasterMaskArms ==
    ASSUME NEW mask, ShouldArmCaster(mask)
    PROVE  ShouldArmCombat(mask) /\ HasAnyAuthoritativeCastingClass(TRUE, mask)
  BY DEF ShouldArmCaster, ShouldArmCombat, HasAnyAuthoritativeCastingClass

\* What a poll of a sound caster retry leaves of the invariant.
LEMMA CasterPollInv ==
    ASSUME TypeOK, NEW retry \in Retries, NEW was \in EnsuredType, NEW uiOk \in BOOLEAN,
           TryRetryPendingCasterUiAccess(retry, was, uiOk),
           SoundRetry(retry),
           retry.pending => HasAnyAuthoritativeCastingClass(TRUE, retry.mask),
           gap = Cooldown,
           retry.pending => retry.wait + sinceAttempt >= Cooldown
    PROVE  /\ SoundRetry(caster')
           /\ caster'.pending => /\ retry.pending
                                 /\ caster'.mask = retry.mask
                                 /\ HasAnyAuthoritativeCastingClass(TRUE, caster'.mask)
           /\ gap' = Cooldown
           /\ sinceAttempt' \in 0 .. Cooldown
           /\ caster'.pending => caster'.wait + sinceAttempt' >= Cooldown
<1>1. SoundRetry(Cleared) /\ ~Cleared.pending
  BY DEF SoundRetry, Cleared
<1>2. SoundRetry(caster')
  BY <1>1, CasterStep DEF SoundRetry
<1>3. caster'.pending => retry.pending /\ caster'.mask = retry.mask
  BY <1>1, CasterStep
<1>4. CASE sinceAttempt' = sinceAttempt /\ gap' = gap
  <2>1. caster'.pending => caster' = retry \/ caster'.wait = Cooldown
    BY <1>1, CasterStep
  <2>2. caster'.wait \in Nat /\ sinceAttempt \in 0 .. Cooldown /\ Cooldown \in Nat
    BY CasterStep, AuthUpdateAssumption DEF Retries, TypeOK
  <2>3. ASSUME caster'.pending
        PROVE  caster'.wait + sinceAttempt' >= Cooldown
    <3>1. CASE caster' = retry
      BY <1>4, <2>3, <3>1
    <3>2. CASE caster'.wait = Cooldown
      BY <1>4, <2>2, <3>2
    <3> QED
      BY <2>1, <2>3, <3>1, <3>2
  <2>4. gap' = Cooldown /\ sinceAttempt' \in 0 .. Cooldown
    BY <1>4, <2>2
  <2> QED
    BY <1>2, <1>3, <2>3, <2>4
<1>5. CASE /\ sinceAttempt' = 0
           /\ gap' = sinceAttempt
           /\ retry.pending
           /\ retry.wait = 0
           /\ caster' = Cleared \/ caster'.wait = Cooldown
  <2>1. sinceAttempt = Cooldown
    BY <1>5, AuthUpdateAssumption DEF TypeOK
  <2>2. caster'.pending => caster'.wait = Cooldown
    BY <1>1, <1>5
  <2>3. gap' = Cooldown /\ sinceAttempt' \in 0 .. Cooldown
    BY <1>5, <2>1, AuthUpdateAssumption
  <2>4. caster'.pending => caster'.wait + sinceAttempt' >= Cooldown
    BY <1>5, <2>2, AuthUpdateAssumption
  <2> QED
    BY <1>2, <1>3, <2>3, <2>4
<1> QED
  BY <1>4, <1>5, CasterStep

------------------------------------------------------------------------------
(* One lemma per action. *)

LEMMA ReceiveAuthStatsInv ==
    ASSUME AuthInv, NEW packet \in PacketMasks \cup {auth}, NEW io \in BOOLEAN,
           ReceiveAuthStats(packet, io)
    PROVE  AuthInv'
<1> USE DEF AuthInv
<1>1. auth' \in Masks /\ auth' = packet /\ stage = "idle"
  BY AuthUpdateAssumption DEF ReceiveAuthStats, TypeOK
<1>2. UNCHANGED <<caster, combat, ensured, character, player, profileClass, server,
                  sinceAttempt, gap>>
  BY DEF ReceiveAuthStats, world, history
<1>3. RetryRecordsSound' /\ AttemptsSpaced'
  BY <1>2 DEF RetryRecordsSound, SoundRetry, AttemptsSpaced
<1>4. CASE packet = {}
  <2>1. stage' = "dispatch" /\ UNCHANGED <<persist, cache>>
    BY <1>4 DEF ReceiveAuthStats
  <2>2. TypeOK'
    BY <1>1, <1>2, <2>1 DEF TypeOK
  <2>3. PendingUsesLatestMask'
    BY <1>1, <1>4, <2>1 DEF PendingUsesLatestMask
  <2> QED
    BY <1>3, <2>2, <2>3
<1>5. CASE packet # {}
  <2> DEFINE p == [pending |-> TRUE, mask |-> packet]
  <2>1. stage' = "refresh" /\ TryPersistPendingMulticlassCache(p, io)
    BY <1>1, <1>5 DEF ReceiveAuthStats
  <2>2. p \in [pending : BOOLEAN, mask : Masks]
    BY <1>1
  <2>3. /\ persist' \in [pending : BOOLEAN, mask : Masks]
        /\ cache' \in Image
        /\ persist'.pending => persist'.mask = packet
    BY <2>1, <2>2, PersistStep
  <2>4. TypeOK'
    BY <1>1, <1>2, <2>1, <2>3 DEF TypeOK
  <2>5. PendingUsesLatestMask'
    BY <1>1, <2>1, <2>3 DEF PendingUsesLatestMask
  <2> QED
    BY <1>3, <2>4, <2>5
<1> QED
  BY <1>4, <1>5

LEMMA NotifyRetriesInv ==
    ASSUME AuthInv, NEW uiOk \in BOOLEAN, NEW resyncOk \in BOOLEAN,
           NotifyRetries(uiOk, resyncOk)
    PROVE  AuthInv'
<1> USE DEF AuthInv
<1>1. /\ stage' = "dispatch"
      /\ UNCHANGED <<auth, persist, cache, character, player, profileClass, server,
                     sinceAttempt, gap>>
  BY DEF NotifyRetries, world, history
<1>2. auth \in Masks
  BY DEF TypeOK
<1>3. \/ combat' = Cleared
      \/ combat' = Armed(auth) /\ ShouldArmCombat(auth)
  BY DEF NotifyRetries
<1>4. \/ caster' = Cleared
      \/ caster' = Armed(auth) /\ ShouldArmCaster(auth)
  BY DEF NotifyRetries
<1>5. SoundRetry(Cleared) /\ ~Cleared.pending
  BY DEF SoundRetry, Cleared
<1>6. /\ SoundRetry(combat')
      /\ combat'.pending => combat'.mask = auth
  BY <1>2, <1>3, <1>5, ArmedSound
<1>7. /\ SoundRetry(caster')
      /\ caster'.pending => /\ caster'.mask = auth
                            /\ caster'.wait = Cooldown
                            /\ HasAnyAuthoritativeCastingClass(TRUE, caster'.mask)
  BY <1>2, <1>4, <1>5, ArmedSound, CasterMaskArms
<1>8. caster' \in Retries /\ combat' \in Retries
  BY <1>2, <1>3, <1>4, RecordTypes
<1>9. ensured' \in EnsuredType
  BY <1>2 DEF NotifyRetries, Ensured, EnsuredType, TypeOK
<1>10. TypeOK'
  BY <1>1, <1>8, <1>9 DEF TypeOK, EnsuredType
<1>11. RetryRecordsSound'
  BY <1>6, <1>7 DEF RetryRecordsSound, SoundRetry, ShouldArmCombat,
                    HasAnyAuthoritativeCastingClass, IsPlayableClassMask, Cleared
<1>12. PendingUsesLatestMask'
  BY <1>1, <1>6, <1>7 DEF PendingUsesLatestMask
<1>13. AttemptsSpaced'
  <2>1. sinceAttempt' = sinceAttempt /\ gap' = gap /\ sinceAttempt \in 0 .. Cooldown
    BY <1>1 DEF TypeOK
  <2>2. Cooldown + sinceAttempt >= Cooldown
    BY <2>1, AuthUpdateAssumption
  <2> QED
    BY <1>7, <2>1, <2>2 DEF AttemptsSpaced
<1> QED
  BY <1>10, <1>11, <1>12, <1>13

LEMMA AfterDispatchInv ==
    ASSUME AuthInv, NEW uiOk \in BOOLEAN, NEW ready \in BOOLEAN, NEW resyncOk \in BOOLEAN,
           AfterDispatch(uiOk, ready, resyncOk)
    PROVE  AuthInv'
<1> USE DEF AuthInv
<1> DEFINE retry == IF RearmsForZone THEN Armed(auth) ELSE caster
           was   == IF RearmsForZone THEN NotEnsured ELSE ensured
<1>1. /\ stage' = "idle" /\ stage # "refresh"
      /\ UNCHANGED <<auth, persist, cache, character, player, profileClass, server>>
      /\ TryRetryPendingCombatResync(ready, resyncOk)
  BY DEF AfterDispatch, world
<1>2. TryRetryPendingCasterUiAccess(retry, was, uiOk)
  BY DEF AfterDispatch
<1>3. retry \in Retries /\ was \in EnsuredType
  BY RecordTypes DEF TypeOK, EnsuredType
<1>4. /\ SoundRetry(retry)
      /\ retry.pending => HasAnyAuthoritativeCastingClass(TRUE, retry.mask)
      /\ retry.pending => retry.wait + sinceAttempt >= Cooldown
      /\ retry.pending => auth \in {retry.mask, {}}
  <2>1. CASE RearmsForZone
    <3>1. retry = Armed(auth) /\ ShouldArmCaster(auth) /\ auth \in Masks
      BY <2>1 DEF RearmsForZone, TypeOK
    <3>2. /\ SoundRetry(retry)
          /\ retry.wait = Cooldown
          /\ retry.mask = auth
          /\ HasAnyAuthoritativeCastingClass(TRUE, auth)
      BY <3>1, ArmedSound, CasterMaskArms
    <3>3. Cooldown + sinceAttempt >= Cooldown
      BY AuthUpdateAssumption DEF TypeOK
    <3> QED
      BY <3>2, <3>3
  <2>2. CASE ~RearmsForZone
    BY <1>1, <2>2 DEF RetryRecordsSound, AttemptsSpaced, PendingUsesLatestMask
  <2> QED
    BY <2>1, <2>2
<1> HIDE DEF retry, was
<1>5. gap = Cooldown
  BY DEF AttemptsSpaced
<1>6. /\ SoundRetry(caster')
      /\ caster'.pending => /\ retry.pending
                            /\ caster'.mask = retry.mask
                            /\ HasAnyAuthoritativeCastingClass(TRUE, caster'.mask)
      /\ gap' = Cooldown
      /\ sinceAttempt' \in 0 .. Cooldown
      /\ caster'.pending => caster'.wait + sinceAttempt' >= Cooldown
  BY <1>2, <1>3, <1>4, <1>5, CasterPollInv
<1>7. caster' \in Retries /\ ensured' \in EnsuredType
  BY <1>2, <1>3, CasterStep
<1>8. /\ combat' \in Retries
      /\ SoundRetry(combat')
      /\ combat'.pending => combat.pending /\ combat'.mask = combat.mask
  BY <1>1, CombatStep DEF RetryRecordsSound, SoundRetry, Cleared
<1>9. TypeOK'
  BY <1>1, <1>6, <1>7, <1>8, AuthUpdateAssumption DEF TypeOK, EnsuredType
<1>10. RetryRecordsSound'
  BY <1>6, <1>8 DEF RetryRecordsSound, SoundRetry, ShouldArmCombat,
                    HasAnyAuthoritativeCastingClass, IsPlayableClassMask, Cleared
<1>11. PendingUsesLatestMask'
  BY <1>1, <1>4, <1>6, <1>8 DEF PendingUsesLatestMask
<1>12. AttemptsSpaced'
  BY <1>6 DEF AttemptsSpaced
<1> QED
  BY <1>9, <1>10, <1>11, <1>12

LEMMA DisplaySurfaceInv ==
    ASSUME AuthInv, NEW io \in BOOLEAN, NEW uiOk \in BOOLEAN, NEW ready \in BOOLEAN,
           NEW resyncOk \in BOOLEAN, DisplaySurface(io, uiOk, ready, resyncOk)
    PROVE  AuthInv'
<1> USE DEF AuthInv
<1>1. /\ UNCHANGED <<stage, auth, character, player, profileClass, server>>
      /\ TryPersistPendingMulticlassCache(persist, io)
      /\ TryRetryPendingCasterUiAccess(caster, ensured, uiOk)
      /\ TryRetryPendingCombatResync(ready, resyncOk)
  BY DEF DisplaySurface, world
<1>2. /\ persist \in [pending : BOOLEAN, mask : Masks]
      /\ caster \in Retries
      /\ ensured \in EnsuredType
  BY DEF TypeOK, EnsuredType
<1>3. /\ persist' \in [pending : BOOLEAN, mask : Masks]
      /\ cache' \in Image
      /\ persist'.pending => persist.pending /\ persist'.mask = persist.mask
  BY <1>1, <1>2, PersistStep
<1>4. /\ SoundRetry(caster)
      /\ caster.pending => HasAnyAuthoritativeCastingClass(TRUE, caster.mask)
      /\ gap = Cooldown
      /\ caster.pending => caster.wait + sinceAttempt >= Cooldown
  BY DEF RetryRecordsSound, AttemptsSpaced
<1>5. /\ SoundRetry(caster')
      /\ caster'.pending => /\ caster.pending
                            /\ caster'.mask = caster.mask
                            /\ HasAnyAuthoritativeCastingClass(TRUE, caster'.mask)
      /\ gap' = Cooldown
      /\ sinceAttempt' \in 0 .. Cooldown
      /\ caster'.pending => caster'.wait + sinceAttempt' >= Cooldown
  BY <1>1, <1>2, <1>4, CasterPollInv
<1>6. caster' \in Retries /\ ensured' \in EnsuredType
  BY <1>1, <1>2, CasterStep
<1>7. /\ combat' \in Retries
      /\ SoundRetry(combat')
      /\ combat'.pending => combat.pending /\ combat'.mask = combat.mask
  BY <1>1, CombatStep DEF RetryRecordsSound, SoundRetry, Cleared
<1>8. TypeOK'
  BY <1>1, <1>3, <1>5, <1>6, <1>7, AuthUpdateAssumption DEF TypeOK, EnsuredType
<1>9. RetryRecordsSound'
  BY <1>5, <1>7 DEF RetryRecordsSound, SoundRetry, ShouldArmCombat,
                    HasAnyAuthoritativeCastingClass, IsPlayableClassMask, Cleared
<1>10. PendingUsesLatestMask'
  BY <1>1, <1>3, <1>5, <1>7 DEF PendingUsesLatestMask
<1>11. AttemptsSpaced'
  BY <1>5 DEF AttemptsSpaced
<1> QED
  BY <1>8, <1>9, <1>10, <1>11

LEMMA TickInv ==
    ASSUME AuthInv, Tick
    PROVE  AuthInv'
<1> USE DEF AuthInv
<1>1. /\ UNCHANGED <<stage, auth, persist, ensured, cache, character, player,
                     profileClass, server, gap>>
      /\ caster' = [caster EXCEPT !.wait = Down(@)]
      /\ combat' = [combat EXCEPT !.wait = Down(@)]
      /\ sinceAttempt' = IF sinceAttempt < Cooldown THEN sinceAttempt + 1 ELSE sinceAttempt
  BY DEF Tick, world
<1>2. \A n \in 0 .. Cooldown : Down(n) \in 0 .. Cooldown /\ (n = 0 => Down(n) = n)
                               /\ Down(n) + 1 >= n
  BY AuthUpdateAssumption DEF Down
<1>3. /\ caster.wait \in 0 .. Cooldown /\ combat.wait \in 0 .. Cooldown
      /\ sinceAttempt \in 0 .. Cooldown
      /\ caster \in Retries /\ combat \in Retries
  BY DEF TypeOK, Retries
<1>4. /\ caster' = [pending |-> caster.pending, mask |-> caster.mask,
                    attempts |-> caster.attempts, wait |-> Down(caster.wait)]
      /\ combat' = [pending |-> combat.pending, mask |-> combat.mask,
                    attempts |-> combat.attempts, wait |-> Down(combat.wait)]
  BY <1>1, <1>3 DEF Retries
<1>5. caster' \in Retries /\ combat' \in Retries
  BY <1>2, <1>3, <1>4 DEF Retries
<1>6. TypeOK'
  <2>1. sinceAttempt' \in 0 .. Cooldown
    BY <1>1, <1>3, AuthUpdateAssumption
  <2> QED
    BY <1>1, <1>5, <2>1 DEF TypeOK
<1>7. RetryRecordsSound'
  <2>1. ASSUME NEW retry \in Retries, SoundRetry(retry)
        PROVE  SoundRetry([pending |-> retry.pending, mask |-> retry.mask,
                           attempts |-> retry.attempts, wait |-> Down(retry.wait)])
    <3>1. CASE retry.pending
      BY <2>1, <3>1 DEF SoundRetry
    <3>2. CASE ~retry.pending
      <4>1. retry = Cleared
        BY <2>1, <3>2 DEF SoundRetry
      <4>2. Down(0) = 0
        BY DEF Down
      <4> QED
        BY <4>1, <4>2 DEF SoundRetry, Cleared
    <3> QED
      BY <3>1, <3>2
  <2>2. SoundRetry(caster') /\ SoundRetry(combat')
    BY <1>3, <1>4, <2>1 DEF RetryRecordsSound
  <2>3. caster'.pending => HasAnyAuthoritativeCastingClass(TRUE, caster'.mask)
    BY <1>4 DEF RetryRecordsSound
  <2> QED
    BY <2>2, <2>3 DEF RetryRecordsSound, SoundRetry, ShouldArmCombat,
                      HasAnyAuthoritativeCastingClass, IsPlayableClassMask, Cleared
<1>8. PendingUsesLatestMask'
  BY <1>1, <1>4 DEF PendingUsesLatestMask
<1>9. AttemptsSpaced'
  <2>1. ASSUME caster.pending
        PROVE  Down(caster.wait) + sinceAttempt' >= Cooldown
    BY <1>1, <1>2, <1>3, <2>1, AuthUpdateAssumption DEF AttemptsSpaced
  <2> QED
    BY <1>1, <1>4, <2>1 DEF AttemptsSpaced
<1> QED
  BY <1>6, <1>7, <1>8, <1>9

\* The steps that change neither a pending record nor the mask.
\* Steps that only change what the hooks read of the client, whichever they are.
LEMMA WorldChangesInv ==
    ASSUME AuthInv,
           UNCHANGED <<auth, persist, caster, combat, ensured, cache, sinceAttempt, gap>>,
           stage' = stage \/ stage = "idle",
           stage' \in {"idle", "refresh", "dispatch", "dispatchZone"},
           character' \in Names \cup {NoName},
           player' \in Names \cup {NoName},
           profileClass' \in PlayableClasses \cup {NoClass},
           server' \in Servers \cup {NoServer}
    PROVE  AuthInv'
<1> USE DEF AuthInv
<1>1. TypeOK'
  BY DEF TypeOK
<1>2. RetryRecordsSound' /\ AttemptsSpaced'
  BY DEF RetryRecordsSound, SoundRetry, AttemptsSpaced
<1>3. PendingUsesLatestMask'
  BY DEF PendingUsesLatestMask
<1> QED
  BY <1>1, <1>2, <1>3

LEMMA OtherStepsInv ==
    ASSUME AuthInv,
           \/ \E next \in {"dispatch", "dispatchZone"} : ReceiveOther(next)
           \/ Client
           \/ UNCHANGED vars
    PROVE  AuthInv'
<1> USE DEF AuthInv
<1>1. /\ UNCHANGED <<auth, persist, caster, combat, ensured, cache, sinceAttempt, gap>>
      /\ stage' = stage \/ stage = "idle"
      /\ stage' \in {"idle", "refresh", "dispatch", "dispatchZone"}
  BY DEF ReceiveOther, Client, Login, Zoning, Logout, vars, world, history, TypeOK
<1>2. /\ character' \in Names \cup {NoName}
      /\ player' \in Names \cup {NoName}
      /\ profileClass' \in PlayableClasses \cup {NoClass}
      /\ server' \in Servers \cup {NoServer}
  <2>1. CASE \E name \in Names, on \in Servers : Login(name, on)
    BY <2>1, AuthUpdateAssumption DEF Login, TypeOK
  <2>2. CASE \E spawn, profile \in BOOLEAN : Zoning(spawn, profile)
    BY <2>2, AuthUpdateAssumption DEF Zoning, TypeOK
  <2>3. CASE Logout
    BY <2>3 DEF Logout, TypeOK
  <2>4. CASE \/ \E next \in {"dispatch", "dispatchZone"} : ReceiveOther(next)
             \/ UNCHANGED vars
    BY <2>4 DEF ReceiveOther, vars, world, TypeOK
  <2> QED
    BY <2>1, <2>2, <2>3, <2>4 DEF Client
<1> QED
  BY <1>1, <1>2, WorldChangesInv

LEMMA NextAuthInv == AuthInv /\ [Next]_vars => AuthInv'
<1> SUFFICES ASSUME AuthInv, [Next]_vars PROVE AuthInv'
  OBVIOUS
<1>1. CASE \E packet \in PacketMasks \cup {auth}, io \in BOOLEAN :
             ReceiveAuthStats(packet, io)
  BY <1>1, ReceiveAuthStatsInv
<1>2. CASE \E uiOk, resyncOk \in BOOLEAN : NotifyRetries(uiOk, resyncOk)
  BY <1>2, NotifyRetriesInv
<1>3. CASE \E uiOk, ready, resyncOk \in BOOLEAN : AfterDispatch(uiOk, ready, resyncOk)
  BY <1>3, AfterDispatchInv
<1>4. CASE \E io, uiOk, ready, resyncOk \in BOOLEAN :
             DisplaySurface(io, uiOk, ready, resyncOk)
  BY <1>4, DisplaySurfaceInv
<1>5. CASE Tick
  BY <1>5, TickInv
<1>6. CASE \/ \E next \in {"dispatch", "dispatchZone"} : ReceiveOther(next)
           \/ Client
           \/ UNCHANGED vars
  BY <1>6, OtherStepsInv
<1> QED
  BY <1>1, <1>2, <1>3, <1>4, <1>5, <1>6 DEF Next, ReceivePacket, Handlers

\* The records, the spacing of attempts and the stage of a packet agree after every
\* handler (NotifyServerAuthStatsUpdated, ReceiveDispatchHook and its polls).
THEOREM AuthInvariant == Spec => []AuthInv
<1> QED
  BY InitAuthInv, NextAuthInv, PTL DEF Spec

------------------------------------------------------------------------------
(* The theorems. *)

\* The variables of the update, its retry records and the cache file stay well
\* formed for every number of attempts and every cooldown.
THEOREM TypeCorrect == Spec => []TypeOK
<1>1. AuthInv => TypeOK
  BY DEF AuthInv
<1> QED
  BY <1>1, AuthInvariant, PTL

\* A retry that is pending has attempts left and a mask some attempt can
\* succeed for; one that is not is all zero (hook_manager.cpp:6706-6939).
THEOREM RetriesSound == Spec => []RetryRecordsSound
<1>1. AuthInv => RetryRecordsSound
  BY DEF AuthInv
<1> QED
  BY <1>1, AuthInvariant, PTL

\* Nothing pending acts for a mask the server has replaced by another nonzero
\* one (NotifyServerAuthStatsUpdated arms or clears every record).
THEOREM LatestMaskPending == Spec => []PendingUsesLatestMask
<1>1. AuthInv => PendingUsesLatestMask
  BY DEF AuthInv
<1> QED
  BY <1>1, AuthInvariant, PTL

\* Polled UI attempts are a cooldown apart for every budget and cooldown.
THEOREM PolledAttemptsSpaced == Spec => []AttemptsSpaced
<1>1. AuthInv => AttemptsSpaced
  BY DEF AuthInv
<1> QED
  BY <1>1, AuthInvariant, PTL
------------------------------------------------------------------------------
(* A store that stops being pending can be found again, as long as the file   *)
(* has room for every character and std::sort leaves the new row behind the   *)
(* old one of the same name: it has few rows, or there is one server.         *)

StoresFit ==
    /\ IsFiniteSet(Names)
    /\ Cardinality(Names) < MaxRows
    /\ \/ Cardinality(Names) < SmallSort
       \/ \A on, other \in Servers : on = other

LEMMA RowsFit ==
    ASSUME StoresFit, NEW rows, NEW name, NEW row
    PROVE  /\ ~(RowsWritten(rows, name, row) > MaxRows)
           /\ Cardinality(Names) < SmallSort => ~(RowsWritten(rows, name, row) > SmallSort)
<1> DEFINE written == [rows EXCEPT ![name] = row]
           present == {n \in Names : written[n] # NoRow}
<1>1. IsFiniteSet(present) /\ Cardinality(present) <= Cardinality(Names)
  BY FS_Subset DEF StoresFit
<1>2. Cardinality(present) \in Nat /\ Cardinality(Names) \in Nat
  BY <1>1, FS_CardinalityType DEF StoresFit
<1>3. RowsWritten(rows, name, row)
         = Cardinality(present) + (IF Shadowed(rows, name, row) THEN 1 ELSE 0)
  BY DEF RowsWritten, CountRows
<1> HIDE DEF present
<1> QED
  BY <1>1, <1>2, <1>3, CacheFileAssumption DEF StoresFit

\* No other row of the name outlives the new one in the sorted file.
LEMMA NewRowIsLast ==
    ASSUME StoresFit, NEW image \in Image, NEW name \in Names, NEW row \in Row,
           row.server \in Servers
    PROVE  LastRow(ReadCacheEntries(image), name, row) = {row}
<1> DEFINE rows == ReadCacheEntries(image)
           old  == rows[name]
<1>1. CASE Cardinality(Names) < SmallSort
  BY <1>1, RowsFit DEF LastRow
<1>2. CASE \A on, other \in Servers : on = other
  <2>1. old \in Row \cup {NoRow}
    BY ReadIsRows DEF Rows
  <2>2. RowKept("V3", old) => old.server \in Servers
    BY <2>1 DEF RowKept, Row
  <2>3. RowKept("V3", old) => ~Shadowed(rows, name, row)
    BY <1>2, <2>2 DEF Shadowed
  <2> QED
    BY <2>3 DEF LastRow
<1> QED
  BY <1>1, <1>2 DEF StoresFit

\* The round trip of a store: what it writes, a lookup by the same name, class and
\* server reads back.
LEMMA StoreIsFound ==
    ASSUME StoresFit, NEW image \in Image, NEW name \in Names, NEW mask \in Masks,
           NEW native \in PlayableClasses, NEW on \in Servers,
           NEW new \in StoreCharacterClassMask(image, name, mask, native, on)
    PROVE  TryLookupCharacterClassMask(new, name, native, on) = {mask}
<1> DEFINE rows == ReadCacheEntries(image)
           row  == CacheRow(mask, native, on)
<1>1. row \in Row /\ row.mask = mask /\ row.native = native /\ row.server = on
  BY DEF CacheRow, Row
<1>2. rows \in Rows
  BY ReadIsRows
<1>3. native # NoClass /\ on # NoServer /\ row # NoRow
  BY <1>1, ClassAssumption, CacheFileAssumption
<1>4. new = [format |-> "V3", rows |-> [rows EXCEPT ![name] = row]]
  <2>1. PICK last \in LastRow(rows, name, row) :
          new = [format |-> IF RowsWritten(rows, name, row) > MaxRows
                            THEN "unreadable" ELSE "V3",
                 rows   |-> [rows EXCEPT ![name] = last]]
    BY DEF StoreCharacterClassMask, BuildCacheFileContents
  <2>2. last = row
    BY <1>1, NewRowIsLast
  <2> QED
    BY <2>1, <2>2, RowsFit
<1>5. new.format = "V3" /\ new.rows[name] = row
  BY <1>2, <1>4 DEF Rows
<1> HIDE DEF row, rows
<1>6. RowKept("V3", row) /\ RowFields("V3", row) = row
  BY <1>1, <1>3 DEF RowKept, RowFields, Row
<1>7. ReadCacheEntries(new)[name] = row
  BY <1>5, <1>6 DEF ReadCacheEntries, ParseCacheEntries
<1> QED
  BY <1>1, <1>3, <1>7 DEF TryLookupCharacterClassMask

\* An attempt to persist that leaves nothing pending of a nonzero mask has stored it.
LEMMA PersistedFound ==
    ASSUME StoresFit, TypeOK, NEW p \in [pending : BOOLEAN, mask : Masks], NEW io \in BOOLEAN,
           p.pending, p.mask # {},
           TryPersistPendingMulticlassCache(p, io), ~persist'.pending
    PROVE  TryLookupCharacterClassMask(cache', player, profileClass, server) = {p.mask}
<1>1. /\ profileClass # NoClass
      /\ server # NoServer
      /\ player # NoName
      /\ io
  <2> SUFFICES ASSUME ~(/\ profileClass # NoClass
                        /\ server # NoServer
                        /\ player # NoName
                        /\ io)
               PROVE  FALSE
    OBVIOUS
  <2>1. persist' = [p EXCEPT !.pending = @ /\ p.mask # {}]
    BY DEF TryPersistPendingMulticlassCache
  <2>2. persist'.pending
    BY <2>1
  <2> QED
    BY <2>2
<1>2. cache' \in StoreCharacterClassMask(cache, player, p.mask, profileClass, server)
  BY <1>1 DEF TryPersistPendingMulticlassCache
<1>3. player \in Names /\ profileClass \in PlayableClasses /\ server \in Servers /\ cache \in Image
  BY <1>1 DEF TypeOK
<1> QED
  BY <1>2, <1>3, StoreIsFound

\* What is pending is a nonzero mask.
PersistInv == AuthInv /\ (persist.pending => persist.mask # {})

LEMMA NextPersistInv == PersistInv /\ [Next]_vars => PersistInv'
<1> SUFFICES ASSUME PersistInv, [Next]_vars PROVE PersistInv'
  OBVIOUS
<1>1. AuthInv' /\ TypeOK
  BY NextAuthInv DEF PersistInv, AuthInv
<1>2. ASSUME NEW packet \in PacketMasks \cup {auth}, NEW io \in BOOLEAN,
             ReceiveAuthStats(packet, io)
      PROVE  persist'.pending => persist'.mask # {}
  <2>1. CASE auth' = {}
    BY <1>2, <2>1 DEF ReceiveAuthStats, PersistInv
  <2>2. CASE auth' # {}
    <3> DEFINE p == [pending |-> TRUE, mask |-> auth']
    <3>1. p \in [pending : BOOLEAN, mask : Masks]
      BY <1>1 DEF AuthInv, TypeOK
    <3>2. TryPersistPendingMulticlassCache(p, io) /\ p.mask # {}
      BY <1>2, <2>2 DEF ReceiveAuthStats
    <3> HIDE DEF p
    <3> QED
      BY <1>1, <3>1, <3>2, PersistStep
  <2> QED
    BY <2>1, <2>2
<1>3. ASSUME NEW io \in BOOLEAN, NEW uiOk \in BOOLEAN, NEW ready \in BOOLEAN,
             NEW resyncOk \in BOOLEAN, DisplaySurface(io, uiOk, ready, resyncOk)
      PROVE  persist'.pending => persist'.mask # {}
  <2>1. persist \in [pending : BOOLEAN, mask : Masks]
    BY <1>1 DEF TypeOK
  <2>2. persist'.pending => persist.pending /\ persist'.mask = persist.mask
    BY <1>1, <1>3, <2>1, PersistStep DEF DisplaySurface
  <2> QED
    BY <2>2 DEF PersistInv
<1>4. CASE UNCHANGED persist
  BY <1>1, <1>4 DEF PersistInv
<1> QED
  BY <1>1, <1>2, <1>3, <1>4
     DEF PersistInv, Next, ReceivePacket, Handlers, Client, ReceiveOther, NotifyRetries,
         AfterDispatch, Tick, Login, Zoning, Logout, vars

LEMMA PersistInvariant == Spec => []PersistInv
<1>1. Init => PersistInv
  BY InitAuthInv DEF PersistInv, Init, NoPersist
<1> QED
  BY <1>1, NextPersistInv, PTL DEF Spec

MaskFound ==
    /\ persist.pending \/ (stage = "idle" /\ stage' = "refresh")
    /\ ~persist'.pending
    => TryLookupCharacterClassMask(cache', player, profileClass, server) = {MaskToPersist}

LEMMA StepFinds ==
    ASSUME StoresFit, PersistInv, [Next]_vars
    PROVE  [MaskFound]_vars
<1>1. TypeOK /\ TypeOK' /\ persist \in [pending : BOOLEAN, mask : Masks]
  BY NextAuthInv DEF PersistInv, AuthInv, TypeOK
<1>2. ASSUME NEW packet \in PacketMasks \cup {auth}, NEW io \in BOOLEAN,
             ReceiveAuthStats(packet, io)
      PROVE  MaskFound
  <2>1. CASE auth' = {}
    BY <1>2, <2>1 DEF ReceiveAuthStats, MaskFound
  <2>2. CASE auth' # {}
    <3> DEFINE p == [pending |-> TRUE, mask |-> auth']
    <3>1. p \in [pending : BOOLEAN, mask : Masks] /\ p.pending /\ p.mask = auth'
      BY <1>1 DEF TypeOK
    <3>2. TryPersistPendingMulticlassCache(p, io) /\ p.mask # {}
      BY <1>2, <2>2 DEF ReceiveAuthStats
    <3>3. MaskToPersist = auth'
      BY <1>2, <2>2 DEF ReceiveAuthStats, MaskToPersist
    <3> HIDE DEF p
    <3> QED
      BY <1>1, <3>1, <3>2, <3>3, PersistedFound DEF MaskFound
  <2> QED
    BY <2>1, <2>2
<1>3. ASSUME NEW io \in BOOLEAN, NEW uiOk \in BOOLEAN, NEW ready \in BOOLEAN,
             NEW resyncOk \in BOOLEAN, DisplaySurface(io, uiOk, ready, resyncOk)
      PROVE  MaskFound
  <2>1. TryPersistPendingMulticlassCache(persist, io) /\ stage' = stage
    BY <1>3 DEF DisplaySurface
  <2>2. MaskToPersist = persist.mask /\ ~(stage = "idle" /\ stage' = "refresh")
    BY <2>1 DEF MaskToPersist
  <2> QED
    BY <1>1, <2>1, <2>2, PersistedFound DEF PersistInv, MaskFound
<1>4. CASE UNCHANGED persist /\ (stage = "idle" => stage' # "refresh")
  BY <1>4 DEF MaskFound
<1>5. CASE UNCHANGED vars
  BY <1>5
<1> QED
  BY <1>2, <1>3, <1>4, <1>5
     DEF Next, ReceivePacket, Handlers, Client, ReceiveOther, NotifyRetries,
         AfterDispatch, Tick, Login, Zoning, Logout

\* A mask stops being pending only once a lookup by the same name, class and server
\* finds it in the file (TryPersistPendingMulticlassCache, StoreCharacterClassMask and
\* the parse of what it wrote).
THEOREM PersistedMaskIsFound ==
    ASSUME StoresFit
    PROVE  Spec => PersistedIsFound
<1>1. PersistInv /\ [Next]_vars => [MaskFound]_vars
  BY StepFinds
<1> QED
  BY <1>1, PersistInvariant, PTL DEF Spec, PersistedIsFound, MaskFound
===============================================================================
