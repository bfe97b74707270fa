-------------------------- MODULE LanGuardsProofs ---------------------------
(***************************************************************************)
(* Proofs about the two guards of a machine on the local network, which    *)
(* share no state: ReplayGuard, which decides whether an envelope is       *)
(* handled, and KnownPeers, which decides whose announcement is believed.  *)
(*                                                                         *)
(* ReplayGuard, for any number of envelopes, senders and connections and   *)
(* any times that satisfy the assumptions: no bucket grows over its limit, *)
(* and an envelope is handled once.  What is inductive is what a bucket    *)
(* remembers (Noted): an envelope that was handled is in the bucket since  *)
(* then, or was deleted for its age, or was the oldest of a full bucket,   *)
(* whose other nonces were all handled since.  A timestamp that is accepted*)
(* is not older than a nonce that is kept (Past <= TTL), so that what is   *)
(* accepted and was deleted for its age was sealed, by its own timestamp,  *)
(* after it was handled.                                                   *)
(*                                                                         *)
(* KnownPeers, for any number of machines, names and keys, any mapping of  *)
(* machines to names and any number of failed saves: the typing, that the  *)
(* table agrees with the pins, and that pins stay.                         *)
(***************************************************************************)
EXTENDS ReplayGuard, KnownPeers, FiniteSetTheorems, TLAPS

(* A handler holds an envelope that was sealed.                            *)
Sealed ==
  /\ \A h \in Handlers :
       at[h] # "idle" => env[h] \in Envelopes /\ stamp[env[h]] # Unsealed
  /\ \A e \in Envelopes : lastTime[e] # Nil => stamp[e] # Unsealed

(* What was fresh still is, unless the clock went on.                      *)
StillFresh ==
  \A h \in Handlers : at[h] = "fresh" => h \in slow \/ Fresh(env[h])

(* Nothing was handled in the future.                                      *)
History == \A e \in Envelopes : lastTime[e] # Nil => lastTime[e] <= now

(* A bucket has the nonces of its sender, each since it was last handled.  *)
Filed ==
  \A k \in Senders : \A e \in Envelopes :
    buckets[k][e] # Nil => KeyOf[e] = k /\ buckets[k][e] = lastTime[e]

(* What a bucket remembers.                                                *)
Noted ==
  \A e \in Envelopes :
    lastTime[e] # Nil =>
      \/ buckets[KeyOf[e]][e] = lastTime[e]
      \/ /\ buckets[KeyOf[e]][e] = Nil
         /\ lastTime[e] < now - TTL \/ Crowded(e)

Bounded == \A k \in Senders : Cardinality(Nonces(buckets[k])) <= Cap

ReplayInv ==
  ReplayTypeOK /\ Sealed /\ StillFresh /\ History /\ Filed /\ Noted
-----------------------------------------------------------------------------
(* The initial states satisfy the inductive invariant.                     *)
LEMMA ReplayInitInv == ReplayInit => ReplayInv
<1> SUFFICES ASSUME ReplayInit PROVE ReplayInv
  OBVIOUS
<1> USE TimesAssumption, EnvelopeAssumption DEF ReplayInit
<1>1. ReplayTypeOK
  <2>1. \A k \in Senders : Nonces(buckets[k]) = {}
    BY DEF Nonces
  <2>2. Bounded
    <3>1. Cardinality({}) = 0 /\ 0 <= Cap
      BY FS_EmptySet
    <3> QED
      BY <2>1, <3>1 DEF Bounded
  <2>3. buckets \in [Senders -> [Envelopes -> Moments]]
    BY DEF Moments
  <2>4. now \in 1..MaxTime /\ restarts \in 0..MaxRestarts
    OBVIOUS
  <2>5. stamp \in [Envelopes -> Int]
    BY DEF Unsealed
  <2>6. lastTime \in [Envelopes -> Moments]
    BY DEF Moments
  <2>7. /\ at \in [Handlers -> {"idle", "opened", "fresh"}]
        /\ env \in [Handlers -> Envelopes \cup {Nil}]
        /\ slow \subseteq Handlers
    OBVIOUS
  <2> QED
    BY <2>2, <2>3, <2>4, <2>5, <2>6, <2>7 DEF ReplayTypeOK, Bounded
<1>2. Sealed /\ StillFresh
  BY DEF Sealed, StillFresh
<1>3. History /\ Filed /\ Noted
  BY DEF History, Filed, Noted
<1> QED
  BY <1>1, <1>2, <1>3 DEF ReplayInv

-----------------------------------------------------------------------------
(* What is kept of a bucket is in it, and what is not kept is old.         *)
LEMMA Keeping ==
  ASSUME ReplayTypeOK, NEW k \in Senders
  PROVE  /\ Kept(k) \in [Envelopes -> Moments]
         /\ Nonces(Kept(k)) \subseteq Nonces(buckets[k])
         /\ \A e \in Envelopes :
              \/ Kept(k)[e] = buckets[k][e]
              \/ /\ Kept(k)[e] = Nil /\ buckets[k][e] # Nil
                 /\ buckets[k][e] < now - TTL
  BY TimesAssumption, EnvelopeAssumption DEF Kept, ReplayTypeOK, Nonces, Moments

(* A bucket has finitely many nonces, and no more than before.             *)
LEMMA KeptFits ==
  ASSUME ReplayTypeOK, NEW k \in Senders
  PROVE  /\ IsFiniteSet(Nonces(Kept(k)))
         /\ Cardinality(Nonces(Kept(k))) \in Nat
         /\ Cardinality(Nonces(Kept(k))) <= Cap
<1>1. Nonces(buckets[k]) \subseteq Envelopes
  BY DEF Nonces
<1>2. IsFiniteSet(Nonces(buckets[k]))
  BY <1>1, FS_Subset, EnvelopeAssumption
<1>3. Nonces(Kept(k)) \subseteq Nonces(buckets[k])
  BY Keeping
<1>4. /\ IsFiniteSet(Nonces(Kept(k)))
      /\ Cardinality(Nonces(Kept(k))) <= Cardinality(Nonces(buckets[k]))
  BY <1>2, <1>3, FS_Subset
<1>5. Cardinality(Nonces(buckets[k])) <= Cap
  BY DEF ReplayTypeOK
<1>6. /\ Cardinality(Nonces(Kept(k))) \in Nat
      /\ Cardinality(Nonces(buckets[k])) \in Nat
  BY <1>2, <1>4, FS_CardinalityType
<1> QED
  BY <1>4, <1>5, <1>6, TimesAssumption

(* The bucket of an envelope after it was handled: room was made for one.  *)
Replaced(k, e, gone) ==
  [d \in Envelopes |-> IF d = e THEN now
                       ELSE IF d \in gone THEN Nil
                       ELSE Kept(k)[d]]

LEMMA Fits ==
  ASSUME ReplayTypeOK, NEW k \in Senders, NEW e \in Envelopes,
         NEW gone \in Victims(Kept(k))
  PROVE  /\ Cardinality(Nonces(Replaced(k, e, gone))) <= Cap
         /\ gone \subseteq Envelopes
<1> DEFINE old == Nonces(Kept(k))
           left == old \ gone
<1>0. /\ IsFiniteSet(old) /\ Cardinality(old) \in Nat
      /\ Cardinality(old) <= Cap /\ Cap \in Nat \ {0}
  BY KeptFits, TimesAssumption
<1>1. Nonces(Replaced(k, e, gone)) \subseteq left \cup {e}
  BY EnvelopeAssumption DEF Nonces, Replaced
<1>2. /\ gone \subseteq old /\ IsFiniteSet(left)
      /\ Cardinality(left) \in Nat /\ Cardinality(left) < Cap
  <2>1. CASE Cardinality(old) >= Cap
    <3>1. PICK d \in old : gone = {d}
      BY <2>1 DEF Victims, Oldest
    <3>2. IsFiniteSet(left) /\ Cardinality(left) = Cardinality(old) - 1
      BY <1>0, <3>1, FS_RemoveElement
    <3> QED
      BY <1>0, <3>1, <3>2, FS_CardinalityType
  <2>2. CASE ~ (Cardinality(old) >= Cap)
    <3>1. gone = {} /\ left = old
      BY <2>2 DEF Victims
    <3> QED
      BY <1>0, <2>2, <3>1
  <2> QED
    BY <2>1, <2>2
<1>3. /\ IsFiniteSet(left \cup {e})
      /\ Cardinality(left \cup {e}) \in Nat
      /\ Cardinality(left \cup {e}) <= Cap
  <2> HIDE DEF left, old
  <2>1. /\ IsFiniteSet(left \cup {e})
        /\ \/ Cardinality(left \cup {e}) = Cardinality(left)
           \/ Cardinality(left \cup {e}) = Cardinality(left) + 1
    BY <1>2, FS_AddElement
  <2> QED
    BY <1>0, <1>2, <2>1
<1>4. /\ Cardinality(Nonces(Replaced(k, e, gone))) \in Nat
      /\ Cardinality(Nonces(Replaced(k, e, gone)))
           <= Cardinality(left \cup {e})
  BY <1>1, <1>3, FS_Subset, FS_CardinalityType
<1> QED
  BY <1>0, <1>2, <1>3, <1>4 DEF Nonces

(* Handling an envelope, in the words of the lemmas above.                 *)
Handled(h, e, gone) ==
  /\ e = env[h] /\ KeyOf[e] \in Senders
  /\ gone \in Victims(Kept(KeyOf[e])) /\ Kept(KeyOf[e])[e] = Nil
  /\ buckets' = [buckets EXCEPT ![KeyOf[e]] = Replaced(KeyOf[e], e, gone)]
  /\ lastTime' = [lastTime EXCEPT ![e] = now]

LEMMA Handling ==
  ASSUME ReplayInv, NEW h \in Handlers, Handle(h)
  PROVE  \E e \in Envelopes, gone \in SUBSET Envelopes : Handled(h, e, gone)
<1>1. env[h] \in Envelopes /\ KeyOf[env[h]] \in Senders
  BY EnvelopeAssumption DEF ReplayInv, Sealed, Handle
<1>2. PICK gone \in Victims(Kept(KeyOf[env[h]])) :
        buckets' = [buckets EXCEPT ![KeyOf[env[h]]] =
                      Replaced(KeyOf[env[h]], env[h], gone)]
  BY DEF Handle, Replaced
<1>3. gone \subseteq Envelopes
  BY <1>1, <1>2, Fits DEF ReplayInv
<1> QED
  BY <1>1, <1>2, <1>3 DEF Handle, Handled
-----------------------------------------------------------------------------
(* Every step preserves the typing and the limit of the buckets.           *)
LEMMA ReplayTypeStep == ReplayInv /\ [ReplayNext]_replayVars => ReplayTypeOK'
<1> SUFFICES ASSUME ReplayInv, [ReplayNext]_replayVars PROVE ReplayTypeOK'
  OBVIOUS
<1> USE TimesAssumption, EnvelopeAssumption
     DEF handling, Moments, Handler
<1>0. ReplayTypeOK /\ Sealed
  BY DEF ReplayInv
<1>1. CASE Tick
  BY <1>0, <1>1 DEF ReplayTypeOK, Tick, Sealed
<1>2. ASSUME NEW e \in Envelopes, Seal(e) PROVE ReplayTypeOK'
  BY <1>0, <1>2 DEF ReplayTypeOK, Seal, Unsealed
<1>3. ASSUME NEW h \in Handlers, NEW e \in Envelopes, Open(h, e)
      PROVE  ReplayTypeOK'
  BY <1>0, <1>3 DEF ReplayTypeOK, Open
<1>4. ASSUME NEW h \in Handlers, Check(h) \/ Refuse(h) PROVE ReplayTypeOK'
  BY <1>0, <1>4 DEF ReplayTypeOK, Check, Refuse
<1>5. ASSUME NEW h \in Handlers, Handle(h) PROVE ReplayTypeOK'
  <2>0. PICK e \in Envelopes, gone \in SUBSET Envelopes : Handled(h, e, gone)
    BY <1>5, Handling
  <2>1. /\ KeyOf[e] \in Senders /\ gone \in Victims(Kept(KeyOf[e]))
        /\ buckets' = [buckets EXCEPT ![KeyOf[e]] =
                         Replaced(KeyOf[e], e, gone)]
        /\ lastTime' = [lastTime EXCEPT ![e] = now]
    BY <2>0 DEF Handled
  <2>2. Replaced(KeyOf[e], e, gone) \in [Envelopes -> Moments]
    BY <1>0, <2>1, Keeping DEF Replaced, ReplayTypeOK
  <2>3. buckets' \in [Senders -> [Envelopes -> Moments]]
    BY <1>0, <2>1, <2>2 DEF ReplayTypeOK
  <2>4. \A k \in Senders : Cardinality(Nonces(buckets'[k])) <= Cap
    <3> SUFFICES ASSUME NEW k \in Senders
                 PROVE  Cardinality(Nonces(buckets'[k])) <= Cap
      OBVIOUS
    <3>1. CASE k = KeyOf[e]
      <4>1. buckets'[k] = Replaced(k, e, gone)
        BY <1>0, <2>1, <3>1 DEF ReplayTypeOK
      <4> QED
        BY <1>0, <2>1, <3>1, <4>1, Fits
    <3>2. CASE k # KeyOf[e]
      <4>1. buckets'[k] = buckets[k]
        BY <1>0, <2>1, <3>2 DEF ReplayTypeOK
      <4> QED
        BY <1>0, <4>1 DEF ReplayTypeOK
    <3> QED
      BY <3>1, <3>2
  <2>5. lastTime' \in [Envelopes -> Moments]
    BY <1>0, <2>1 DEF ReplayTypeOK
  <2>6. /\ UNCHANGED <<now, stamp, restarts>> /\ slow' = slow \ {h}
        /\ at' = [at EXCEPT ![h] = "idle"] /\ env' = [env EXCEPT ![h] = Nil]
    BY <1>5 DEF Handle
  <2> QED
    BY <1>0, <2>1, <2>3, <2>4, <2>5, <2>6 DEF ReplayTypeOK, Nonces
<1>6. ASSUME NEW h \in Handlers, Duplicate(h) PROVE ReplayTypeOK'
  <2>1. env[h] \in Envelopes /\ KeyOf[env[h]] \in Senders
    BY <1>0, <1>6 DEF Duplicate, Sealed
  <2> DEFINE key == KeyOf[env[h]]
  <2>2. /\ buckets' = [buckets EXCEPT ![key] = Kept(key)]
        /\ UNCHANGED <<now, stamp, restarts, lastTime>> /\ slow' = slow \ {h}
        /\ at' = [at EXCEPT ![h] = "idle"] /\ env' = [env EXCEPT ![h] = Nil]
    BY <1>6 DEF Duplicate
  <2>3. buckets' \in [Senders -> [Envelopes -> Moments]]
    BY <1>0, <2>1, <2>2, Keeping DEF ReplayTypeOK
  <2>4. \A k \in Senders : Cardinality(Nonces(buckets'[k])) <= Cap
    BY <1>0, <2>1, <2>2, KeptFits DEF ReplayTypeOK
  <2> QED
    BY <1>0, <2>2, <2>3, <2>4 DEF ReplayTypeOK, Nonces
<1>7. CASE ProgramRestart
  <2>1. buckets' \in [Senders -> [Envelopes -> Moments]]
    BY <1>7 DEF ProgramRestart
  <2>2. \A k \in Senders : Nonces(buckets'[k]) = {}
    BY <1>7 DEF ProgramRestart, Nonces
  <2>3. Cardinality({}) = 0 /\ 0 <= Cap
    BY FS_EmptySet
  <2>4. \A k \in Senders : Cardinality(Nonces(buckets'[k])) <= Cap
    BY <2>2, <2>3
  <2> QED
    BY <1>0, <1>7, <2>1, <2>4 DEF ReplayTypeOK, ProgramRestart, Nonces
<1>8. CASE UNCHANGED replayVars
  BY <1>0, <1>8 DEF ReplayTypeOK, replayVars, Nonces
<1> QED
  BY <1>1, <1>2, <1>3, <1>4, <1>5, <1>6, <1>7, <1>8 DEF ReplayNext

(* Every step preserves what is known of the envelopes in hand.            *)
LEMMA HeldStep == ReplayInv /\ [ReplayNext]_replayVars => Sealed' /\ StillFresh'
<1> SUFFICES ASSUME ReplayInv, [ReplayNext]_replayVars
             PROVE  Sealed' /\ StillFresh'
  OBVIOUS
<1> USE TimesAssumption, EnvelopeAssumption
     DEF handling, Handler, Sealed, StillFresh
<1>0. ReplayTypeOK /\ Sealed /\ StillFresh
  BY DEF ReplayInv
<1>1. CASE Tick
  <2>1. \A h \in Handlers : at[h] = "fresh" => h \in slow'
    BY <1>1 DEF Tick
  <2> QED
    BY <1>0, <1>1, <2>1 DEF Tick
<1>2. ASSUME NEW e \in Envelopes, Seal(e) PROVE Sealed' /\ StillFresh'
  <2>1. stamp[e] = Unsealed /\ (\A d \in Envelopes \ {e} : stamp'[d] = stamp[d])
    BY <1>0, <1>2 DEF Seal, ReplayTypeOK
  <2>2. stamp'[e] # Unsealed
    BY <1>0, <1>2 DEF Seal, ReplayTypeOK, Unsealed
  <2>3. UNCHANGED <<now, at, env, lastTime, slow>>
    BY <1>2 DEF Seal
  <2>4. Sealed'
    BY <1>0, <2>1, <2>2, <2>3
  <2> QED
    BY <1>0, <2>1, <2>3, <2>4 DEF Fresh
<1>3. ASSUME NEW h \in Handlers, NEW e \in Envelopes, Open(h, e)
      PROVE  Sealed' /\ StillFresh'
  BY <1>0, <1>3 DEF Open, ReplayTypeOK, Fresh
<1>4. ASSUME NEW h \in Handlers, Check(h) \/ Refuse(h)
      PROVE  Sealed' /\ StillFresh'
  BY <1>0, <1>4 DEF Check, Refuse, ReplayTypeOK, Fresh
<1>5. ASSUME NEW h \in Handlers, Handle(h) \/ Duplicate(h)
      PROVE  Sealed' /\ StillFresh'
  <2>1. /\ UNCHANGED <<now, stamp>> /\ env[h] \in Envelopes
        /\ slow' = slow \ {h}
        /\ at' = [at EXCEPT ![h] = "idle"] /\ env' = [env EXCEPT ![h] = Nil]
        /\ stamp[env[h]] # Unsealed
    BY <1>0, <1>5 DEF Handle, Duplicate
  <2>2. \A e \in Envelopes :
          lastTime'[e] # Nil => lastTime[e] # Nil \/ e = env[h]
    BY <1>0, <1>5 DEF Handle, Duplicate, ReplayTypeOK
  <2>3. \A g \in Handlers :
          at'[g] # "idle" => g # h /\ at'[g] = at[g] /\ env'[g] = env[g]
    BY <1>0, <2>1 DEF ReplayTypeOK
  <2> QED
    BY <1>0, <2>1, <2>2, <2>3 DEF Fresh
<1>7. CASE ProgramRestart
  BY <1>0, <1>7 DEF ProgramRestart
<1>8. CASE UNCHANGED replayVars
  BY <1>0, <1>8 DEF replayVars, Fresh
<1> QED
  BY <1>1, <1>2, <1>3, <1>4, <1>5, <1>7, <1>8 DEF ReplayNext
-----------------------------------------------------------------------------
(* What was handled before is handled again only when its nonce was        *)
(* deleted for its age, or made room for others.                           *)
LEMMA Again ==
  ASSUME ReplayInv, NEW e \in Envelopes, KeyOf[e] \in Senders,
         Kept(KeyOf[e])[e] = Nil, lastTime[e] # Nil, ~Crowded(e)
  PROVE  lastTime[e] \in Int /\ now - lastTime[e] > TTL
<1>1. /\ lastTime[e] \in Int /\ now \in Int /\ TTL \in Nat
      /\ Kept(KeyOf[e])[e] = IF /\ buckets[KeyOf[e]][e] # Nil
                                /\ buckets[KeyOf[e]][e] >= now - TTL
                             THEN buckets[KeyOf[e]][e] ELSE Nil
  BY TimesAssumption, EnvelopeAssumption
     DEF ReplayInv, ReplayTypeOK, Moments, Kept
<1>2. \/ buckets[KeyOf[e]][e] = lastTime[e]
      \/ lastTime[e] < now - TTL
  BY DEF ReplayInv, Noted
<1> QED
  BY <1>1, <1>2, EnvelopeAssumption

(* The envelopes of e's sender that were handled since e was.              *)
Since(e, last) ==
  {d \in Envelopes \ {e} : /\ KeyOf[d] = KeyOf[e]
                           /\ last[d] # Nil /\ last[d] >= last[e]}

(* As many envelopes as a bucket holds crowd it.                           *)
LEMMA Crowding ==
  ASSUME NEW e \in Envelopes, NEW rest, NEW last,
         rest \subseteq Since(e, last),
         IsFiniteSet(rest), Cardinality(rest) >= Cap
  PROVE  Cardinality(Since(e, last)) >= Cap
<1>1. IsFiniteSet(Since(e, last))
  <2>1. Since(e, last) \subseteq Envelopes
    BY DEF Since
  <2> QED
    BY <2>1, FS_Subset, EnvelopeAssumption
<1>2. Cardinality(rest) <= Cardinality(Since(e, last))
  BY <1>1, FS_Subset
<1>3. Cardinality(rest) \in Nat /\ Cardinality(Since(e, last)) \in Nat
  BY <1>1, FS_CardinalityType
<1> QED
  BY <1>2, <1>3, TimesAssumption

(* Whatever is handled next, a crowded envelope stays crowded until it is  *)
(* handled itself.                                                         *)
LEMMA StillCrowded ==
  ASSUME ReplayInv, NEW h \in Handlers, NEW e \in Envelopes, NEW gone,
         Handled(h, e, gone), NEW d \in Envelopes \ {e}, Crowded(d),
         lastTime[d] # Nil
  PROVE  Crowded(d)'
<1>1. /\ lastTime'[e] = now /\ lastTime'[d] = lastTime[d]
      /\ \A x \in Envelopes \ {e} : lastTime'[x] = lastTime[x]
      /\ lastTime[d] <= now /\ now # Nil
  BY TimesAssumption, EnvelopeAssumption
     DEF ReplayInv, ReplayTypeOK, Handled, History, Moments
<1>2. Since(d, lastTime) \subseteq Since(d, lastTime')
  BY <1>1 DEF Since
<1>3. Cardinality(Since(d, lastTime)) >= Cap
  BY DEF Crowded, Since
<1>4. IsFiniteSet(Since(d, lastTime))
  <2>1. Since(d, lastTime) \subseteq Envelopes
    BY DEF Since
  <2> QED
    BY <2>1, FS_Subset, EnvelopeAssumption
<1>5. Cardinality(Since(d, lastTime')) >= Cap
  BY <1>2, <1>3, <1>4, Crowding
<1> QED
  BY <1>5 DEF Crowded, Since

(* What makes room for another envelope is crowded: the others of the      *)
(* bucket were handled no earlier, and the new one is now.                 *)
LEMMA MakesRoom ==
  ASSUME ReplayInv, NEW h \in Handlers, NEW e \in Envelopes, NEW gone,
         Handled(h, e, gone), NEW d \in gone, d \in Envelopes \ {e}
  PROVE  Crowded(d)'
<1> USE TimesAssumption, EnvelopeAssumption
<1> DEFINE k == KeyOf[e]
           old == Nonces(Kept(k))
<1>0. ReplayTypeOK /\ History /\ Filed /\ k \in Senders
  BY DEF ReplayInv, Handled
<1>1. /\ Kept(k)[e] = Nil /\ gone = {d} /\ d \in Oldest(Kept(k))
      /\ Cardinality(old) >= Cap
  BY DEF Handled, Victims
<1>2. /\ d \in old /\ e \notin old
      /\ \A x \in old : Kept(k)[d] <= Kept(k)[x]
  BY <1>1 DEF Oldest, Nonces
<1>3. \A x \in old : /\ x \in Envelopes /\ Kept(k)[x] = lastTime[x]
                     /\ KeyOf[x] = k /\ lastTime[x] \in Int
                     /\ lastTime[x] # Nil
  <2> SUFFICES ASSUME NEW x \in old
               PROVE  /\ x \in Envelopes /\ Kept(k)[x] = lastTime[x]
                      /\ KeyOf[x] = k /\ lastTime[x] \in Int
                      /\ lastTime[x] # Nil
    OBVIOUS
  <2>1. x \in Envelopes /\ Kept(k)[x] # Nil
    BY DEF Nonces
  <2>2. Kept(k)[x] = buckets[k][x]
    BY <1>0, <2>1, Keeping
  <2> QED
    BY <1>0, <2>1, <2>2 DEF Filed, ReplayTypeOK, Moments
<1>4. /\ lastTime'[e] = now /\ now \in Int /\ now # Nil
      /\ \A x \in Envelopes \ {e} : lastTime'[x] = lastTime[x]
  BY <1>0 DEF Handled, ReplayTypeOK
<1>5. lastTime[d] <= now
  BY <1>0, <1>2, <1>3 DEF History
<1> DEFINE rest == (old \ {d}) \cup {e}
<1>6. rest \subseteq Since(d, lastTime')
  <2>1. \A x \in old \ {d} : x \in Since(d, lastTime')
    BY <1>2, <1>3, <1>4 DEF Since
  <2>2. e \in Since(d, lastTime')
    BY <1>2, <1>3, <1>4, <1>5 DEF Since
  <2> QED
    BY <2>1, <2>2
<1>7. IsFiniteSet(rest) /\ Cardinality(rest) >= Cap
  <2>1. IsFiniteSet(old) /\ Cardinality(old) \in Nat
    BY <1>0, KeptFits
  <2>2. /\ IsFiniteSet(old \ {d})
        /\ Cardinality(old \ {d}) = Cardinality(old) - 1
    BY <1>2, <2>1, FS_RemoveElement
  <2> HIDE DEF old
  <2>3. /\ IsFiniteSet((old \ {d}) \cup {e})
        /\ Cardinality((old \ {d}) \cup {e}) = Cardinality(old \ {d}) + 1
    BY <1>2, <2>2, FS_AddElement
  <2> QED
    BY <1>1, <2>1, <2>2, <2>3
<1>8. Cardinality(Since(d, lastTime')) >= Cap
  <2> HIDE DEF rest
  <2> QED
    BY <1>6, <1>7, Crowding
<1> QED
  BY <1>8 DEF Crowded, Since

(* What is known of past envelopes is preserved when one is handled.       *)
LEMMA PastStep ==
  ASSUME ReplayInv, NEW h \in Handlers, Handle(h)
  PROVE  History' /\ Filed' /\ Noted'
<1> USE TimesAssumption, EnvelopeAssumption DEF History
<1>0. ReplayTypeOK /\ History /\ Filed /\ Noted
  BY DEF ReplayInv
<1>1. PICK e \in Envelopes, gone \in SUBSET Envelopes : Handled(h, e, gone)
  BY Handling
<1>2. UNCHANGED now /\ now \in Int /\ now # Nil
  BY <1>0 DEF Handle, Handler, ReplayTypeOK
<1>3. /\ lastTime'[e] = now
      /\ \A d \in Envelopes \ {e} : lastTime'[d] = lastTime[d]
  BY <1>0, <1>1 DEF Handled, ReplayTypeOK
<1>4. /\ KeyOf[e] \in Senders /\ Kept(KeyOf[e])[e] = Nil
      /\ buckets'[KeyOf[e]] = Replaced(KeyOf[e], e, gone)
      /\ \A k \in Senders \ {KeyOf[e]} : buckets'[k] = buckets[k]
  BY <1>0, <1>1 DEF Handled, ReplayTypeOK
<1>5. History'
  BY <1>0, <1>2, <1>3
<1>6. \A d \in Envelopes \ {e} :
        buckets'[KeyOf[e]][d] = IF d \in gone THEN Nil ELSE Kept(KeyOf[e])[d]
  BY <1>4 DEF Replaced
<1>7. buckets'[KeyOf[e]][e] = now
  BY <1>4 DEF Replaced
<1>8. Filed'
  <2> SUFFICES ASSUME NEW k \in Senders, NEW d \in Envelopes,
                      buckets'[k][d] # Nil
               PROVE  KeyOf[d] = k /\ buckets'[k][d] = lastTime'[d]
    BY DEF Filed
  <2>1. CASE k # KeyOf[e]
    <3>1. buckets[k][d] # Nil /\ KeyOf[d] = k
      BY <1>0, <1>4, <2>1 DEF Filed
    <3> QED
      BY <1>0, <1>3, <1>4, <2>1, <3>1 DEF Filed
  <2>2. CASE k = KeyOf[e] /\ d = e
    BY <1>3, <1>7, <2>2
  <2>3. CASE k = KeyOf[e] /\ d # e
    <3>1. buckets'[k][d] = Kept(k)[d] /\ Kept(k)[d] # Nil
      BY <1>6, <2>3
    <3>2. Kept(k)[d] = buckets[k][d]
      BY <1>0, <3>1, Keeping
    <3> QED
      BY <1>0, <1>3, <2>3, <3>1, <3>2 DEF Filed
  <2> QED
    BY <2>1, <2>2, <2>3
<1>9. Noted'
  <2> SUFFICES ASSUME NEW d \in Envelopes, lastTime'[d] # Nil
               PROVE  \/ buckets'[KeyOf[d]][d] = lastTime'[d]
                      \/ /\ buckets'[KeyOf[d]][d] = Nil
                         /\ lastTime'[d] < now' - TTL \/ Crowded(d)'
    BY DEF Noted
  <2>1. CASE d = e
    BY <1>3, <1>7, <2>1
  <2> SUFFICES ASSUME d # e
               PROVE  \/ buckets'[KeyOf[d]][d] = lastTime'[d]
                      \/ /\ buckets'[KeyOf[d]][d] = Nil
                         /\ lastTime'[d] < now' - TTL \/ Crowded(d)'
    BY <2>1
  <2>2. lastTime'[d] = lastTime[d] /\ lastTime[d] # Nil /\ KeyOf[d] \in Senders
    BY <1>3
  <2>3. \/ buckets[KeyOf[d]][d] = lastTime[d]
        \/ /\ buckets[KeyOf[d]][d] = Nil
           /\ lastTime[d] < now - TTL \/ Crowded(d)'
    BY <1>0, <1>1, <2>2, StillCrowded DEF Noted
  <2>4. CASE KeyOf[d] # KeyOf[e]
    BY <1>2, <1>4, <2>2, <2>3, <2>4
  <2>5. CASE KeyOf[d] = KeyOf[e] /\ d \in gone
    BY <1>1, <1>6, <2>5, MakesRoom
  <2>6. CASE KeyOf[d] = KeyOf[e] /\ d \notin gone
    <3>1. buckets'[KeyOf[d]][d] = Kept(KeyOf[d])[d]
      BY <1>6, <2>6
    <3>2. \/ Kept(KeyOf[d])[d] = buckets[KeyOf[d]][d]
          \/ /\ Kept(KeyOf[d])[d] = Nil /\ buckets[KeyOf[d]][d] # Nil
             /\ buckets[KeyOf[d]][d] < now - TTL
      BY <1>0, <2>2, Keeping
    <3> QED
      BY <1>2, <2>2, <2>3, <3>1, <3>2
  <2> QED
    BY <2>4, <2>5, <2>6
<1> QED
  BY <1>5, <1>8, <1>9

LEMMA HistoryStep ==
  ReplayInv /\ [ReplayNext]_replayVars => History' /\ Filed' /\ Noted'
<1> SUFFICES ASSUME ReplayInv, [ReplayNext]_replayVars
             PROVE  History' /\ Filed' /\ Noted'
  OBVIOUS
<1> USE TimesAssumption, EnvelopeAssumption
     DEF handling, Handler, History, Filed, Noted, Crowded
<1>0. ReplayTypeOK /\ Sealed /\ History /\ Filed /\ Noted
  BY DEF ReplayInv
<1>1. CASE Tick
  BY <1>0, <1>1 DEF Tick, ReplayTypeOK, Moments
<1>2. ASSUME NEW e \in Envelopes, Seal(e)
      PROVE  History' /\ Filed' /\ Noted'
  BY <1>0, <1>2 DEF Seal
<1>3. ASSUME NEW h \in Handlers,
             Check(h) \/ Refuse(h) \/ \E e \in Envelopes : Open(h, e)
      PROVE  History' /\ Filed' /\ Noted'
  BY <1>0, <1>3 DEF Open, Check, Refuse
<1>5. ASSUME NEW h \in Handlers, Handle(h)
      PROVE  History' /\ Filed' /\ Noted'
  BY <1>5, PastStep
<1>6. ASSUME NEW h \in Handlers, Duplicate(h)
      PROVE  History' /\ Filed' /\ Noted'
  <2>1. /\ KeyOf[env[h]] \in Senders
        /\ buckets' = [buckets EXCEPT ![KeyOf[env[h]]] = Kept(KeyOf[env[h]])]
        /\ UNCHANGED <<now, stamp, lastTime>>
    BY <1>0, <1>6 DEF Duplicate, Sealed
  <2>2. \A k \in Senders : \A d \in Envelopes :
          \/ buckets'[k][d] = buckets[k][d]
          \/ /\ buckets'[k][d] = Nil /\ buckets[k][d] # Nil
             /\ buckets[k][d] < now - TTL
    BY <1>0, <2>1, Keeping DEF ReplayTypeOK
  <2>3. Filed'
    BY <1>0, <2>1, <2>2
  <2>4. Noted'
    <3> SUFFICES ASSUME NEW d \in Envelopes, lastTime[d] # Nil
                 PROVE  \/ buckets'[KeyOf[d]][d] = lastTime[d]
                        \/ /\ buckets'[KeyOf[d]][d] = Nil
                           /\ lastTime[d] < now - TTL \/ Crowded(d)
      BY <2>1
    <3>1. KeyOf[d] \in Senders
      OBVIOUS
    <3> QED
      BY <1>0, <2>2, <3>1
  <2> QED
    BY <1>0, <2>1, <2>3, <2>4
<1>7. CASE ProgramRestart
  BY <1>0, <1>7 DEF ProgramRestart
<1>8. CASE UNCHANGED replayVars
  BY <1>0, <1>8 DEF replayVars
<1> QED
  BY <1>1, <1>2, <1>3, <1>5, <1>6, <1>7, <1>8 DEF ReplayNext

LEMMA ReplayInvStep == ReplayInv /\ [ReplayNext]_replayVars => ReplayInv'
  BY ReplayTypeStep, HeldStep, HistoryStep DEF ReplayInv

LEMMA ReplayInvAlways == ReplaySpec => []ReplayInv
  BY ReplayInitInv, ReplayInvStep, PTL DEF ReplaySpec
-----------------------------------------------------------------------------
(* The variables keep their types, and no bucket grows over its limit      *)
(* (replay.go:19-22, :84-97).                                              *)
THEOREM ReplayTypeCorrect == ReplaySpec => []ReplayTypeOK
<1>1. ReplayInv => ReplayTypeOK
  BY DEF ReplayInv
<1> QED
  BY <1>1, ReplayInvAlways, PTL

(* One run of the program handles an envelope a second time only when a    *)
(* bucket full of others was handled since, or after replayTTL with a      *)
(* timestamp that was ahead, missing, or tested a tick before the nonce    *)
(* (replay.go:12-28, :75-95).                                              *)
THEOREM EnvelopesAreHandledOnce == ReplaySpec => HandledOnce
<1> DEFINE Excused(h) ==
             \/ Crowded(env[h])
             \/ /\ now - lastTime[env[h]] > TTL
                /\ \/ h \in slow
                   \/ stamp[env[h]] = 0 \/ stamp[env[h]] > lastTime[env[h]]
           Excusing == \A h \in Handlers :
                         Handle(h) /\ lastTime[env[h]] # Nil => Excused(h)
<1>1. ReplayInv /\ [ReplayNext]_replayVars => [Excusing]_replayVars
  <2> SUFFICES ASSUME ReplayInv, NEW h \in Handlers, Handle(h),
                      lastTime[env[h]] # Nil, ~Crowded(env[h])
               PROVE  /\ now - lastTime[env[h]] > TTL
                      /\ \/ h \in slow \/ stamp[env[h]] = 0
                         \/ stamp[env[h]] > lastTime[env[h]]
    OBVIOUS
  <2> USE TimesAssumption, EnvelopeAssumption
  <2>0. ReplayTypeOK /\ Sealed /\ StillFresh
    BY DEF ReplayInv
  <2>1. /\ at[h] = "fresh" /\ env[h] \in Envelopes
        /\ KeyOf[env[h]] \in Senders /\ Kept(KeyOf[env[h]])[env[h]] = Nil
    BY <2>0 DEF Handle, Sealed
  <2>2. lastTime[env[h]] \in Int /\ now - lastTime[env[h]] > TTL
    BY <2>1, Again
  <2>3. h \in slow \/ Fresh(env[h])
    BY <2>0, <2>1 DEF StillFresh
  <2>4. now \in Int /\ stamp[env[h]] \in Int
    BY <2>0, <2>1 DEF ReplayTypeOK
  <2> QED
    BY <2>2, <2>3, <2>4 DEF Fresh
<1> QED
  BY <1>1, ReplayInvAlways, PTL DEF ReplaySpec, HandledOnce
-----------------------------------------------------------------------------
(* An entry is under the address it came from.                             *)
Own == \A a \in Machines : peers[a] # None => peers[a].from = a

(* What Pin let pass has the pinned key until it is entered, unless the    *)
(* user changed the pin meanwhile.                                         *)
HeardIsPinned ==
  heard # None /\ heard.key # NoKey /\ None \notin outdated =>
    pinned[NameOf[heard.from]] = heard.key

(* None stands for the entry being made, and only then.                    *)
NoneIsHeard == heard = None => None \notin outdated

(* @trust has found a key.                                                 *)
TrustedHasKey == trusting # None => trusting.key # NoKey

(* The file is behind the memory only after a save that failed.            *)
SavedIsPinned == unsaved \/ saved = pinned

Inv == TypeOK /\ Own /\ PeersArePinned /\ HeardIsPinned /\ NoneIsHeard
         /\ TrustedHasKey /\ SavedIsPinned
-----------------------------------------------------------------------------
(* The initial states satisfy the inductive invariant.                     *)
LEMMA InitInv == Init => Inv
<1> SUFFICES ASSUME Init PROVE Inv
  OBVIOUS
<1>1. TypeOK
  <2>1. /\ used \subseteq Keys \cup {NoKey}
        /\ keyOf \in [Machines -> Keys \cup {NoKey}]
    BY KeyAssumption DEF Init
  <2>2. /\ pinned \in [Names -> Keys \cup {None}] /\ saved = pinned
        /\ peers \in [Machines -> Announcements \cup {None}]
    BY DEF Init
  <2>3. fails \in 0..MaxFails
    BY FailsAssumption DEF Init
  <2>4. unsaved \in BOOLEAN
    BY DEF Init
  <2> QED
    BY <2>1, <2>2, <2>3, <2>4 DEF Init, TypeOK
<1>2. PeersArePinned /\ Own
  BY DEF Init, PeersArePinned, Own
<1>3. HeardIsPinned /\ NoneIsHeard /\ TrustedHasKey /\ SavedIsPinned
  BY DEF Init, HeardIsPinned, NoneIsHeard, TrustedHasKey, SavedIsPinned
<1> QED
  BY <1>1, <1>2, <1>3 DEF Inv

(* What saving leaves, whether it fails or not.                            *)
LEMMA Saving ==
  ASSUME TypeOK, NEW pins \in [Names -> Keys \cup {None}],
         Save(pins) \/ SaveFails
  PROVE  /\ fails' \in 0..MaxFails /\ unsaved' \in BOOLEAN
         /\ saved' \in [Names -> Keys \cup {None}]
         /\ unsaved' \/ saved' = pins
<1>1. fails' \in 0..MaxFails
  BY FailsAssumption DEF Save, SaveFails, TypeOK
<1>2. unsaved' \in BOOLEAN /\ (unsaved' \/ saved' = pins)
  BY Zenon DEF Save, SaveFails
<1>3. saved' \in [Names -> Keys \cup {None}]
  BY DEF Save, SaveFails, TypeOK
<1> QED
  BY <1>1, <1>2, <1>3

(* What Pin lets pass is pinned or has no key; a pin it finds stays.       *)
LEMMA Accepting ==
  ASSUME Inv, NEW a \in Announcements, Accepted(a)
  PROVE  /\ a.key # NoKey => pinned'[NameOf[a.from]] = a.key
         /\ \A n \in Names : pinned[n] # None => pinned'[n] = pinned[n]
         /\ pinned' \in [Names -> Keys \cup {None}]
         /\ saved' \in [Names -> Keys \cup {None}]
         /\ fails' \in 0..MaxFails /\ unsaved' \in BOOLEAN
         /\ SavedIsPinned'
<1> USE NameAssumption, KeyAssumption, NoneAssumption
<1>0. /\ TypeOK /\ SavedIsPinned /\ NameOf[a.from] \in Names
      /\ a.key \in Keys \cup {NoKey}
  BY DEF Inv, Announcements
<1>1. CASE a.key = NoKey /\ UNCHANGED store
  BY <1>0, <1>1 DEF store, TypeOK, SavedIsPinned
<1>2. CASE a.key # NoKey /\ Added(a)
  BY <1>0, <1>2, FailsAssumption DEF Added, Save, TypeOK, SavedIsPinned
<1>3. CASE a.key # NoKey /\ Matches(a)
  <2>1. pinned' = pinned /\ pinned[NameOf[a.from]] = a.key
    BY <1>3 DEF Matches
  <2>2. Save(pinned) \/ SaveFails
    BY <1>3 DEF Matches
  <2>3. pinned \in [Names -> Keys \cup {None}]
    BY <1>0 DEF TypeOK
  <2> QED
    BY <1>0, <2>1, <2>2, <2>3, Saving DEF SavedIsPinned
<1> QED
  BY <1>1, <1>2, <1>3 DEF Accepted

(* What Pin drops leaves memory and file as they are.                      *)
LEMMA Dropping ==
  ASSUME TypeOK, NEW a, Dropped(a)
  PROVE  UNCHANGED <<pinned, saved, unsaved>> /\ fails' \in 0..MaxFails
  BY FailsAssumption DEF Dropped, AddFails, Mismatch, store, TypeOK

(* Every step preserves the typing.                                        *)
LEMMA TypeStep == Inv /\ [Next]_vars => TypeOK'
<1> SUFFICES ASSUME Inv, [Next]_vars PROVE TypeOK'
  OBVIOUS
<1> USE NameAssumption, KeyAssumption, NoneAssumption, FailsAssumption
<1>0. TypeOK /\ TrustedHasKey
  BY DEF Inv
<1>1. ASSUME NEW m \in Machines, Announce(m) PROVE TypeOK'
  BY <1>0, <1>1 DEF TypeOK, Announce, Announcement, Announcements, others, store
<1>2. ASSUME NEW m \in Machines, NewKey(m) PROVE TypeOK'
  BY <1>0, <1>2 DEF TypeOK, NewKey, store
<1>3. ASSUME NEW a \in wire, Hear(a) PROVE TypeOK'
  <2>1. a \in Announcements
    BY <1>0 DEF TypeOK
  <2>2. CASE Accepted(a) /\ heard' = a
    BY <1>0, <1>3, <2>1, <2>2, Accepting DEF TypeOK, Hear, others
  <2>3. CASE Dropped(a) /\ UNCHANGED heard
    BY <1>0, <1>3, <2>3, Dropping DEF TypeOK, Hear, others
  <2> QED
    BY <1>3, <2>2, <2>3 DEF Hear
<1>4. CASE Enter
  BY <1>0, <1>4 DEF TypeOK, Enter, Announcements, others, store
<1>5. ASSUME NEW n \in Names, Forget(n) PROVE TypeOK'
  <2>1. pinned' \in [Names -> Keys \cup {None}]
    BY <1>0, <1>5 DEF Forget, TypeOK
  <2>2. Save(pinned') \/ SaveFails
    BY <1>5 DEF Forget
  <2>3. Outdated(n) \subseteq Machines \cup {None}
    BY DEF Outdated
  <2>4. clean' \subseteq Names
    BY <1>0, <1>5 DEF Forget, TypeOK
  <2> QED
    BY <1>0, <1>5, <2>1, <2>2, <2>3, <2>4, Saving DEF TypeOK, Forget, others
<1>6. ASSUME NEW a \in Machines, LookUp(a) PROVE TypeOK'
  BY <1>0, <1>6 DEF TypeOK, LookUp, others, store
<1>7. ASSUME NEW a \in Machines, Expire(a) PROVE TypeOK'
  BY <1>0, <1>7 DEF TypeOK, Expire, others, store
<1>8. CASE Trust
  <2>0. trusting \in Announcements /\ trusting.key # NoKey
    BY <1>0, <1>8 DEF Trust, TypeOK, TrustedHasKey
  <2>1. pinned' \in [Names -> Keys \cup {None}]
    BY <1>0, <1>8, <2>0 DEF Trust, TypeOK, Announcements
  <2>2. Save(pinned') \/ SaveFails
    BY <1>8 DEF Trust
  <2>3. Outdated(NameOf[trusting.from]) \subseteq Machines \cup {None}
    BY DEF Outdated
  <2>4. outdated' \subseteq Machines \cup {None} /\ clean' \subseteq Names
    BY <1>0, <1>8, <2>3 DEF Trust, TypeOK
  <2> QED
    BY <1>0, <1>8, <2>1, <2>2, <2>4, Saving DEF TypeOK, Trust, others
<1>9. CASE NewNetwork
  BY <1>0, <1>9 DEF TypeOK, NewNetwork, others, store
<1>10. CASE Restart
  BY <1>0, <1>10 DEF TypeOK, Restart, others
<1>11. CASE UNCHANGED vars
  BY <1>0, <1>11 DEF TypeOK, vars, others, store
<1> QED
  BY <1>1, <1>2, <1>3, <1>4, <1>5, <1>6, <1>7, <1>8, <1>9, <1>10, <1>11
  DEF Next
-----------------------------------------------------------------------------
(* What the table, the entry being made and the pins say of one another.   *)
Agrees == Own /\ PeersArePinned /\ HeardIsPinned /\ NoneIsHeard

(* Every step preserves the agreement.                                     *)
LEMMA AgreesStep == Inv /\ [Next]_vars => Agrees'
<1> SUFFICES ASSUME Inv, [Next]_vars PROVE Agrees'
  OBVIOUS
<1> USE NameAssumption, KeyAssumption, NoneAssumption
     DEF Agrees, Own, PeersArePinned, HeardIsPinned, NoneIsHeard
<1>0. TypeOK /\ Agrees
  BY DEF Inv
<1>1. ASSUME NEW m \in Machines, Announce(m) \/ NewKey(m) PROVE Agrees'
  BY <1>0, <1>1 DEF Announce, NewKey, store
<1>3. ASSUME NEW a \in wire, Hear(a) PROVE Agrees'
  <2>1. a \in Announcements /\ heard = None /\ UNCHANGED <<peers, outdated>>
    BY <1>0, <1>3 DEF Hear, TypeOK
  <2>2. CASE Accepted(a) /\ heard' = a
    <3>1. /\ a.key # NoKey => pinned'[NameOf[a.from]] = a.key
          /\ \A n \in Names : pinned[n] # None => pinned'[n] = pinned[n]
      BY <2>1, <2>2, Accepting
    <3>2. \A b \in Machines :
            peers[b] # None => peers[b].key \in Keys \cup {NoKey}
      BY <1>0 DEF TypeOK, Announcements
    <3>3. \A b \in Machines : NameOf[b] \in Names
      OBVIOUS
    <3>4. PeersArePinned'
      BY <1>0, <2>1, <3>1, <3>2, <3>3
    <3> QED
      BY <1>0, <2>1, <2>2, <3>1, <3>4
  <2>3. CASE Dropped(a) /\ UNCHANGED heard
    BY <1>0, <2>1, <2>3, Dropping
  <2> QED
    BY <1>3, <2>2, <2>3 DEF Hear
<1>4. CASE Enter
  <2>1. /\ heard \in Announcements /\ heard.from \in Machines
        /\ heard' = None /\ UNCHANGED pinned
        /\ peers' = [peers EXCEPT ![heard.from] = heard]
    BY <1>0, <1>4 DEF Enter, TypeOK, Announcements, store
  <2>2. /\ None \notin outdated'
        /\ heard.from \in outdated' <=> None \in outdated
        /\ \A b \in Machines \ {heard.from} : b \in outdated' <=> b \in outdated
    BY <1>4, <2>1 DEF Enter
  <2>3. peers \in [Machines -> Announcements \cup {None}]
    BY <1>0 DEF TypeOK
  <2>4. /\ peers'[heard.from] = heard
        /\ \A b \in Machines \ {heard.from} : peers'[b] = peers[b]
    BY <2>1, <2>3
  <2>5. PeersArePinned'
    BY <1>0, <2>1, <2>2, <2>4
  <2>6. Own'
    BY <1>0, <2>1, <2>4
  <2> QED
    BY <2>1, <2>2, <2>5, <2>6
<1>5. ASSUME NEW n \in Names, Forget(n) PROVE Agrees'
  BY <1>0, <1>5 DEF Forget, Outdated, TypeOK
<1>6. ASSUME NEW a \in Machines, LookUp(a) PROVE Agrees'
  BY <1>0, <1>6 DEF LookUp, store
<1>7. ASSUME NEW a \in Machines, Expire(a) PROVE Agrees'
  BY <1>0, <1>7 DEF Expire, TypeOK, store
<1>8. CASE Trust
  <2>1. NameOf[trusting.from] \in Names
    BY <1>0, <1>8 DEF Trust, TypeOK, Announcements
  <2> QED
    BY <1>0, <1>8, <2>1 DEF Trust, Outdated, TypeOK
<1>9. CASE NewNetwork
  BY <1>0, <1>9 DEF NewNetwork, store
<1>10. CASE Restart
  BY <1>0, <1>10 DEF Restart
<1>11. CASE UNCHANGED vars
  BY <1>0, <1>11 DEF vars, store
<1> QED
  BY <1>1, <1>3, <1>4, <1>5, <1>6, <1>7, <1>8, <1>9, <1>10, <1>11 DEF Next

(* @trust holds a key, and the file is the memory unless a save failed.    *)
LEMMA StoreStep == Inv /\ [Next]_vars => TrustedHasKey' /\ SavedIsPinned'
<1> SUFFICES ASSUME Inv, [Next]_vars PROVE TrustedHasKey' /\ SavedIsPinned'
  OBVIOUS
<1>0. TypeOK /\ TrustedHasKey /\ SavedIsPinned
  BY DEF Inv
<1> USE DEF TrustedHasKey, SavedIsPinned
<1>1. ASSUME NEW m \in Machines, Announce(m) \/ NewKey(m)
      PROVE  TrustedHasKey' /\ SavedIsPinned'
  BY <1>0, <1>1 DEF Announce, NewKey, store
<1>2. ASSUME NEW a \in wire, Hear(a) PROVE TrustedHasKey' /\ SavedIsPinned'
  <2>1. a \in Announcements /\ UNCHANGED trusting
    BY <1>0, <1>2 DEF TypeOK, Hear
  <2>2. CASE Accepted(a)
    BY <1>0, <2>1, <2>2, Accepting
  <2>3. CASE Dropped(a)
    BY <1>0, <2>1, <2>3, Dropping
  <2> QED
    BY <1>2, <2>2, <2>3 DEF Hear
<1>3. ASSUME NEW n \in Names, Forget(n) PROVE TrustedHasKey' /\ SavedIsPinned'
  BY <1>0, <1>3 DEF Forget, Save, SaveFails
<1>4. ASSUME NEW a \in Machines, LookUp(a) \/ Expire(a)
      PROVE  TrustedHasKey' /\ SavedIsPinned'
  BY <1>0, <1>4 DEF LookUp, Expire, store
<1>5. CASE Trust
  BY <1>0, <1>5 DEF Trust, Save, SaveFails
<1>6. CASE Enter \/ NewNetwork
  BY <1>0, <1>6 DEF Enter, NewNetwork, store
<1>7. CASE Restart
  BY <1>0, <1>7 DEF Restart
<1>8. CASE UNCHANGED vars
  BY <1>0, <1>8 DEF vars, store
<1> QED
  BY <1>1, <1>2, <1>3, <1>4, <1>5, <1>6, <1>7, <1>8 DEF Next

LEMMA InvStep == Inv /\ [Next]_vars => Inv'
  BY TypeStep, AgreesStep, StoreStep DEF Inv, Agrees

LEMMA InvAlways == Spec => []Inv
  BY InitInv, InvStep, PTL DEF Spec
-----------------------------------------------------------------------------
(* The variables keep their types.                                         *)
THEOREM TypeCorrect == Spec => []TypeOK
<1>1. Inv => TypeOK
  BY DEF Inv
<1> QED
  BY <1>1, InvAlways, PTL

(* A peer in the table has the key pinned for its name, unless its entry   *)
(* was made before the user changed the pin (discovery.go:330-360).        *)
THEOREM TableIsPinned == Spec => []PeersArePinned
<1>1. Inv => PeersArePinned
  BY DEF Inv
<1> QED
  BY <1>1, InvAlways, PTL

(* Only the user's @forget and @trust, or a restart after one of them was  *)
(* not saved, change a pinned key (known_peers.go:122-197).                *)
THEOREM PinsAreKept == Spec => PinsStay
<1> DEFINE Excused(n) == \/ Forget(n)
                         \/ Trust /\ NameOf[trusting.from] = n
                         \/ Restart /\ unsaved
           Excusing == \A n \in Names :
                     pinned[n] # None /\ pinned'[n] # pinned[n] => Excused(n)
<1>1. Inv /\ [Next]_vars => [Excusing]_vars
  <2> SUFFICES ASSUME Inv, [Next]_vars, NEW n \in Names,
                      pinned[n] # None, pinned'[n] # pinned[n]
               PROVE  Excused(n)
    OBVIOUS
  <2>0. TypeOK /\ SavedIsPinned
    BY DEF Inv
  <2>1. ASSUME NEW a \in wire, Hear(a) PROVE FALSE
    <3>1. a \in Announcements
      BY <2>0 DEF TypeOK
    <3> QED
      BY <2>0, <2>1, <3>1, Accepting, Dropping DEF Hear
  <2>2. ASSUME NEW m \in Names, Forget(m) PROVE Forget(n)
    BY <2>0, <2>2 DEF Forget, TypeOK
  <2>3. CASE Trust
    <3>1. NameOf[trusting.from] = n
      BY <2>0, <2>3 DEF Trust, TypeOK
    <3> QED
      BY <2>3, <3>1
  <2>4. CASE Restart
    BY <2>0, <2>4 DEF Restart, SavedIsPinned
  <2>5. ASSUME NEW m \in Machines,
               Announce(m) \/ NewKey(m) \/ LookUp(m) \/ Expire(m)
        PROVE  FALSE
    BY <2>5 DEF Announce, NewKey, LookUp, Expire, store
  <2>6. ~ (Enter \/ NewNetwork \/ UNCHANGED vars)
    BY DEF Enter, NewNetwork, store, vars
  <2> QED
    BY <2>1, <2>2, <2>3, <2>4, <2>5, <2>6 DEF Next
<1> QED
  BY <1>1, InvAlways, PTL DEF Spec, PinsStay
=============================================================================
