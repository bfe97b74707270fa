---------------------------- MODULE ReplayGuard -----------------------------
(***************************************************************************)
(* Envelopes that arrive again (internal/network/replay.go, and its use in *)
(* handleConnection of transfer.go).  An envelope is opened, its timestamp *)
(* compared with the clock, and its nonce looked up and noted, by the      *)
(* goroutine of its connection, each step by itself; the nonces of one     *)
(* sender's key are forgotten by age, by number and when the program ends. *)
(*                                                                         *)
(* The network may carry an envelope any number of times, at any time.     *)
(* Next to KnownPeers it is the other guard of a machine, and proved about *)
(* in one module with it (LanGuardsProofs); so its names differ from those *)
(* of KnownPeers.                                                          *)
(***************************************************************************)
EXTENDS Integers, FiniteSets

CONSTANTS
  Envelopes,   \* sealed envelopes, each with its nonce
  Senders,     \* public keys of senders
  KeyOf,       \* whose each envelope is
  Handlers,    \* bound: connections
  TTL,         \* replayTTL
  Past,        \* freshnessPast
  Future,      \* freshnessFuture
  Cap,         \* replayCapPerPeer
  MaxTime,     \* bound: the receiver's clock
  MaxSkew,     \* bound: how far the sender's clock is off
  MaxRestarts, \* bound
  Nil

ASSUME TimesAssumption ==
  /\ TTL \in Nat /\ Past \in 0..TTL /\ Future \in Nat /\ Cap \in Nat \ {0}
  /\ MaxSkew \in Nat /\ MaxTime \in Nat \ {0} /\ MaxRestarts \in Nat

ASSUME EnvelopeAssumption ==
  /\ IsFiniteSet(Envelopes) /\ KeyOf \in [Envelopes -> Senders]
  /\ Nil \notin Int \cup Envelopes

VARIABLES
  now,        \* the receiver's clock
  stamp,      \* Timestamp; Unsealed: not sealed yet; 0: an envelope without one
  at, env,    \* handleConnection, and its envelope
  buckets,    \* per key: when each nonce was seen, Nil: not in the bucket
  restarts,
  lastTime,   \* history: when this run of the program last handled each
  slow        \* history: handlers whose clock went on between their checks

handling == <<at, env>>
replayVars == <<now, stamp, handling, buckets, restarts, lastTime, slow>>

Unsealed == -1

ReplayInit ==
  /\ now = 1 /\ stamp = [e \in Envelopes |-> Unsealed]
  /\ at = [h \in Handlers |-> "idle"] /\ env = [h \in Handlers |-> Nil]
  /\ buckets = [k \in Senders |-> [e \in Envelopes |-> Nil]]
  /\ restarts = 0
  /\ lastTime = [e \in Envelopes |-> Nil]
  /\ slow = {}

Tick ==
  /\ now < MaxTime /\ now' = now + 1
  /\ slow' = slow \cup {h \in Handlers : at[h] = "fresh"}
  /\ UNCHANGED <<stamp, handling, buckets, restarts, lastTime>>

(* The sender seals it, with the time of its own clock; a former version   *)
(* sends none.                                                             *)
Seal(e) ==
  /\ stamp[e] = Unsealed
  /\ \E t \in {0} \cup (now - MaxSkew)..(now + MaxSkew) :
       t >= 0 /\ stamp' = [stamp EXCEPT ![e] = t]
  /\ UNCHANGED <<now, handling, buckets, restarts, lastTime, slow>>

Handler(h, before, after) ==
  /\ at[h] = before /\ at' = [at EXCEPT ![h] = after]
  /\ UNCHANGED <<now, stamp, restarts>>

(* A connection brings it, and it opens with the key of its sender.        *)
Open(h, e) ==
  /\ stamp[e] # Unsealed
  /\ Handler(h, "idle", "opened")
  /\ env' = [env EXCEPT ![h] = e]
  /\ UNCHANGED <<buckets, lastTime, slow>>

(* checkTimestampFreshness.                                                *)
Fresh(e) == stamp[e] = 0 \/ stamp[e] \in (now - Past)..(now + Future)

Check(h) ==
  /\ Handler(h, "opened", "fresh")
  /\ Fresh(env[h])
  /\ UNCHANGED <<env, buckets, lastTime, slow>>

Refuse(h) ==
  /\ Handler(h, "opened", "idle")
  /\ ~Fresh(env[h])
  /\ env' = [env EXCEPT ![h] = Nil]
  /\ UNCHANGED <<buckets, lastTime, slow>>

(* What is left of a bucket when the nonces past their time are deleted.   *)
Kept(k) ==
  [e \in Envelopes |->
     IF buckets[k][e] # Nil /\ buckets[k][e] >= now - TTL
     THEN buckets[k][e] ELSE Nil]

Nonces(bucket) == {e \in Envelopes : bucket[e] # Nil}

OldestMutant(bucket) ==   \* a slip: the comparison turned round
  {e \in Nonces(bucket) : \A d \in Nonces(bucket) : bucket[e] >= bucket[d]}

(* The nonces that may be the oldest; the order of a map decides.          *)
Oldest(bucket) ==
  {e \in Nonces(bucket) : \A d \in Nonces(bucket) : bucket[e] <= bucket[d]}

(* Those that make room for one more.                                      *)
Victims(bucket) ==
  IF Cardinality(Nonces(bucket)) >= Cap THEN {{e} : e \in Oldest(bucket)}
  ELSE {{}}

(* observe, for a nonce that is not in the bucket; what follows is done at *)
(* once, whatever kind of envelope it is.                                  *)
Handle(h) ==
  /\ at[h] = "fresh"
  /\ LET e == env[h]
         k == KeyOf[e]
         kept == Kept(k)
     IN  /\ kept[e] = Nil
         /\ \E gone \in Victims(kept) :
              buckets' = [buckets EXCEPT ![k] =
                [d \in Envelopes |-> IF d = e THEN now
                                     ELSE IF d \in gone THEN Nil
                                     ELSE kept[d]]]
         /\ lastTime' = [lastTime EXCEPT ![e] = now]
  /\ Handler(h, "fresh", "idle")
  /\ env' = [env EXCEPT ![h] = Nil] /\ slow' = slow \ {h}

(* observe, for one that is.                                               *)
Duplicate(h) ==
  /\ at[h] = "fresh"
  /\ LET k == KeyOf[env[h]]
     IN  Kept(k)[env[h]] # Nil /\ buckets' = [buckets EXCEPT ![k] = Kept(k)]
  /\ Handler(h, "fresh", "idle")
  /\ env' = [env EXCEPT ![h] = Nil] /\ slow' = slow \ {h}
  /\ UNCHANGED lastTime

(* The program ends and starts; nothing of this is on disk.                *)
ProgramRestart ==
  /\ restarts < MaxRestarts /\ restarts' = restarts + 1
  /\ at' = [h \in Handlers |-> "idle"] /\ env' = [h \in Handlers |-> Nil]
  /\ buckets' = [k \in Senders |-> [e \in Envelopes |-> Nil]]
  /\ lastTime' = [e \in Envelopes |-> Nil] /\ slow' = {}
  /\ UNCHANGED <<now, stamp>>

ReplayNext ==
  \/ Tick \/ ProgramRestart
  \/ \E e \in Envelopes : Seal(e)
  \/ \E h \in Handlers :
       \/ \E e \in Envelopes : Open(h, e)
       \/ Check(h) \/ Refuse(h) \/ Handle(h) \/ Duplicate(h)

ReplaySpec == ReplayInit /\ [][ReplayNext]_replayVars
-----------------------------------------------------------------------------
Moments == 1..MaxTime \cup {Nil}

(* Typing: the types of all variables; no bucket is over its limit.        *)
ReplayTypeOK ==
  /\ now \in 1..MaxTime /\ stamp \in [Envelopes -> Int]
  /\ at \in [Handlers -> {"idle", "opened", "fresh"}]
  /\ env \in [Handlers -> Envelopes \cup {Nil}]
  /\ buckets \in [Senders -> [Envelopes -> Moments]]
  /\ restarts \in 0..MaxRestarts
  /\ lastTime \in [Envelopes -> Moments]
  /\ slow \subseteq Handlers
  /\ \A k \in Senders : Cardinality(Nonces(buckets[k])) <= Cap

(* The nonces handled since e, of the same sender, are as many as a bucket *)
(* holds: there may have been no room for e's.                             *)
Crowded(e) ==
  Cardinality({d \in Envelopes \ {e} :
                 /\ KeyOf[d] = KeyOf[e]
                 /\ lastTime[d] # Nil /\ lastTime[d] >= lastTime[e]}) >= Cap

(* However often an envelope arrives and on however many connections at    *)
(* once, one run of the program handles it a second time in two cases only.*)
(* Either a whole bucket of other envelopes of its sender was handled since*)
(* (the nonce dropped for want of room is the oldest, so no fewer will do),*)
(* or replayTTL has passed and its timestamp was missing or ahead of the   *)
(* receiver's clock, or the clock went on between this handler's two checks*)
(* (replay.go:12-28, :75-95, transfer.go:248-255).                         *)
HandledOnce ==
  [][\A h \in Handlers :
       Handle(h) /\ lastTime[env[h]] # Nil =>
         \/ Crowded(env[h])
         \/ /\ now - lastTime[env[h]] > TTL
            /\ \/ h \in slow
               \/ stamp[env[h]] = 0 \/ stamp[env[h]] > lastTime[env[h]]
    ]_replayVars
=============================================================================
