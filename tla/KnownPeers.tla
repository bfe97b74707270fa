----------------------------- MODULE KnownPeers -----------------------------
(***************************************************************************)
(* Who is who on the local network (internal/network/discovery.go,         *)
(* known_peers.go, commands/known_peers_cmds.go): machines announce their  *)
(* name and key, the first key of a name is pinned, and what is announced  *)
(* with another key is dropped until the user says otherwise.              *)
(*                                                                         *)
(* One machine is modelled, with the others as the announcements they send.*)
(* Announcements are repeated and may be lost, late, or in another order.  *)
(***************************************************************************)
EXTENDS Naturals, FiniteSets

CONSTANTS
  Machines,    \* the others, each at an address of its own
  Names,       \* user names
  NameOf,      \* the name each machine announces
  FirstKey,    \* its key at first
  Keys,        \* public keys
  NoKey,       \* what a version announces that has none
  MaxWire,     \* bound: announcements under way
  MaxFails,    \* bound: saves that fail
  None

VARIABLES
  keyOf,       \* each machine's key
  used,        \* the keys used so far; a new key is a fresh one
  wire,        \* announcements under way
  heard,       \* the one listenLoop holds between Pin and the table
  peers,       \* DiscoveryService.peers, by source address
  pinned,      \* KnownPeers.peers: the key of each name
  saved,       \* known_peers.json
  trusting,    \* the peer cmdTrust has looked up
  fails,
  unsaved,     \* history: the last save failed
  outdated,    \* history: entries made before the user changed their name's
               \* pin; with None: the one being made
  clean        \* history: names forgotten while nothing old was about

others == <<keyOf, used>>
store == <<pinned, saved, fails, unsaved>>
vars == <<others, wire, heard, peers, store, trusting, outdated, clean>>

Announcements == [from : Machines, key : Keys \cup {NoKey}]

ASSUME NameAssumption == NameOf \in [Machines -> Names]
ASSUME KeyAssumption ==
  FirstKey \in [Machines -> Keys \cup {NoKey}] /\ NoKey \notin Keys
ASSUME NoneAssumption == None \notin Announcements \cup Machines \cup Keys
ASSUME FailsAssumption == MaxFails \in Nat

Init ==
  /\ keyOf = FirstKey /\ used = {FirstKey[m] : m \in Machines}
  /\ wire = {} /\ heard = None /\ peers = [a \in Machines |-> None]
  /\ pinned = [n \in Names |-> None] /\ saved = pinned
  /\ trusting = None /\ fails = 0 /\ unsaved = FALSE
  /\ outdated = {} /\ clean = {}
-----------------------------------------------------------------------------
(* The others: announceLoop, and another secret or version. An             *)
(* announcement that is lost is one that was not sent.                     *)
Announcement(m) == [from |-> m, key |-> keyOf[m]]

Announce(m) ==
  /\ Cardinality(wire) < MaxWire
  /\ wire' = wire \cup {Announcement(m)}
  /\ UNCHANGED <<others, heard, peers, store, trusting, outdated, clean>>

NewKey(m) ==
  /\ \E k \in (Keys \ used) \cup {NoKey} :
       keyOf' = [keyOf EXCEPT ![m] = k] /\ used' = used \cup {k}
  /\ clean' = clean \ {NameOf[m]}
  /\ UNCHANGED <<wire, heard, peers, store, trusting, outdated>>

-----------------------------------------------------------------------------
(* saveLocked writes aside and renames: the file is the former one or this.*)
Save(pins) == saved' = pins /\ unsaved' = FALSE /\ UNCHANGED fails

SaveFails ==
  /\ fails < MaxFails /\ fails' = fails + 1
  /\ unsaved' = TRUE /\ UNCHANGED saved

(* Pin: the first key of a name is kept, if it can be saved; the same key  *)
(* again is saved with its time; another one is a mismatch.                *)
Added(a) ==
  /\ pinned[NameOf[a.from]] = None
  /\ pinned' = [pinned EXCEPT ![NameOf[a.from]] = a.key] /\ Save(pinned')

AddFails(a) ==
  /\ pinned[NameOf[a.from]] = None /\ fails < MaxFails /\ fails' = fails + 1
  /\ UNCHANGED <<pinned, saved, unsaved>>

Matches(a) ==
  /\ pinned[NameOf[a.from]] = a.key
  /\ Save(pinned) \/ SaveFails
  /\ UNCHANGED pinned

Mismatch(a) == pinned[NameOf[a.from]] \notin {None, a.key} /\ UNCHANGED store

AcceptedMutant(a) ==   \* a slip: a mismatch is only logged
  \/ a.key = NoKey /\ UNCHANGED store
  \/ a.key # NoKey /\ (Added(a) \/ Matches(a) \/ Mismatch(a))

(* Without a key nothing is compared.                                      *)
Accepted(a) ==
  \/ a.key = NoKey /\ UNCHANGED store
  \/ a.key # NoKey /\ (Added(a) \/ Matches(a))

Dropped(a) == a.key # NoKey /\ (AddFails(a) \/ Mismatch(a))

(* listenLoop takes one up, ...                                            *)
Hear(a) ==
  /\ a \in wire /\ heard = None /\ wire' = wire \ {a}
  /\ \/ Accepted(a) /\ heard' = a
     \/ Dropped(a) /\ UNCHANGED heard
  /\ UNCHANGED <<others, peers, trusting, outdated, clean>>

(* ... and enters it under the address it came from.                       *)
Enter ==
  /\ heard # None /\ heard' = None
  /\ peers' = [peers EXCEPT ![heard.from] = heard]
  /\ outdated' = (outdated \ {None, heard.from})
                   \cup (IF None \in outdated THEN {heard.from} ELSE {})
  /\ UNCHANGED <<others, wire, store, trusting, clean>>
-----------------------------------------------------------------------------
(* The user.                                                               *)
Outdated(n) ==
  {a \in Machines : peers[a] # None /\ NameOf[a] = n}
    \cup {h \in {None} : heard # None /\ NameOf[heard.from] = n}

Current(n) == {keyOf[m] : m \in {l \in Machines : NameOf[l] = n}}

(* Whatever still speaks for the name has a key of today.                  *)
NothingOld(n) ==
  \A a \in wire \cup ({heard} \ {None}) :
    NameOf[a.from] = n => a.key \in Current(n)

ForgetMutant(n) ==   \* a slip: the file is written, the memory kept
  /\ trusting = None /\ pinned[n] # None
  /\ UNCHANGED pinned
  /\ Save([pinned EXCEPT ![n] = None]) \/ SaveFails
  /\ outdated' = outdated \cup Outdated(n)
  /\ clean' = IF NothingOld(n) THEN clean \cup {n} ELSE clean \ {n}
  /\ UNCHANGED <<others, wire, heard, peers, trusting>>

(* @forget: what is not saved is forgotten all the same.                   *)
Forget(n) ==
  /\ trusting = None /\ pinned[n] # None
  /\ pinned' = [pinned EXCEPT ![n] = None]
  /\ Save(pinned') \/ SaveFails
  /\ outdated' = outdated \cup Outdated(n)
  /\ clean' = IF NothingOld(n) THEN clean \cup {n} ELSE clean \ {n}
  /\ UNCHANGED <<others, wire, heard, peers, trusting>>

(* @trust looks the peer up, as it was entered, and then pins its key.     *)
LookUp(a) ==
  /\ trusting = None /\ peers[a] # None /\ peers[a].key # NoKey
  /\ trusting' = peers[a]
  /\ UNCHANGED <<others, wire, heard, peers, store, outdated, clean>>

TrustMutant ==   \* a slip: the file is not written
  /\ trusting # None /\ trusting' = None
  /\ pinned' = [pinned EXCEPT ![NameOf[trusting.from]] = trusting.key]
  /\ outdated' = outdated \cup Outdated(NameOf[trusting.from])
  /\ clean' = clean \ {NameOf[trusting.from]}
  /\ UNCHANGED <<others, wire, heard, peers, saved, fails, unsaved>>

Trust ==
  /\ trusting # None /\ trusting' = None
  /\ pinned' = [pinned EXCEPT ![NameOf[trusting.from]] = trusting.key]
  /\ Save(pinned') \/ SaveFails
  /\ outdated' = outdated \cup Outdated(NameOf[trusting.from])
  /\ clean' = clean \ {NameOf[trusting.from]}
  /\ UNCHANGED <<others, wire, heard, peers>>

(* ListPeers deletes who was not heard for two minutes; nothing else does. *)
Expire(a) ==
  /\ peers[a] # None /\ peers' = [peers EXCEPT ![a] = None]
  /\ outdated' = outdated \ {a}
  /\ UNCHANGED <<others, wire, heard, store, trusting, clean>>

(* UpdateLocalEndpoint: another network.                                   *)
NewNetwork ==
  /\ peers' = [a \in Machines |-> None] /\ outdated' = outdated \cap {None}
  /\ UNCHANGED <<others, wire, heard, store, trusting, clean>>

(* The program ends and starts (NewKnownPeers).                            *)
Restart ==
  /\ pinned' = saved /\ unsaved' = FALSE
  /\ peers' = [a \in Machines |-> None]
  /\ heard' = None /\ trusting' = None /\ outdated' = {}
  /\ clean' = IF unsaved THEN {} ELSE clean
  /\ UNCHANGED <<others, wire, saved, fails>>
-----------------------------------------------------------------------------
Next ==
  \/ \E m \in Machines : Announce(m) \/ NewKey(m)
  \/ \E a \in wire : Hear(a)
  \/ Enter
  \/ \E n \in Names : Forget(n)
  \/ \E a \in Machines : LookUp(a) \/ Expire(a)
  \/ Trust \/ NewNetwork \/ Restart

Spec == Init /\ [][Next]_vars

(* announceLoop's ticker, the listener, and a network that does not lose   *)
(* every announcement of a machine for ever (strong, as MaxWire is the     *)
(* model's bound and not the machine's).                                   *)
Fairness ==
  /\ \A m \in Machines : SF_vars(Announce(m))
  /\ \A m \in Machines : SF_vars(Hear(Announcement(m)))
  /\ WF_vars(\E a \in wire : Hear(a))
  /\ WF_vars(Enter)

FairSpec == Spec /\ Fairness
-----------------------------------------------------------------------------
(* Typing: the types of all variables.                                     *)
TypeOK ==
  /\ keyOf \in [Machines -> Keys \cup {NoKey}]
  /\ used \subseteq Keys \cup {NoKey}
  /\ wire \subseteq Announcements
  /\ heard \in Announcements \cup {None}
  /\ peers \in [Machines -> Announcements \cup {None}]
  /\ pinned \in [Names -> Keys \cup {None}]
  /\ saved \in [Names -> Keys \cup {None}]
  /\ trusting \in Announcements \cup {None}
  /\ fails \in 0..MaxFails /\ unsaved \in BOOLEAN
  /\ outdated \subseteq Machines \cup {None} /\ clean \subseteq Names

(* A peer that can be written to under a name has the key pinned for the   *)
(* name, whatever was announced meanwhile and whichever saves failed; only *)
(* an entry made before the user forgot or trusted the name may differ     *)
(* (discovery.go:330-360).                                                 *)
PeersArePinned ==
  \A a \in Machines :
    peers[a] # None /\ peers[a].key # NoKey /\ a \notin outdated =>
      pinned[NameOf[a]] = peers[a].key

(* A pinned key stays, through announcements, failed saves and restarts:   *)
(* only @forget and @trust of its name change it, and a restart after one  *)
(* of them was not saved (known_peers.go:122-197).                         *)
PinsStay ==
  [][\A n \in Names :
       pinned[n] # None /\ pinned'[n] # pinned[n] =>
         \/ Forget(n)
         \/ Trust /\ NameOf[trusting.from] = n
         \/ Restart /\ unsaved]_vars

(* "The next announcement under that name will pin a new key"              *)
(* (known_peers_cmds.go:95-103): after @forget, a name announced by a      *)
(* machine is pinned again with a key that one has today - unless an old   *)
(* announcement was still under way, the machine took a new key, the user  *)
(* trusted what the table has, or @forget was not saved.                   *)
ForgottenReturns ==
  \A n \in Names :
    (n \in clean /\ Current(n) \cap Keys # {}) ~>
      (pinned[n] \in Current(n) \/ n \notin clean)
=============================================================================
