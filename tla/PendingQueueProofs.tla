------------------------- MODULE PendingQueueProofs -------------------------
(***************************************************************************)
(* Proofs about PendingQueue, for any offers, ids and bounds.              *)
(***************************************************************************)
EXTENDS PendingQueue, TLAPS

(* How the memory relates to the one the operation in progress began with. *)
Progress ==
  CASE op.name = "add" ->
         \E r \in Requests \ Offers(op.was) : Offers(mem) = Offers(op.was) \cup {r}
    [] op.name = "remove" ->
         \E r \in Offers(op.was) : Offers(mem) = Offers(op.was) \ {r}
    [] op.name = "flush" -> Offers(mem) = {}
    [] OTHER -> op.name \in {"close", "load"} /\ Offers(mem) = Offers(op.was)

(* The memory, what an operation may fall back on, and the file are sound, *)
(* list only offers that arrived and none that was answered.               *)
Sound(m) == Distinct(m) /\ Offers(m) \subseteq seen /\ gone \cap Offers(m) = {}

SoundInv ==
  /\ Sound(mem) /\ Sound(op.was)
  /\ disk \in Memory => Sound(disk)
  /\ gone \subseteq seen

OpInv ==
  /\ at \in {"off", "idle"} => op = NoOp
  /\ at = "off" => mem = Empty
  /\ at \notin {"off", "idle"} => Progress

IInv == TypeOK /\ SoundInv /\ OpInv /\ SavedAtRest
-----------------------------------------------------------------------------
LEMMA EmptyFacts ==
  /\ Empty \in Memory /\ Distinct(Empty) /\ Offers(Empty) = {}
<1>1. /\ Empty.files = NoItems /\ Empty.folders = NoItems
      /\ Empty.nextID = 1 /\ \A id \in Ids : NoItems[id] = None
  BY DEF Empty, NoItems
<1>2. Empty \in Memory
  BY DEF Empty, NoItems, Memory, Items
<1>3. Used(Empty) = {}
  BY <1>1 DEF Used
<1>4. Offers(Empty) = {}
  BY <1>1, ValuesAssumption DEF Offers
<1>5. Distinct(Empty)
  BY <1>1, <1>3 DEF Distinct
<1> QED BY <1>2, <1>4, <1>5

(* Storing an offer under a new id adds it and keeps ids distinct.         *)
LEMMA StoreFile ==
  ASSUME NEW m \in Memory, Distinct(m), m.nextID \in Ids,
         NEW r \in Requests, r \notin Offers(m),
         NEW n, n = WithFile(m, r)
  PROVE  n \in Memory /\ Distinct(n) /\ Offers(n) = Offers(m) \cup {r}
<1> SUFFICES ASSUME NEW i, i = m.nextID
             PROVE  n \in Memory /\ Distinct(n) /\ Offers(n) = Offers(m) \cup {r}
  OBVIOUS
<1>1. /\ m.files \in Items /\ m.folders \in Items
      /\ i \in Nat \ {0} /\ i \in Ids
  BY DEF Memory
<1>2. /\ n.nextID = i + 1 /\ n.folders = m.folders
      /\ n.files = [m.files EXCEPT ![i] = r]
      /\ n \in Memory
  BY <1>1 DEF Memory, Items, WithFile
<1>3. \A id \in Ids : n.files[id] = IF id = i THEN r ELSE m.files[id]
  BY <1>1, <1>2 DEF Items
<1>4. m.files[i] = None /\ m.folders[i] = None
  <2>1. i \notin Used(m)
    BY <1>1 DEF Distinct
  <2> QED BY <2>1, <1>1 DEF Used
<1>5. \A id \in Ids : m.files[id] # r /\ m.folders[id] # r
  BY DEF Offers
<1>6. Offers(n) = Offers(m) \cup {r}
  <2>1. r # None
    BY ValuesAssumption
  <2>2. ASSUME NEW q \in Offers(n)  PROVE q \in Offers(m) \cup {r}
    BY <2>2, <1>2, <1>3 DEF Offers
  <2>3. ASSUME NEW q \in Offers(m)  PROVE q \in Offers(n)
    <3>1. PICK id \in Ids : m.files[id] = q \/ m.folders[id] = q
      BY <2>3 DEF Offers
    <3>2. q \in Requests /\ q # None
      BY <2>3, ValuesAssumption DEF Offers
    <3>3. id # i
      BY <3>1, <3>2, <1>4
    <3> QED BY <3>1, <3>2, <3>3, <1>2, <1>3 DEF Offers
  <2>4. r \in Offers(n)
    BY <1>1, <1>3 DEF Offers
  <2>5. Offers(n) \subseteq Requests
    BY DEF Offers
  <2> QED BY <2>2, <2>3, <2>4
<1>7. \A id \in Used(n) : id < n.nextID
  <2>1. ASSUME NEW id \in Used(n)  PROVE id < n.nextID
    <3>1. id \in Ids /\ id \in Nat
      BY IdsAssumption DEF Used
    <3>2. CASE id = i
      BY <3>1, <3>2, <1>1, <1>2
    <3>3. CASE id # i
      <4>1. id \in Used(m)
        BY <3>1, <3>3, <2>1, <1>2, <1>3 DEF Used
      <4> QED BY <4>1, <3>1, <1>1, <1>2 DEF Distinct
    <3> QED BY <3>2, <3>3
  <2> QED BY <2>1
<1>8. Distinct(n)
  <2>1. \A id \in Ids : n.files[id] = None \/ n.folders[id] = None
    BY <1>2, <1>3, <1>4 DEF Distinct
  <2>2. ASSUME NEW a \in Ids, NEW b \in Ids, a # b
        PROVE  /\ n.files[a] # None => n.files[a] # n.files[b]
               /\ n.folders[a] # None => n.folders[a] # n.folders[b]
    BY <2>2, <1>2, <1>3, <1>5 DEF Distinct
  <2>3. ASSUME NEW a \in Ids, NEW b \in Ids, n.files[a] # None
        PROVE  n.files[a] # n.folders[b]
    BY <2>3, <1>2, <1>3, <1>5 DEF Distinct
  <2> QED BY <2>1, <2>2, <2>3, <1>7 DEF Distinct
<1> QED BY <1>2, <1>6, <1>8
(* Clearing an id removes exactly the offer it named.                      *)
LEMMA ClearFile ==
  ASSUME NEW m \in Memory, Distinct(m), NEW i \in Ids, m.files[i] # None,
         NEW n, n = [nextID |-> m.nextID, folders |-> m.folders,
                     files |-> [m.files EXCEPT ![i] = None]]
  PROVE  /\ n \in Memory /\ Distinct(n)
         /\ m.files[i] \in Offers(m) /\ Offers(n) = Offers(m) \ {m.files[i]}
<1>1. m.files \in Items /\ m.folders \in Items /\ m.nextID \in Nat \ {0}
  BY DEF Memory
<1>2. /\ n.nextID = m.nextID /\ n.folders = m.folders
      /\ n.files = [m.files EXCEPT ![i] = None]
      /\ n \in Memory
  BY <1>1 DEF Memory, Items
<1>3. \A id \in Ids : n.files[id] = IF id = i THEN None ELSE m.files[id]
  BY <1>1, <1>2 DEF Items
<1>4. m.files[i] \in Requests /\ m.files[i] \in Offers(m)
  BY <1>1 DEF Items, Offers
<1>5. Offers(n) = Offers(m) \ {m.files[i]}
  <2>1. ASSUME NEW q \in Offers(n)  PROVE q \in Offers(m) \ {m.files[i]}
    <3>1. PICK id \in Ids : n.files[id] = q \/ n.folders[id] = q
      BY <2>1 DEF Offers
    <3>2. q \in Requests /\ q # None
      BY <2>1, ValuesAssumption DEF Offers
    <3>3. CASE n.files[id] = q
      <4>1. id # i /\ m.files[id] = q
        BY <3>1, <3>2, <3>3, <1>3
      <4>2. m.files[i] # m.files[id]
        BY <4>1, <3>1 DEF Distinct
      <4> QED BY <4>1, <4>2, <3>1, <3>2 DEF Offers
    <3>4. CASE n.folders[id] = q
      <4>1. m.folders[id] = q
        BY <3>4, <1>2
      <4>2. m.files[i] # m.folders[id]
        BY <3>1 DEF Distinct
      <4> QED BY <4>1, <4>2, <3>1, <3>2 DEF Offers
    <3> QED BY <3>1, <3>3, <3>4
  <2>2. ASSUME NEW q \in Offers(m), q # m.files[i]  PROVE q \in Offers(n)
    BY <2>2, <1>2, <1>3 DEF Offers
  <2> QED BY <2>1, <2>2
<1>6. \A id \in Used(n) : id < n.nextID
  <2>1. Used(n) \subseteq Used(m)
    BY <1>2, <1>3 DEF Used
  <2> QED BY <2>1, <1>2 DEF Distinct
<1>7. Distinct(n)
  <2>1. \A id \in Ids : n.files[id] = None \/ n.folders[id] = None
    BY <1>2, <1>3 DEF Distinct
  <2>2. ASSUME NEW a \in Ids, NEW b \in Ids, a # b
        PROVE  /\ n.files[a] # None => n.files[a] # n.files[b]
               /\ n.folders[a] # None => n.folders[a] # n.folders[b]
    BY <2>2, <1>2, <1>3 DEF Distinct
  <2>3. ASSUME NEW a \in Ids, NEW b \in Ids, n.files[a] # None
        PROVE  n.files[a] # n.folders[b]
    BY <2>3, <1>2, <1>3 DEF Distinct
  <2> QED BY <2>1, <2>2, <2>3, <1>6 DEF Distinct
<1> QED BY <1>2, <1>4, <1>5, <1>7

(* Files and folders exchanged.                                            *)
Mirror(m) == [nextID |-> m.nextID, files |-> m.folders, folders |-> m.files]

LEMMA MirrorFacts ==
  ASSUME NEW m \in Memory
  PROVE  /\ Mirror(m) \in Memory /\ Mirror(Mirror(m)) = m
         /\ Mirror(m).nextID = m.nextID
         /\ Mirror(m).files = m.folders /\ Mirror(m).folders = m.files
         /\ Offers(Mirror(m)) = Offers(m)
         /\ Distinct(m) => Distinct(Mirror(m))
<1>1. /\ Mirror(m).nextID = m.nextID
      /\ Mirror(m).files = m.folders /\ Mirror(m).folders = m.files
  BY DEF Mirror
<1>2. Mirror(m) \in Memory /\ Mirror(Mirror(m)) = m
  BY DEF Mirror, Memory
<1>3. Offers(Mirror(m)) = Offers(m)
  BY <1>1 DEF Offers
<1>4. Used(Mirror(m)) = Used(m)
  BY <1>1 DEF Used
<1>5. ASSUME Distinct(m)  PROVE Distinct(Mirror(m))
  <2>1. ASSUME NEW a \in Ids, NEW b \in Ids, m.folders[a] # None
        PROVE  m.folders[a] # m.files[b]
    <3>1. CASE m.files[b] = None
      BY <2>1, <3>1
    <3>2. CASE m.files[b] # None
      BY <3>2, <1>5 DEF Distinct
    <3> QED BY <3>1, <3>2
  <2> QED BY <2>1, <1>1, <1>4, <1>5 DEF Distinct
<1> QED BY <1>1, <1>2, <1>3, <1>5

LEMMA StoreFolder ==
  ASSUME NEW m \in Memory, Distinct(m), m.nextID \in Ids,
         NEW r \in Requests, r \notin Offers(m),
         NEW n, n = WithFolder(m, r)
  PROVE  n \in Memory /\ Distinct(n) /\ Offers(n) = Offers(m) \cup {r}
<1>1. n = Mirror(WithFile(Mirror(m), r))
  BY MirrorFacts DEF WithFile, WithFolder, Mirror
<1>2. SUFFICES ASSUME NEW k, k = WithFile(Mirror(m), r)
               PROVE  /\ Mirror(k) \in Memory /\ Distinct(Mirror(k))
                      /\ Offers(Mirror(k)) = Offers(m) \cup {r}
  BY <1>1
<1>3. k \in Memory /\ Distinct(k) /\ Offers(k) = Offers(m) \cup {r}
  BY <1>2, MirrorFacts, StoreFile
<1> QED BY <1>3, MirrorFacts

LEMMA ClearFolder ==
  ASSUME NEW m \in Memory, Distinct(m), NEW i \in Ids, m.folders[i] # None,
         NEW n, n = [nextID |-> m.nextID, files |-> m.files,
                     folders |-> [m.folders EXCEPT ![i] = None]]
  PROVE  /\ n \in Memory /\ Distinct(n)
         /\ m.folders[i] \in Offers(m)
         /\ Offers(n) = Offers(m) \ {m.folders[i]}
<1>1. n = Mirror([nextID |-> Mirror(m).nextID,
                  folders |-> Mirror(m).folders,
                  files |-> [Mirror(m).files EXCEPT ![i] = None]])
  BY MirrorFacts DEF Mirror
<1>2. SUFFICES ASSUME NEW k,
                      k = [nextID |-> Mirror(m).nextID,
                           folders |-> Mirror(m).folders,
                           files |-> [Mirror(m).files EXCEPT ![i] = None]]
               PROVE  /\ Mirror(k) \in Memory /\ Distinct(Mirror(k))
                      /\ m.folders[i] \in Offers(m)
                      /\ Offers(Mirror(k)) = Offers(m) \ {m.folders[i]}
  BY <1>1
<1>3. /\ k \in Memory /\ Distinct(k)
      /\ m.folders[i] \in Offers(m) /\ Offers(k) = Offers(m) \ {m.folders[i]}
  BY <1>2, MirrorFacts, ClearFile
<1> QED BY <1>3, MirrorFacts

(* A snapshot is loaded as it was saved.                                   *)
LEMMA LoadFacts ==
  ASSUME NEW m \in Memory, Distinct(m)
  PROVE  [nextID |-> LoadedNextID(m), files |-> m.files,
          folders |-> m.folders] = m
<1>1. LoadedNextID(m) = m.nextID
  BY DEF LoadedNextID, Distinct
<1> QED BY <1>1 DEF Memory
-----------------------------------------------------------------------------
LEMMA InitIInv == Init => IInv
<1> SUFFICES ASSUME Init  PROVE IInv
  OBVIOUS
<1>1. TypeOK
  <2>1. Empty \in Memory
    BY EmptyFacts
  <2>2. 0 \in 0..MaxDiskFails /\ 0 \in 0..MaxTears
    BY BoundsAssumption
  <2>3. NoOp \in [name : {"none", "add", "remove", "flush", "close", "load"},
                  was : Memory]
    BY <2>1 DEF NoOp
  <2> QED BY <2>1, <2>2, <2>3 DEF Init, TypeOK
<1>2. Sound(Empty)
  BY EmptyFacts DEF Sound
<1>3. SoundInv
  <2>1. mem = Empty /\ op.was = Empty /\ disk = Missing
    BY DEF Init, NoOp
  <2>2. Sound(mem) /\ Sound(op.was)
    BY <1>2, <2>1
  <2>3. disk \notin Memory
    BY <2>1, ValuesAssumption
  <2>4. gone \subseteq seen
    BY DEF Init
  <2> QED BY <2>2, <2>3, <2>4 DEF SoundInv
<1>4. OpInv /\ SavedAtRest
  BY DEF Init, OpInv, SavedAtRest
<1> QED BY <1>1, <1>3, <1>4 DEF IInv

(* What every operation's first step leaves to be shown.                   *)
LEMMA BeginFacts ==
  ASSUME IInv, NEW name \in {"add", "remove", "flush", "close"}, Begin(name),
         mem' \in Memory, Distinct(mem'), Offers(mem') \subseteq seen',
         seen \subseteq seen', seen' \subseteq Requests,
         gone \cap Offers(mem') = {}, Progress'
  PROVE  IInv'
<1>1. /\ at = "idle" /\ at' = "writing"
      /\ op' = [name |-> name, was |-> mem]
      /\ persistErr' = persistErr /\ disk' = disk /\ gone' = gone
      /\ fails' = fails /\ tears' = tears
  BY DEF Begin
<1>2. TypeOK'
  BY <1>1 DEF IInv, TypeOK
<1>3. /\ op'.was = mem /\ op'.name = name
  BY <1>1
<1>4. SoundInv'
  <2>1. \A m \in Memory : Sound(m) => Sound(m)'
    BY <1>1 DEF Sound, Distinct, Used, Offers
  <2>2. Sound(mem)'
    BY <1>1 DEF Sound
  <2>3. Sound(op.was)'
    BY <1>1, <1>3 DEF IInv, SoundInv, Sound
  <2>4. (disk \in Memory => Sound(disk))'
    BY <1>1 DEF IInv, SoundInv, Sound
  <2>5. (gone \subseteq seen)'
    BY <1>1 DEF IInv, SoundInv
  <2> QED BY <2>2, <2>3, <2>4, <2>5 DEF SoundInv
<1>5. OpInv'
  BY <1>1 DEF OpInv
<1>6. SavedAtRest'
  BY <1>1 DEF SavedAtRest
<1> QED BY <1>2, <1>4, <1>5, <1>6 DEF IInv

LEMMA AddStep ==
  ASSUME IInv, NEW r \in Requests, Add(r),
         mem' \in Memory, Distinct(mem'),
         Offers(mem') = Offers(mem) \cup {r}
  PROVE  IInv'
<1>1. /\ Begin("add") /\ r \notin seen /\ seen' = seen \cup {r}
      /\ op' = [name |-> "add", was |-> mem] /\ op'.name = "add"
      /\ op'.was = mem
  BY DEF Add, Begin
<1>2. /\ Offers(mem) \subseteq seen /\ gone \cap Offers(mem) = {}
      /\ gone \subseteq seen /\ seen \subseteq Requests
  BY DEF IInv, SoundInv, Sound, TypeOK
<1>3. Progress'
  BY <1>1, <1>2 DEF Progress
<1> QED BY <1>1, <1>2, <1>3, BeginFacts

LEMMA RemoveStep ==
  ASSUME IInv, Begin("remove"), seen' = seen,
         mem' \in Memory, Distinct(mem'), NEW r \in Offers(mem),
         Offers(mem') = Offers(mem) \ {r}
  PROVE  IInv'
<1>1. /\ op' = [name |-> "remove", was |-> mem] /\ op'.name = "remove"
      /\ op'.was = mem
  BY DEF Begin
<1>2. /\ Offers(mem) \subseteq seen /\ gone \cap Offers(mem) = {}
      /\ seen \subseteq Requests
  BY DEF IInv, SoundInv, Sound, TypeOK
<1>3. Progress'
  BY <1>1 DEF Progress
<1> QED BY <1>1, <1>2, <1>3, BeginFacts
LEMMA OperationSteps ==
  /\ \A r \in Requests : IInv /\ (AddFile(r) \/ AddFolder(r)) => IInv'
  /\ \A id \in Ids : IInv /\ (RemoveFile(id) \/ RemoveFolder(id)) => IInv'
  /\ IInv /\ (Flush \/ Close) => IInv'
<1>1. ASSUME IInv
      PROVE  /\ mem \in Memory /\ Distinct(mem)
             /\ Offers(mem) \subseteq seen /\ gone \cap Offers(mem) = {}
             /\ seen \subseteq Requests
  BY <1>1 DEF IInv, SoundInv, Sound, TypeOK
<1>2. ASSUME IInv, NEW r \in Requests, AddFile(r)  PROVE IInv'
  <2>1. Add(r) /\ mem' = WithFile(mem, r) /\ mem.nextID \in Ids /\ r \notin seen
    BY <1>2 DEF AddFile, Add
  <2>2. mem' \in Memory /\ Distinct(mem') /\ Offers(mem') = Offers(mem) \cup {r}
    BY <1>1, <1>2, <2>1, StoreFile
  <2> QED BY <1>2, <2>1, <2>2, AddStep
<1>3. ASSUME IInv, NEW r \in Requests, AddFolder(r)  PROVE IInv'
  <2>1. Add(r) /\ mem' = WithFolder(mem, r) /\ mem.nextID \in Ids /\ r \notin seen
    BY <1>3 DEF AddFolder, Add
  <2>2. mem' \in Memory /\ Distinct(mem') /\ Offers(mem') = Offers(mem) \cup {r}
    BY <1>1, <1>3, <2>1, StoreFolder
  <2> QED BY <1>3, <2>1, <2>2, AddStep
<1>4. ASSUME IInv, NEW id \in Ids, RemoveFile(id)  PROVE IInv'
  <2>1. /\ Begin("remove") /\ mem.files[id] # None /\ seen' = seen
        /\ mem' = [nextID |-> mem.nextID, folders |-> mem.folders,
                   files |-> [mem.files EXCEPT ![id] = None]]
    BY <1>4 DEF RemoveFile
  <2>2. /\ mem' \in Memory /\ Distinct(mem') /\ mem.files[id] \in Offers(mem)
        /\ Offers(mem') = Offers(mem) \ {mem.files[id]}
    BY <1>1, <1>4, <2>1, ClearFile
  <2> QED BY <1>4, <2>1, <2>2, RemoveStep
<1>5. ASSUME IInv, NEW id \in Ids, RemoveFolder(id)  PROVE IInv'
  <2>1. /\ Begin("remove") /\ mem.folders[id] # None /\ seen' = seen
        /\ mem' = [nextID |-> mem.nextID, files |-> mem.files,
                   folders |-> [mem.folders EXCEPT ![id] = None]]
    BY <1>5 DEF RemoveFolder
  <2>2. /\ mem' \in Memory /\ Distinct(mem') /\ mem.folders[id] \in Offers(mem)
        /\ Offers(mem') = Offers(mem) \ {mem.folders[id]}
    BY <1>1, <1>5, <2>1, ClearFolder
  <2> QED BY <1>5, <2>1, <2>2, RemoveStep
<1>6. ASSUME IInv, Flush  PROVE IInv'
  <2>1. Begin("flush") /\ mem' = Empty /\ seen' = seen /\ op'.name = "flush"
    BY <1>6 DEF Flush, Begin
  <2>2. mem' \in Memory /\ Distinct(mem') /\ Offers(mem') = {}
    BY <2>1, EmptyFacts
  <2>3. Progress'
    BY <2>1, <2>2 DEF Progress
  <2> QED BY <1>1, <1>6, <2>1, <2>2, <2>3, BeginFacts
<1>7. ASSUME IInv, Close  PROVE IInv'
  <2>1. /\ Begin("close") /\ mem' = mem /\ seen' = seen
        /\ op'.name = "close" /\ op'.was = mem
    BY <1>7 DEF Close, Begin
  <2>2. Progress'
    BY <2>1 DEF Progress
  <2>3. Distinct(mem') /\ Offers(mem') = Offers(mem)
    BY <1>1, <1>7, <2>1
  <2> QED BY <1>1, <1>7, <2>1, <2>2, <2>3, BeginFacts
<1> QED BY <1>2, <1>3, <1>4, <1>5, <1>6, <1>7

(* Sound speaks of the histories only beside its argument.                 *)
LEMMA SoundKept ==
  ASSUME seen' = seen, gone' = gone, NEW m, Sound(m), NEW n, n = m
  PROVE  Sound(n)'
BY DEF Sound

LEMMA LoadStep == IInv /\ Load => IInv'
<1> SUFFICES ASSUME IInv, Load  PROVE IInv'
  OBVIOUS
<1>1. /\ at' = "writing" /\ persistErr' = FALSE
      /\ op' = [name |-> "load", was |-> mem']
      /\ op'.name = "load" /\ op'.was = mem'
      /\ seen' = seen /\ gone' = gone /\ fails' = fails /\ tears' = tears
  BY DEF Load, history
<1>2. /\ mem' \in Memory /\ Sound(mem)'
      /\ disk' \in Memory \cup {Missing, Torn}
      /\ (disk \in Memory => Sound(disk))'
  <2>1. CASE disk \in {Missing, Torn}
    <3>1. mem' = Empty /\ disk' = Missing
      BY <2>1 DEF Load
    <3>2. Sound(mem)'
      BY <3>1, EmptyFacts DEF Sound
    <3> QED BY <3>1, <3>2, EmptyFacts, ValuesAssumption
  <2>2. CASE disk \notin {Missing, Torn}
    <3>1. disk \in Memory /\ Sound(disk)
      BY <2>2 DEF IInv, TypeOK, SoundInv
    <3>2. mem' = disk /\ disk' = disk
      BY <2>2, <3>1, LoadFacts DEF Load, Sound
    <3> QED BY <1>1, <3>1, <3>2, SoundKept
  <2> QED BY <2>1, <2>2
<1>3. TypeOK'
  BY <1>1, <1>2 DEF IInv, TypeOK
<1>4. SoundInv'
  BY <1>1, <1>2 DEF IInv, SoundInv, Sound
<1>5. OpInv'
  BY <1>1 DEF OpInv, Progress
<1>6. SavedAtRest'
  BY <1>1 DEF SavedAtRest
<1> QED BY <1>3, <1>4, <1>5, <1>6 DEF IInv
(* The steps of a save that change neither the memory nor the histories.   *)
LEMMA WritingSteps == IInv /\ (WriteTemp \/ RemoveSnapshot) => IInv'
<1> SUFFICES ASSUME IInv, WriteTemp \/ RemoveSnapshot  PROVE IInv'
  OBVIOUS
<1>1. /\ at \in {"writing", "removing"} /\ at' \in {"removing", "renaming"}
      /\ mem' = mem /\ op' = op /\ persistErr' = persistErr
      /\ seen' = seen /\ gone' = gone /\ fails' = fails /\ tears' = tears
      /\ disk' = disk \/ disk' = Missing
  BY DEF WriteTemp, RemoveSnapshot, history
<1>2. TypeOK'
  BY <1>1 DEF IInv, TypeOK
<1>3. Sound(mem)' /\ Sound(op.was)'
  BY <1>1, SoundKept DEF IInv, SoundInv
<1>4. (disk \in Memory => Sound(disk))'
  <2>1. CASE disk' = disk
    BY <1>1, <2>1, SoundKept DEF IInv, SoundInv
  <2>2. CASE disk' = Missing
    BY <2>2, ValuesAssumption
  <2> QED BY <1>1, <2>1, <2>2
<1>5. SoundInv'
  BY <1>1, <1>3, <1>4 DEF IInv, SoundInv
<1>6. Progress' = Progress
  BY <1>1 DEF Progress
<1>7. OpInv'
  BY <1>1, <1>6 DEF IInv, OpInv
<1>8. SavedAtRest'
  BY <1>1 DEF SavedAtRest
<1> QED BY <1>2, <1>5, <1>7, <1>8 DEF IInv

LEMMA NoOpFacts ==
  /\ NoOp.was = Empty /\ NoOp.name = "none"
  /\ NoOp \in [name : {"none", "add", "remove", "flush", "close", "load"},
               was : Memory]
BY EmptyFacts DEF NoOp

LEMMA RenameStep == IInv /\ RenameTemp => IInv'
<1> SUFFICES ASSUME IInv, RenameTemp  PROVE IInv'
  OBVIOUS
<1>1. /\ at = "renaming" /\ at' = "idle" /\ disk' = mem /\ op' = NoOp
      /\ mem' = mem /\ persistErr' = persistErr /\ seen' = seen
      /\ fails' = fails /\ tears' = tears
  BY DEF RenameTemp
<1>2. gone' = gone \/ gone' = gone \cup (Offers(op.was) \ Offers(mem))
  BY DEF RenameTemp
<1>3. /\ mem \in Memory /\ Distinct(mem) /\ Offers(mem) \subseteq seen
      /\ gone \cap Offers(mem) = {} /\ gone \subseteq seen
      /\ Offers(op.was) \subseteq seen /\ seen \subseteq Requests
  BY DEF IInv, SoundInv, Sound, TypeOK
<1>4. gone' \subseteq seen /\ gone' \cap Offers(mem) = {}
  BY <1>2, <1>3
<1>5. TypeOK'
  BY <1>1, <1>3, <1>4, NoOpFacts DEF IInv, TypeOK
<1>6. Sound(mem)'
  BY <1>1, <1>3, <1>4 DEF Sound
<1>7. Sound(disk)'
  BY <1>1, <1>3, <1>4 DEF Sound
<1>8. Sound(op.was)'
  BY <1>1, NoOpFacts, EmptyFacts DEF Sound
<1>9. SoundInv'
  BY <1>1, <1>4, <1>6, <1>7, <1>8 DEF SoundInv
<1>10. OpInv'
  BY <1>1 DEF OpInv
<1>11. SavedAtRest'
  BY <1>1 DEF SavedAtRest
<1> QED BY <1>5, <1>9, <1>10, <1>11 DEF IInv

LEMMA SaveFailsStep == IInv /\ SaveFails => IInv'
<1> SUFFICES ASSUME IInv, SaveFails  PROVE IInv'
  OBVIOUS
<1>1. /\ at \in {"writing", "removing", "renaming"} /\ op' = NoOp
      /\ fails < MaxDiskFails /\ fails' = fails + 1
      /\ persistErr' = (persistErr \/ op.name = "add")
      /\ disk' = disk /\ seen' = seen /\ gone' = gone /\ tears' = tears
  BY DEF SaveFails
<1>2. \/ at' = "off" /\ mem' = Empty
      \/ at' = "idle" /\ mem' \in {mem, op.was}
  BY DEF SaveFails, AfterFailure
<1>3. fails \in Nat /\ fails' \in 0..MaxDiskFails /\ fails' # 0
  BY <1>1, BoundsAssumption DEF IInv, TypeOK
<1>4. mem' \in Memory
  BY <1>2, EmptyFacts DEF IInv, TypeOK
<1>5. TypeOK'
  <2>1. persistErr' \in BOOLEAN
    BY <1>1
  <2>2. at' \in {"off", "idle"}
    BY <1>2
  <2> QED BY <1>1, <1>3, <1>4, <2>1, <2>2, NoOpFacts DEF IInv, TypeOK
<1>6. Sound(Empty)'
  BY EmptyFacts DEF Sound
<1>7. Sound(mem)'
  <2>1. CASE mem' = Empty
    BY <2>1, EmptyFacts DEF Sound
  <2>2. CASE mem' \in {mem, op.was}
    BY <1>1, <2>2, SoundKept DEF IInv, SoundInv
  <2> QED BY <1>2, <2>1, <2>2
<1>8. Sound(op.was)'
  BY <1>1, NoOpFacts, EmptyFacts DEF Sound
<1>9. (disk \in Memory => Sound(disk))'
  BY <1>1, SoundKept DEF IInv, SoundInv
<1>10. SoundInv'
  BY <1>1, <1>7, <1>8, <1>9 DEF IInv, SoundInv
<1>11. OpInv'
  BY <1>1, <1>2 DEF OpInv
<1>12. SavedAtRest'
  BY <1>3 DEF SavedAtRest
<1> QED BY <1>5, <1>10, <1>11, <1>12 DEF IInv

LEMMA CrashStep == IInv /\ Crash => IInv'
<1> SUFFICES ASSUME IInv, Crash  PROVE IInv'
  OBVIOUS
<1>1. /\ at' = "off" /\ mem' = Empty /\ persistErr' = FALSE /\ op' = NoOp
      /\ seen' = seen /\ gone' = gone /\ fails' = fails
  BY DEF Crash
<1>2. disk' \in {disk, Torn} /\ tears' \in 0..MaxTears
  BY BoundsAssumption DEF Crash, IInv, TypeOK
<1>3. TypeOK'
  BY <1>1, <1>2, NoOpFacts, EmptyFacts DEF IInv, TypeOK
<1>4. Sound(mem)'
  BY <1>1, EmptyFacts DEF Sound
<1>5. Sound(op.was)'
  BY <1>1, NoOpFacts, EmptyFacts DEF Sound
<1>6. (disk \in Memory => Sound(disk))'
  BY <1>1, <1>2, SoundKept, ValuesAssumption DEF IInv, SoundInv
<1>7. SoundInv'
  BY <1>1, <1>4, <1>5, <1>6 DEF IInv, SoundInv
<1>8. OpInv' /\ SavedAtRest'
  BY <1>1 DEF OpInv, SavedAtRest
<1> QED BY <1>3, <1>7, <1>8 DEF IInv

LEMMA StepIInv == IInv /\ [Next]_vars => IInv'
<1> SUFFICES ASSUME IInv, [Next]_vars  PROVE IInv'
  OBVIOUS
<1>1. CASE Next
  BY <1>1, OperationSteps, LoadStep, WritingSteps, RenameStep, SaveFailsStep,
     CrashStep DEF Next
<1>2. CASE UNCHANGED vars
  <2>1. /\ mem' = mem /\ persistErr' = persistErr /\ disk' = disk
        /\ at' = at /\ op' = op /\ seen' = seen /\ gone' = gone
        /\ fails' = fails /\ tears' = tears
    BY <1>2 DEF vars
  <2>2. TypeOK'
    BY <2>1 DEF IInv, TypeOK
  <2>3. SoundInv'
    BY <2>1, SoundKept DEF IInv, SoundInv
  <2>4. OpInv'
    BY <2>1 DEF IInv, OpInv, Progress
  <2>5. SavedAtRest'
    BY <2>1 DEF IInv, SavedAtRest
  <2> QED BY <2>2, <2>3, <2>4, <2>5 DEF IInv
<1> QED BY <1>1, <1>2

THEOREM Invariant == Spec => []IInv
<1>1. Init => IInv
  BY InitIInv
<1>2. IInv /\ [Next]_vars => IInv'
  BY StepIInv
<1> QED BY <1>1, <1>2, PTL DEF Spec
-----------------------------------------------------------------------------
(* Every reachable state is well typed.                                    *)
THEOREM Typing == Spec => []TypeOK
<1>1. IInv => TypeOK
  BY DEF IInv
<1> QED BY <1>1, Invariant, PTL

(* However many offers arrive, whatever fails or crashes, an id names at   *)
(* most one pending item and is never given to a second one while it does  *)
(* (queue.go:84-156, 263-338).                                             *)
THEOREM OneItemPerId == Spec => []IdsUnique
<1>1. IInv => IdsUnique
  BY DEF IInv, SoundInv, Sound, IdsUnique
<1> QED BY <1>1, Invariant, PTL

(* An offer whose removal returned without an error is in neither the      *)
(* queue nor the file, after any later operation, failure or restart.      *)
THEOREM AnsweredOnce == Spec => []NoneComesBack
<1>1. ASSUME IInv  PROVE NoneComesBack
  <2>1. gone \cap Offers(mem) = {}
    BY <1>1 DEF IInv, SoundInv, Sound
  <2>2. gone \cap Kept = {}
    BY <1>1 DEF IInv, SoundInv, Sound, TypeOK, Kept
  <2> QED BY <2>1, <2>2 DEF NoneComesBack
<1> QED BY <1>1, Invariant, PTL

(* Without a disk failure the snapshot is the queue between any two        *)
(* operations, whatever crashes came before.                               *)
THEOREM Saved == Spec => []SavedAtRest
<1>1. IInv => SavedAtRest
  BY DEF IInv
<1> QED BY <1>1, Invariant, PTL
-----------------------------------------------------------------------------
(* What the abstract queue sees of a state.                                *)
LEMMA VisibleFacts ==
  /\ at = "off" => Visible = {}
  /\ at = "idle" => Visible = Offers(mem)
  /\ at \notin {"off", "idle"} => Visible = Offers(op.was)
BY DEF Visible

LEMMA VisibleFactsNext ==
  /\ at' = "off" => Visible' = {}
  /\ at' = "idle" => Visible' = Offers(mem')
  /\ at' \notin {"off", "idle"} => Visible' = Offers(op'.was)
BY DEF Visible, Offers

(* The first step of an operation is not visible yet.                      *)
LEMMA BeginRefines ==
  ASSUME NEW name, Begin(name)
  PROVE  UNCHANGED <<Visible, Kept, at # "off">>
<1>1. /\ at = "idle" /\ at' = "writing" /\ disk' = disk /\ op'.was = mem
  BY DEF Begin
<1>2. Visible' = Visible
  BY <1>1, VisibleFacts, VisibleFactsNext
<1>3. Kept' = Kept
  BY <1>1 DEF Kept, Offers
<1> QED BY <1>1, <1>2, <1>3

LEMMA LoadRefines == IInv /\ Load => Abstract!Load
<1> SUFFICES ASSUME IInv, Load  PROVE Abstract!Load
  OBVIOUS
<1>1. at = "off" /\ at' = "writing" /\ op'.was = mem'
  BY DEF Load
<1>2. Visible' = Offers(mem')
  BY <1>1, VisibleFactsNext
<1>3. Offers(mem') = Kept /\ Kept' = Kept
  <2>1. CASE disk \in {Missing, Torn}
    <3>1. mem' = Empty /\ disk' = Missing
      BY <2>1 DEF Load
    <3>2. Kept = {} /\ Kept' = {}
      BY <2>1, <3>1 DEF Kept
    <3> QED BY <3>1, <3>2, EmptyFacts
  <2>2. CASE disk \notin {Missing, Torn}
    <3>1. disk \in Memory /\ Distinct(disk)
      BY <2>2 DEF IInv, TypeOK, SoundInv, Sound
    <3>2. mem' = disk /\ disk' = disk
      BY <2>2, <3>1, LoadFacts DEF Load
    <3> QED BY <2>2, <3>2 DEF Kept, Offers
  <2> QED BY <2>1, <2>2
<1> QED BY <1>1, <1>2, <1>3 DEF Abstract!Load

LEMMA WritingRefines ==
  IInv /\ (WriteTemp \/ RemoveSnapshot)
    => Abstract!Forget \/ UNCHANGED <<Visible, Kept, at # "off">>
<1> SUFFICES ASSUME IInv, WriteTemp \/ RemoveSnapshot
             PROVE  Abstract!Forget \/ UNCHANGED <<Visible, Kept, at # "off">>
  OBVIOUS
<1>1. /\ at \in {"writing", "removing"} /\ at' \in {"removing", "renaming"}
      /\ op' = op /\ disk' \in {disk, Missing}
  BY DEF WriteTemp, RemoveSnapshot
<1>2. op' = op
  BY DEF WriteTemp, RemoveSnapshot
<1>3. Visible' = Visible
  BY <1>1, <1>2, VisibleFacts, VisibleFactsNext
<1>4. Kept' = Kept \/ Kept' = {}
  BY <1>1 DEF WriteTemp, RemoveSnapshot, Kept, Offers
<1> QED BY <1>1, <1>3, <1>4 DEF Abstract!Forget

(* A returning operation is the abstract one, whether its save succeeded   *)
(* (the file is the memory) or not (the file is what it was).              *)
LEMMA RenameRefines ==
  IInv /\ RenameTemp =>
    \/ \E r \in Requests : Abstract!Add(r) \/ Abstract!Remove(r)
    \/ Abstract!Flush \/ Abstract!Save
<1> SUFFICES ASSUME IInv, RenameTemp
             PROVE  \/ \E r \in Requests : Abstract!Add(r) \/ Abstract!Remove(r)
                    \/ Abstract!Flush \/ Abstract!Save
  OBVIOUS
<1>1. /\ at = "renaming" /\ at' = "idle" /\ disk' = mem /\ mem' = mem
      /\ mem \in Memory /\ Progress
  BY DEF RenameTemp, IInv, TypeOK, OpInv
<1>2. /\ Visible = Offers(op.was) /\ Visible' = Offers(mem)
      /\ Kept' = Offers(mem)
  <2>1. Kept' = Offers(mem)
    BY <1>1, ValuesAssumption DEF Kept, Offers
  <2> QED BY <1>1, <2>1, VisibleFacts, VisibleFactsNext
<1>3. (at # "off") /\ (at' # "off") = (at # "off")
  BY <1>1
<1>4. CASE op.name = "add"
  <2>1. PICK r \in Requests \ Offers(op.was) :
          Offers(mem) = Offers(op.was) \cup {r}
    BY <1>1, <1>4 DEF Progress
  <2>2. Abstract!Add(r)
    BY <1>2, <1>3, <2>1 DEF Abstract!Add
  <2> QED BY <2>1, <2>2
<1>5. CASE op.name = "remove"
  <2>1. PICK r \in Offers(op.was) : Offers(mem) = Offers(op.was) \ {r}
    BY <1>1, <1>5 DEF Progress
  <2>2. Abstract!Remove(r) /\ r \in Requests
    BY <1>2, <1>3, <2>1 DEF Abstract!Remove, Offers
  <2> QED BY <2>2
<1>6. CASE op.name = "flush"
  <2>1. Offers(mem) = {}
    BY <1>1, <1>6 DEF Progress
  <2> QED BY <1>2, <1>3, <2>1 DEF Abstract!Flush
<1>7. CASE op.name \notin {"add", "remove", "flush"}
  <2>1. Offers(mem) = Offers(op.was)
    BY <1>1, <1>7 DEF Progress
  <2> QED BY <1>2, <1>3, <2>1 DEF Abstract!Save
<1> QED BY <1>4, <1>5, <1>6, <1>7

LEMMA SaveFailsRefines ==
  IInv /\ SaveFails =>
    \/ \E r \in Requests : Abstract!Add(r)
    \/ Abstract!Flush \/ Abstract!Crash
    \/ UNCHANGED <<Visible, Kept, at # "off">>
<1> SUFFICES ASSUME IInv, SaveFails
             PROVE  \/ \E r \in Requests : Abstract!Add(r)
                    \/ Abstract!Flush \/ Abstract!Crash
                    \/ UNCHANGED <<Visible, Kept, at # "off">>
  OBVIOUS
<1>1. /\ at \in {"writing", "removing", "renaming"} /\ disk' = disk
      /\ Progress /\ Kept' = Kept
  BY DEF SaveFails, IInv, OpInv, Kept, Offers
<1>2. Visible = Offers(op.was) /\ (at # "off") = TRUE
  BY <1>1, VisibleFacts
<1>3. CASE op.name = "load"
  <2>1. at' = "off"
    BY <1>3 DEF SaveFails
  <2> QED BY <1>1, <2>1, VisibleFactsNext DEF Abstract!Crash
<1>4. CASE op.name # "load"
  <2>1. at' = "idle" /\ mem' = AfterFailure(mem)
    BY <1>4 DEF SaveFails
  <2>2. Visible' = Offers(mem') /\ (at' # "off") = TRUE
    BY <2>1, VisibleFactsNext
  <2>3. CASE op.name = "remove"
    BY <1>1, <1>2, <2>1, <2>2, <2>3 DEF AfterFailure
  <2>4. CASE op.name = "add"
    <3>1. mem' = mem
      BY <2>1, <2>4 DEF AfterFailure
    <3>2. PICK r \in Requests \ Offers(op.was) :
            Offers(mem) = Offers(op.was) \cup {r}
      BY <1>1, <2>4 DEF Progress
    <3>3. Abstract!Add(r)
      BY <1>1, <1>2, <2>2, <3>1, <3>2 DEF Abstract!Add
    <3> QED BY <3>2, <3>3
  <2>5. CASE op.name = "flush"
    <3>1. mem' = mem
      BY <2>1, <2>5 DEF AfterFailure
    <3>2. Offers(mem) = {}
      BY <1>1, <2>5 DEF Progress
    <3> QED BY <1>1, <1>2, <2>2, <3>1, <3>2 DEF Abstract!Flush
  <2>6. CASE op.name = "close"
    <3>1. mem' = mem
      BY <2>1, <2>6 DEF AfterFailure
    <3>2. Offers(mem) = Offers(op.was)
      BY <1>1, <2>6 DEF Progress
    <3> QED BY <1>1, <1>2, <2>2, <3>1, <3>2
  <2>7. op.name \in {"add", "remove", "flush", "close", "load"}
    BY <1>1 DEF Progress
  <2> QED BY <1>4, <2>3, <2>4, <2>5, <2>6, <2>7
<1> QED BY <1>3, <1>4

LEMMA CrashRefines == IInv /\ Crash => Abstract!Crash
<1> SUFFICES ASSUME Crash  PROVE Abstract!Crash
  OBVIOUS
<1>1. at' = "off" /\ disk' \in {disk, Torn}
  BY DEF Crash
<1>2. Kept' \in {Kept, {}}
  BY <1>1 DEF Kept, Offers
<1> QED BY <1>1, <1>2, VisibleFactsNext DEF Abstract!Crash

LEMMA StepRefines == IInv /\ [Next]_vars => [Abstract!Next]_<<Visible, Kept, at # "off">>
<1> SUFFICES ASSUME IInv, [Next]_vars
             PROVE  [Abstract!Next]_<<Visible, Kept, at # "off">>
  OBVIOUS
<1>1. ASSUME NEW r \in Requests, AddFile(r) \/ AddFolder(r)
      PROVE  UNCHANGED <<Visible, Kept, at # "off">>
  BY <1>1, BeginRefines DEF AddFile, AddFolder, Add
<1>2. ASSUME NEW id \in Ids, RemoveFile(id) \/ RemoveFolder(id)
      PROVE  UNCHANGED <<Visible, Kept, at # "off">>
  BY <1>2, BeginRefines DEF RemoveFile, RemoveFolder
<1>3. ASSUME Flush \/ Close  PROVE UNCHANGED <<Visible, Kept, at # "off">>
  BY <1>3, BeginRefines DEF Flush, Close
<1>4. CASE Load
  BY <1>4, LoadRefines DEF Abstract!Next
<1>5. CASE WriteTemp \/ RemoveSnapshot
  BY <1>5, WritingRefines DEF Abstract!Next
<1>6. CASE RenameTemp
  BY <1>6, RenameRefines DEF Abstract!Next
<1>7. CASE SaveFails
  BY <1>7, SaveFailsRefines DEF Abstract!Next
<1>8. CASE Crash
  BY <1>8, CrashRefines DEF Abstract!Next
<1>9. CASE UNCHANGED vars
  <2>1. mem' = mem /\ disk' = disk /\ at' = at /\ op' = op
    BY <1>9 DEF vars
  <2> QED BY <2>1 DEF Visible, Kept, Offers
<1> QED BY <1>1, <1>2, <1>3, <1>4, <1>5, <1>6, <1>7, <1>8, <1>9 DEF Next

(* The manager is a DurableQueue, for any offers, ids, failures and        *)
(* crashes (queue.go:84-379).                                              *)
THEOREM Refinement == Spec => ImplementsQueue
<1>1. Init => Abstract!Init
  BY VisibleFacts DEF Init, Abstract!Init, Kept
<1>2. IInv /\ [Next]_vars => [Abstract!Next]_<<Visible, Kept, at # "off">>
  BY StepRefines
<1> QED BY <1>1, <1>2, Invariant, PTL
        DEF Spec, ImplementsQueue, Abstract!Spec, Abstract!queueVars
=============================================================================
