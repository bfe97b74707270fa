---------------------------- MODULE PendingQueue ----------------------------
(***************************************************************************)
(* The approval queue and its snapshot file (internal/queue/queue.go).     *)
(*                                                                         *)
(* Every operation holds Manager.mu from its first line to its return, so  *)
(* only a crash comes between its steps: the change in memory, then, in    *)
(* saveLocked, the temporary file, the removal of the old snapshot and the *)
(* rename.  The temporary file is never read; where it matters is that the *)
(* rename gives the snapshot the contents of the memory.                   *)
(***************************************************************************)
EXTENDS Naturals, FiniteSets

CONSTANTS
  Requests,       \* offers; each arrives once, under an id of its own
  Ids,            \* bound: queue ids handed out before the model stops
  MaxDiskFails,   \* bound: steps of saveLocked that fail
  MaxTears,       \* bound: crashes that leave the snapshot unreadable
  None, Missing, Torn

ASSUME IdsAssumption == Ids \subseteq Nat \ {0}

ASSUME BoundsAssumption == MaxDiskFails \in Nat /\ MaxTears \in Nat

Items == [Ids -> Requests \cup {None}]
Memory == [nextID : Nat \ {0}, files : Items, folders : Items]

ASSUME ValuesAssumption ==
  /\ None \notin Requests
  /\ Missing \notin Memory /\ Torn \notin Memory /\ Missing # Torn

VARIABLES
  mem,        \* Manager.nextID, files, folders
  persistErr, \* Manager.persistErr is set
  disk,       \* the file at snapshotPath
  at,         \* the step of saveLocked that comes next, "idle" or "off"
  op,         \* the operation that saves, and the memory it started from
  seen,       \* history: offers that arrived
  gone,       \* history: offers whose removal returned without an error
  fails, tears

vars == <<mem, persistErr, disk, at, op, seen, gone, fails, tears>>
history == <<seen, gone, fails, tears>>

NoItems == [id \in Ids |-> None]
Empty == [nextID |-> 1, files |-> NoItems, folders |-> NoItems]
NoOp == [name |-> "none", was |-> Empty]

Used(m) == {id \in Ids : m.files[id] # None \/ m.folders[id] # None}
Offers(m) ==
  {r \in Requests : \E id \in Ids : m.files[id] = r \/ m.folders[id] = r}

Init ==
  /\ mem = Empty /\ persistErr = FALSE /\ disk = Missing
  /\ at = "off" /\ op = NoOp
  /\ seen = {} /\ gone = {} /\ fails = 0 /\ tears = 0
-----------------------------------------------------------------------------
Begin(name) ==
  /\ at = "idle" /\ at' = "writing"
  /\ op' = [name |-> name, was |-> mem]
  /\ UNCHANGED <<persistErr, disk, gone, fails, tears>>

WithFile(m, r) ==
  [nextID |-> m.nextID + 1,
   files |-> [m.files EXCEPT ![m.nextID] = r], folders |-> m.folders]

WithFolderMutant(m, r) ==   \* a slip: the id is not used up
  [nextID |-> m.nextID,
   files |-> m.files, folders |-> [m.folders EXCEPT ![m.nextID] = r]]

WithFolder(m, r) ==
  [nextID |-> m.nextID + 1,
   files |-> m.files, folders |-> [m.folders EXCEPT ![m.nextID] = r]]

Add(r) ==
  /\ Begin("add")
  /\ r \notin seen /\ seen' = seen \cup {r}
  /\ mem.nextID \in Ids

AddFile(r) == Add(r) /\ mem' = WithFile(mem, r)

AddFolder(r) == Add(r) /\ mem' = WithFolder(mem, r)

RemoveFile(id) ==
  /\ Begin("remove")
  /\ mem.files[id] # None
  /\ mem' = [nextID |-> mem.nextID, folders |-> mem.folders,
             files |-> [mem.files EXCEPT ![id] = None]]
  /\ UNCHANGED seen

RemoveFolder(id) ==
  /\ Begin("remove")
  /\ mem.folders[id] # None
  /\ mem' = [nextID |-> mem.nextID, files |-> mem.files,
             folders |-> [mem.folders EXCEPT ![id] = None]]
  /\ UNCHANGED seen

FlushMutant ==   \* a slip: only the memory is cleared
  /\ at = "idle" /\ mem' = Empty
  /\ UNCHANGED <<persistErr, disk, at, op, history>>

Flush == Begin("flush") /\ mem' = Empty /\ UNCHANGED seen

Close == Begin("close") /\ UNCHANGED <<mem, seen>>

(* NextID of a snapshot, unless an item in it is as old.                   *)
LoadedNextID(m) ==
  IF \A id \in Used(m) : id < m.nextID THEN m.nextID
  ELSE 1 + CHOOSE max \in Used(m) : \A id \in Used(m) : id <= max

(* NewManager.  A snapshot that cannot be decoded is moved out of the way. *)
Load ==
  /\ at = "off" /\ at' = "writing"
  /\ IF disk \in {Missing, Torn}
     THEN mem' = Empty /\ disk' = Missing
     ELSE /\ mem' = [nextID |-> LoadedNextID(disk),
                     files |-> disk.files, folders |-> disk.folders]
          /\ UNCHANGED disk
  /\ persistErr' = FALSE
  /\ op' = [name |-> "load", was |-> mem']
  /\ UNCHANGED history
-----------------------------------------------------------------------------
(* saveLocked.                                                             *)
WriteTemp ==
  /\ at = "writing" /\ at' = "removing"
  /\ UNCHANGED <<mem, persistErr, disk, op, history>>

RemoveSnapshot ==
  /\ at = "removing" /\ at' = "renaming"
  /\ disk' = Missing
  /\ UNCHANGED <<mem, persistErr, op, history>>

RenameTempMutant ==   \* a slip: the snapshot is built before the change
  /\ at = "renaming" /\ at' = "idle"
  /\ disk' = op.was
  /\ gone' = IF op.name \in {"remove", "flush"}
             THEN gone \cup (Offers(op.was) \ Offers(mem)) ELSE gone
  /\ op' = NoOp
  /\ UNCHANGED <<mem, persistErr, seen, fails, tears>>

(* The last step of a save; its caller returns without an error.           *)
RenameTemp ==
  /\ at = "renaming" /\ at' = "idle"
  /\ disk' = mem
  /\ gone' = IF op.name \in {"remove", "flush"}
             THEN gone \cup (Offers(op.was) \ Offers(mem)) ELSE gone
  /\ op' = NoOp
  /\ UNCHANGED <<mem, persistErr, seen, fails, tears>>

AfterFailureMutant(m) == m   \* a slip: the removal stands

(* A removal that could not be saved is taken back.                        *)
AfterFailure(m) == IF op.name = "remove" THEN op.was ELSE m

(* A step of saveLocked fails, and its caller returns.  Add* notes it in   *)
(* persistErr; NewManager's caller exits.                                  *)
SaveFails ==
  /\ at \in {"writing", "removing", "renaming"}
  /\ fails < MaxDiskFails /\ fails' = fails + 1
  /\ IF op.name = "load" THEN mem' = Empty /\ at' = "off"
     ELSE mem' = AfterFailure(mem) /\ at' = "idle"
  /\ persistErr' = (persistErr \/ op.name = "add")
  /\ op' = NoOp
  /\ UNCHANGED <<disk, seen, gone, tears>>

(* Nothing is synced, so a machine that goes down may leave a torn file.   *)
Crash ==
  /\ at # "off" /\ at' = "off"
  /\ \/ UNCHANGED <<disk, tears>>
     \/ /\ tears < MaxTears /\ tears' = tears + 1
        /\ disk # Missing /\ disk' = Torn
  /\ mem' = Empty /\ persistErr' = FALSE /\ op' = NoOp
  /\ UNCHANGED <<seen, gone, fails>>
-----------------------------------------------------------------------------
Next ==
  \/ \E r \in Requests : AddFile(r) \/ AddFolder(r)
  \/ \E id \in Ids : RemoveFile(id) \/ RemoveFolder(id)
  \/ Flush \/ Close \/ Load
  \/ WriteTemp \/ RemoveSnapshot \/ RenameTemp \/ SaveFails \/ Crash

Spec == Init /\ [][Next]_vars
-----------------------------------------------------------------------------
(* Typing: the types of all variables.                                     *)
TypeOK ==
  /\ mem \in Memory /\ disk \in Memory \cup {Missing, Torn}
  /\ persistErr \in BOOLEAN
  /\ at \in {"off", "idle", "writing", "removing", "renaming"}
  /\ op \in [name : {"none", "add", "remove", "flush", "close", "load"},
             was : Memory]
  /\ seen \subseteq Requests /\ gone \subseteq Requests
  /\ fails \in 0..MaxDiskFails /\ tears \in 0..MaxTears

Distinct(m) ==
  /\ \A id \in Ids : m.files[id] = None \/ m.folders[id] = None
  /\ \A id \in Used(m) : id < m.nextID
  /\ \A i, j \in Ids : i # j =>
       /\ m.files[i] # None => m.files[i] # m.files[j]
       /\ m.folders[i] # None => m.folders[i] # m.folders[j]
  /\ \A i, j \in Ids : m.files[i] # None => m.files[i] # m.folders[j]

(* An id names exactly one pending item, whichever kind it is, and the     *)
(* next id names none, through any number of restarts, flushes and failed  *)
(* saves: approve and reject look an item up by its id, files first        *)
(* (queue.go:84-146, queue_commands.go:253-300).                           *)
IdsUnique == Distinct(mem)

(* What is on disk.                                                        *)
Kept == IF disk \in {Missing, Torn} THEN {} ELSE Offers(disk)

(* An offer that was answered, so that RemoveFile or RemoveFolder returned *)
(* without an error, is never asked about again: neither the queue nor a   *)
(* file that a restart would load lists it (queue.go:172-204).             *)
NoneComesBack == gone \cap (Offers(mem) \cup Kept) = {}

(* As long as no disk operation failed and no file was torn, the snapshot  *)
(* is the queue whenever the manager is between two operations, whatever   *)
(* step of a save earlier crashes hit (queue.go:340-379).                  *)
SavedAtRest == at = "idle" /\ fails = 0 /\ tears = 0 => disk = mem
-----------------------------------------------------------------------------
(* To the rest of the program an operation happens when it returns; what   *)
(* Load reads counts as pending from then on.                              *)
Visible ==
  CASE at = "off" -> {}
    [] at = "idle" -> Offers(mem)
    [] OTHER -> Offers(op.was)

Abstract == INSTANCE DurableQueue
              WITH pending <- Visible, kept <- Kept, up <- at # "off"

(* The manager is a DurableQueue: its memory is the authority, a removal   *)
(* is answered only together with the file, and a restart finds what was   *)
(* kept (queue.go:84-379).                                                 *)
ImplementsQueue == Abstract!Spec
=============================================================================
