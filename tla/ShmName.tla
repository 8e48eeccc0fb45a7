------------------------------ MODULE ShmName ------------------------------
(***************************************************************************)
(* create_shm_buffer, run by several instances of the program on one host. *)
(* The shared memory is born under one fixed name in /dev/shm: shm_open    *)
(* with O_EXCL creates it, shm_unlink takes the name off again at once,    *)
(* and from there on the object is known by its descriptor only.  The      *)
(* steps of the instances interleave, and an instance may die at any of    *)
(* them and be started again.                                              *)
(***************************************************************************)
EXTENDS Naturals

CONSTANTS
  Instances,   (* processes of the program                               *)
  MaxObjects,  (* bound: shared memory objects ever created              *)
  Nothing      (* no object: a free name, a descriptor that is not open  *)

Objects == 1 .. MaxObjects

ASSUME ShmAssumption ==
  Instances # {} /\ MaxObjects \in Nat /\ Nothing \notin Objects

VARIABLES
  pc,       (* where create_shm_buffer is, for each instance             *)
  obj,      (* the object that its fd, or its mapping, refers to         *)
  name,     (* the object the name stands for                            *)
  size,     (* the objects that have been given their size               *)
  created,  (* objects created so far                                    *)
  orphans   (* history: objects whose creator died holding the name      *)

vars == <<pc, obj, name, size, created, orphans>>

Steps == {"open", "unlink", "truncate", "mmap", "pool"}
PCs == Steps \union {"ready", "refused", "error", "dead"}

TypeOK ==
  /\ pc \in [Instances -> PCs]
  /\ obj \in [Instances -> Objects \union {Nothing}]
  /\ name \in Objects \union {Nothing}
  /\ size \subseteq Objects
  /\ created \in 0 .. MaxObjects
  /\ orphans \subseteq Objects

Init ==
  /\ pc = [i \in Instances |-> "open"]
  /\ obj = [i \in Instances |-> Nothing]
  /\ name = Nothing /\ size = {} /\ created = 0 /\ orphans = {}

Go(i, to) == pc' = [pc EXCEPT ![i] = to]

OpenedAnyway ==                                 \* seeded fault: O_EXCL forgotten
  IF name = Nothing THEN created + 1 ELSE name

(* What shm_open(O_CREAT | O_EXCL) gives: a new object, if the name is free. *)
Opened == IF name = Nothing THEN created + 1 ELSE Nothing

Open(i) ==
  /\ pc[i] = "open"
  /\ created < MaxObjects
  /\ IF Opened = Nothing
       THEN Go(i, "refused") /\ UNCHANGED <<name, obj, created>>
       ELSE /\ obj' = [obj EXCEPT ![i] = Opened]
            /\ name' = Opened
            /\ created' = IF name = Nothing THEN created + 1 ELSE created
            /\ Go(i, "unlink")
  /\ UNCHANGED <<size, orphans>>

NotUnlinked == name                             \* seeded fault: the name is kept
Unlinked == Nothing

Unlink(i) ==
  /\ pc[i] = "unlink"
  /\ name' = Unlinked
  /\ Go(i, "truncate")
  /\ UNCHANGED <<obj, size, created, orphans>>

(* close(fd) and return NULL: the program exits. *)
GiveUp(i) ==
  /\ Go(i, "error")
  /\ obj' = [obj EXCEPT ![i] = Nothing]

GoOn(i) ==                                      \* seeded fault: -1 not noticed
  /\ Go(i, "mmap")
  /\ UNCHANGED obj

(* -1 is not EINTR: an interrupted ftruncate is an error like any other. *)
FtruncateFails(i) == GiveUp(i)

Truncate(i) ==
  /\ pc[i] = "truncate"
  /\ \/ Go(i, "mmap") /\ size' = size \union {obj[i]} /\ UNCHANGED obj
     \/ FtruncateFails(i) /\ UNCHANGED size
  /\ UNCHANGED <<name, created, orphans>>

Mmap(i) ==
  /\ pc[i] = "mmap"
  /\ \/ Go(i, "pool") /\ UNCHANGED obj
     \/ GiveUp(i)
  /\ UNCHANGED <<name, size, created, orphans>>

(* The compositor gets the descriptor; the mapping outlives it. *)
CreatePool(i) ==
  /\ pc[i] = "pool"
  /\ Go(i, "ready")
  /\ UNCHANGED <<obj, name, size, created, orphans>>

(* The process ends, anywhere; the kernel drops its descriptor and mapping, *)
(* but not the name.                                                        *)
Die(i) ==
  /\ pc[i] \in Steps \union {"ready"}
  /\ Go(i, "dead")
  /\ obj' = [obj EXCEPT ![i] = Nothing]
  /\ orphans' = IF pc[i] = "unlink" THEN orphans \union {obj[i]} ELSE orphans
  /\ UNCHANGED <<name, size, created>>

Restart(i) ==
  /\ pc[i] \in {"refused", "error", "dead"}
  /\ Go(i, "open")
  /\ UNCHANGED <<obj, name, size, created, orphans>>

Next == \E i \in Instances :
  \/ Open(i) \/ Unlink(i) \/ Truncate(i) \/ Mmap(i) \/ CreatePool(i)
  \/ Die(i) \/ Restart(i)

Spec == Init /\ [][Next]_vars

-----------------------------------------------------------------------------
(* Properties.                                                               *)

(* Two instances never draw into the same memory, although all of them ask    *)
(* for it by the same name.                                                   *)
Isolation ==
  \A i, j \in Instances : i # j /\ obj[i] # Nothing => obj[i] # obj[j]

(* The name is taken only while its creator is between shm_open and           *)
(* shm_unlink, or because it died there: it then stays taken, and every later *)
(* start is refused.                                                          *)
NameHeld ==
  name # Nothing =>
    name \in orphans \/ \E i \in Instances : pc[i] = "unlink" /\ obj[i] = name

(* An instance removes its own name and not the one of another.               *)
OwnName == \A i \in Instances : pc[i] = "unlink" => name = obj[i]

(* Memory that is written to has its size: an interrupted or failed ftruncate *)
(* does not leave a mapping that faults when it is touched.                   *)
SizedWhenUsed ==
  \A i \in Instances : pc[i] \in {"mmap", "pool", "ready"} => obj[i] \in size

(* Instances that are started together do not keep each other out: as long as *)
(* none has died holding the name, at least one is not refused.               *)
NeverAllRefused ==
  orphans = {} => \E i \in Instances : pc[i] # "refused"

-----------------------------------------------------------------------------
(* The inductive invariant behind them.                                      *)

(* A name and a descriptor refer to objects that were created, and only an   *)
(* instance at work or ready has one.                                        *)
Referenced ==
  /\ name # Nothing => name <= created
  /\ \A i \in Instances :
       /\ obj[i] # Nothing => obj[i] <= created
       /\ pc[i] \in {"unlink", "truncate", "mmap", "pool", "ready"} <=> obj[i] # Nothing

ShmInv ==
  /\ TypeOK /\ Referenced
  /\ OwnName /\ Isolation /\ NameHeld /\ SizedWhenUsed
=============================================================================
