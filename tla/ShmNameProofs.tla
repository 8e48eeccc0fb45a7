--------------------------- MODULE ShmNameProofs ---------------------------
(***************************************************************************)
(* Any number of instances that create their buffers under the one name,   *)
(* dying and starting again at any point: what the name and the memory     *)
(* guarantee them.                                                         *)
(***************************************************************************)
EXTENDS ShmName, TLAPS

LEMMA InitShm == Init => ShmInv
BY ShmAssumption DEF Init, ShmInv, TypeOK, PCs, Steps, Referenced, OwnName, Isolation,
   NameHeld, SizedWhenUsed

LEMMA StepShm == ShmInv /\ [Next]_vars => ShmInv'
<1> USE ShmAssumption DEF ShmInv, TypeOK, PCs, Steps, Referenced, OwnName, Isolation,
        NameHeld, SizedWhenUsed, Go, Objects
<1> SUFFICES ASSUME ShmInv, [Next]_vars PROVE ShmInv'
  OBVIOUS
<1>1. ASSUME NEW i \in Instances, Open(i) PROVE ShmInv'
  <2>1. CASE name = Nothing
    <3>1. /\ created' = created + 1 /\ name' = created + 1
          /\ obj' = [obj EXCEPT ![i] = created + 1]
          /\ pc' = [pc EXCEPT ![i] = "unlink"]
          /\ created + 1 \in Objects /\ UNCHANGED <<size, orphans>>
      BY <1>1, <2>1 DEF Open, Opened
    <3>2. \A j \in Instances : pc[j] # "unlink"
      BY <2>1
    <3> QED BY <3>1, <3>2, <2>1
  <2>2. CASE name # Nothing
    BY <1>1, <2>2 DEF Open, Opened
  <2> QED BY <2>1, <2>2
<1>2. ASSUME NEW i \in Instances, Unlink(i) PROVE ShmInv'
  BY <1>2 DEF Unlink, Unlinked
<1>3. ASSUME NEW i \in Instances, Truncate(i) PROVE ShmInv'
  <2>1. CASE pc' = [pc EXCEPT ![i] = "mmap"]
    BY <1>3, <2>1 DEF Truncate, FtruncateFails, GiveUp
  <2>2. CASE FtruncateFails(i) /\ UNCHANGED size
    BY <1>3, <2>2 DEF Truncate, FtruncateFails, GiveUp
  <2> QED BY <1>3, <2>1, <2>2 DEF Truncate
<1>4. ASSUME NEW i \in Instances, Mmap(i) PROVE ShmInv'
  <2>1. CASE pc' = [pc EXCEPT ![i] = "pool"] /\ UNCHANGED obj
    BY <1>4, <2>1 DEF Mmap
  <2>2. CASE GiveUp(i)
    BY <1>4, <2>2 DEF Mmap, GiveUp
  <2> QED BY <1>4, <2>1, <2>2 DEF Mmap
<1>5. ASSUME NEW i \in Instances, CreatePool(i) PROVE ShmInv'
  BY <1>5 DEF CreatePool
<1>6. ASSUME NEW i \in Instances, Die(i) PROVE ShmInv'
  BY <1>6 DEF Die
<1>7. ASSUME NEW i \in Instances, Restart(i) PROVE ShmInv'
  BY <1>7 DEF Restart
<1>8. CASE UNCHANGED vars
  BY <1>8 DEF vars
<1> QED BY <1>1, <1>2, <1>3, <1>4, <1>5, <1>6, <1>7, <1>8 DEF Next

(* What is known of every reachable state. *)
THEOREM ShmInvariant == Spec => []ShmInv
BY InitShm, StepShm, PTL DEF Spec

(* Two instances never share the memory their pictures are drawn into. *)
THEOREM MemoryIsolated == Spec => []Isolation
BY ShmInvariant, PTL DEF ShmInv

(* Only a death between shm_open and shm_unlink leaves the name taken. *)
THEOREM NameReleased == Spec => []NameHeld
BY ShmInvariant, PTL DEF ShmInv

(* No instance maps memory that was not given its size. *)
THEOREM MappedMemorySized == Spec => []SizedWhenUsed
BY ShmInvariant, PTL DEF ShmInv

(* Without a death in that window, one of the instances always gets through. *)
THEOREM OneGetsThrough == Spec => []NeverAllRefused
<1>1. Init => NeverAllRefused
  BY ShmAssumption DEF Init, NeverAllRefused
<1>2. ShmInv /\ NeverAllRefused /\ [Next]_vars => NeverAllRefused'
  <2> SUFFICES ASSUME ShmInv, NeverAllRefused, [Next]_vars, orphans' = {}
               PROVE  \E j \in Instances : pc'[j] # "refused"
    BY DEF NeverAllRefused
  <2> USE DEF ShmInv, TypeOK, Go
  <2>1. CASE UNCHANGED vars
    BY <2>1 DEF vars, NeverAllRefused
  <2>2. ASSUME NEW i \in Instances, Open(i)
        PROVE  \E j \in Instances : pc'[j] # "refused"
    <3>1. orphans = {}
      BY <2>2 DEF Open
    <3>2. CASE Opened = Nothing
      <4>1. name # Nothing
        BY <3>2, ShmAssumption, <2>2 DEF Opened, Open, Objects
      <4>2. PICK j \in Instances : pc[j] = "unlink"
        BY <4>1, <3>1 DEF NameHeld
      <4> QED BY <4>2, <2>2, <3>2 DEF Open
    <3>3. CASE Opened # Nothing
      BY <2>2, <3>3 DEF Open
    <3> QED BY <3>2, <3>3
  <2>3. ASSUME NEW i \in Instances,
               Unlink(i) \/ Truncate(i) \/ Mmap(i) \/ CreatePool(i) \/ Die(i) \/ Restart(i)
        PROVE  \E j \in Instances : pc'[j] # "refused"
    <3>1. pc'[i] # "refused"
      BY <2>3 DEF Unlink, Truncate, FtruncateFails, Mmap, GiveUp, CreatePool, Die, Restart
    <3> QED BY <3>1
  <2> QED BY <2>1, <2>2, <2>3 DEF Next
<1> QED BY <1>1, <1>2, ShmInvariant, PTL DEF Spec
=============================================================================
